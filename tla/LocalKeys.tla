----------------------------- MODULE LocalKeys -----------------------------
(***************************************************************************)
(* The keys an application holds, and what it does with them: the          *)
(* functions of ffi/key.rs over kms/local_key.rs and kms/envelope.rs, and  *)
(* the storing and loading of a key (store.rs, kms/entry.rs).              *)
(*                                                                         *)
(* The application holds up to one key per handle.  What it last exported, *)
(* encrypted or signed is on the wire, where the same or another           *)
(* application reads it back; one key entry is in the store.  A call that  *)
(* fails changes nothing.  The ephemeral flag of a key, which nothing in   *)
(* the library reads, is left out.                                         *)
(*                                                                         *)
(* Ghost state: every key, export and entry carries its origin, the        *)
(* algorithm and the random draws and operations it stems from, which the  *)
(* code does not have.  The properties compare keys of one origin that     *)
(* were obtained along different paths.                                    *)
(***************************************************************************)
EXTENDS KeyCrypto

CONSTANTS
  Handle,       \* key handles: a set of numbers
  GenAlgs,      \* the algorithms keys are generated for
  SeedAlgs,     \* the algorithms keys are made from a seed for
  SeedLengths,  \* the lengths of the seeds
  ImportAlgs,   \* the algorithms named when secret bytes are read back
  MsgLengths,   \* the lengths of the messages
  TagLengths,   \* the lengths of the content tag of ECDH-1PU
  MaxCalls,     \* bound: calls that succeed
  MaxDraws      \* bound: draws from the random source

VARIABLES
  keys,    \* Handle -> the key behind the handle, or Free
  wire,    \* the last export
  entry,   \* the stored key entry
  drawn,   \* number of draws from the random source
  calls    \* number of successful calls

vars == <<keys, wire, entry, drawn, calls>>

Origin(alg, src) == [alg |-> alg, src |-> src]
Held(k, origin)  == [key |-> k, origin |-> origin]
Free == Held(None, None)
Live == {h \in Handle : keys[h] # Free}

Nothing == [kind |-> "none", data |-> None, of |-> None, arg |-> None]
NoEntry == [data |-> None, alg |-> NoAlg, thumbs |-> {}, ref |-> NoAlg, of |-> None]

NoBytes == Bytes(0, None)
Messages == {IF n = 0 THEN NoBytes ELSE Bytes(n, <<"m", n>>) : n \in MsgLengths}
Aads == {NoBytes, Bytes(3, <<"aad">>)}
Parties == {<<>>, <<<<"b", 1>>>>}
CcTags == {IF n = 0 THEN NoBytes ELSE Bytes(n, <<"cc", n>>) : n \in TagLengths}
EncAlg == <<<<"b", 7>>>>      \* the name of the algorithm given to a derivation

Init ==
  /\ keys = [h \in Handle |-> Free]
  /\ wire = Nothing
  /\ entry = NoEntry
  /\ drawn = 0
  /\ calls = 0

Count == calls' = calls + 1
Draw == drawn' = drawn + 1 /\ drawn < MaxDraws
NextDraw == <<"rng", drawn>>

(* A new handle for the key a call returns; what a call puts on the wire.   *)
Create(r, origin) ==
  /\ IsOk(r) /\ Live # Handle
  /\ LET h == CHOOSE x \in Handle \ Live : \A y \in Handle \ Live : x <= y
     IN keys' = [keys EXCEPT ![h] = Held(r.ok, origin)]
  /\ Count /\ UNCHANGED <<wire, entry>>
Emit(kind, r, origin, arg) ==
  /\ IsOk(r)
  /\ wire' = [kind |-> kind, data |-> r.ok, of |-> origin, arg |-> arg]
  /\ Count /\ UNCHANGED <<keys, entry>>

-----------------------------------------------------------------------------
(* Making keys *)

(* A backend name that is not known counts as the default, software.        *)
GenerateKey(name, backend) ==
  LET alg == AlgFromStr(name) IN
  /\ IsOk(alg)
  /\ Create(IF backend = "secure_element" THEN GenerateAnyForHardware(alg.ok)
            ELSE GenerateAny(alg.ok, NextDraw), Origin(alg.ok, NextDraw))
  /\ Draw

SeedSource(seed, method) ==
  CASE method = "bls_keygen" -> BlsKeyGen(seed)
    [] method = NoAlg -> Ok(RandomDet(seed))
    [] OTHER -> Err("Unsupported")
FromSeed(alg, n, method) ==
  LET src == SeedSource(Bytes(n, <<"seed", n>>), method) IN
  /\ IsOk(src)
  /\ Create(GenerateAny(alg, src.ok), Origin(alg, src.ok))
  /\ UNCHANGED drawn

(* The origin of bytes of one algorithm read as those of another.           *)
ReadAs(how, origin, alg) ==
  IF alg = origin.alg THEN origin ELSE Origin(alg, <<how, origin>>)

FromPublicBytes(alg) ==
  /\ wire.kind = "public"
  /\ Create(FromPublicBytesAny(alg, wire.data), ReadAs("public", wire.of, alg))
  /\ UNCHANGED drawn
FromSecretBytes(alg) ==
  /\ wire.kind = "secret"
  /\ Create(FromSecretBytesAny(alg, wire.data), ReadAs("secret", wire.of, alg))
  /\ UNCHANGED drawn
FromJwkBytes(jwk) ==
  /\ wire.kind = "jwk"
  /\ Create(FromJwk(jwk), wire.of)
  /\ UNCHANGED drawn

(* The JWKs an application may present: the exported one, one written by an *)
(* earlier version with key type EC, one whose private member was taken     *)
(* from another key it holds.                                               *)
WithEcType(jwk) ==
  [i \in DOMAIN jwk |-> IF jwk[i][1] = "kty" THEN Member("kty", "EC") ELSE jwk[i]]
WithSecretOf(jwk, k) == jwk \o SecretMember(k, "secret")
Presented ==
  {wire.data} \union {WithSecretOf(wire.data, keys[h].key) :
                        h \in {g \in Live : keys[g].key.alg = wire.of.alg}}
              \union (IF wire.of.alg \in Bls THEN {WithEcType(wire.data)} ELSE {})

(* The G1 and G2 keys of a G1G2 key stem from the same draw.                *)
ConvertKey(h, alg) ==
  LET o == keys[h].origin IN
  /\ Create(ConvertKeyAny(keys[h].key, alg),
            Origin(alg, IF alg \in Bls THEN o.src ELSE <<"convert", o>>))
  /\ UNCHANGED drawn
KeyExchange(alg, h, g) ==
  /\ Create(FromKeyExchangeAny(alg, keys[h].key, keys[g].key),
            Origin(alg, <<"exchange", {keys[h].origin, keys[g].origin}>>))
  /\ UNCHANGED drawn
FreeKey(h) ==
  /\ keys' = [keys EXCEPT ![h] = Free]
  /\ Count /\ UNCHANGED <<wire, entry, drawn>>

-----------------------------------------------------------------------------
(* Exporting keys *)

GetPublicBytes(h) ==
  Emit("public", ToPublicBytesAny(keys[h].key), keys[h].origin, None) /\ UNCHANGED drawn
GetSecretBytes(h) ==
  Emit("secret", ToSecretBytesAny(keys[h].key), keys[h].origin, None) /\ UNCHANGED drawn

(* A G1G2 key exported for G1 or G2 is the key converted to that algorithm. *)
JwkOrigin(h, alg) ==
  LET k == keys[h].key IN
  IF k.alg = "bls12381g1g2" /\ alg \in Bls THEN Origin(alg, keys[h].origin.src)
  ELSE keys[h].origin
GetJwkPublic(h, alg) ==
  Emit("jwk", ToJwkPublic(keys[h].key, alg), JwkOrigin(h, alg), None) /\ UNCHANGED drawn
GetJwkSecret(h) ==
  Emit("jwk", ToJwkSecret(keys[h].key, NoAlg), keys[h].origin, None) /\ UNCHANGED drawn
GetJwkThumbprint(h, alg) ==
  Emit("thumb", ToJwkThumbprint(keys[h].key, alg), JwkOrigin(h, alg), None)
  /\ UNCHANGED drawn

(* Mutant: only the default thumbprint. *)
ToJwkThumbprintsOne(k) == {ToJwkThumbprint(k, NoAlg).ok}

(* The thumbprints a stored key is indexed by.                              *)
ToJwkThumbprints(k) ==
  IF k.alg = "bls12381g1g2"
  THEN {ToJwkThumbprint(k, "bls12381g1").ok, ToJwkThumbprint(k, "bls12381g2").ok}
  ELSE {ToJwkThumbprint(k, NoAlg).ok}

-----------------------------------------------------------------------------
(* Encryption *)

(* An empty nonce is replaced by a random one, if the algorithm takes any;  *)
(* the nonce is appended to ciphertext and tag.                             *)
AeadNonce(k, nonce, src) ==
  IF nonce.len = 0 /\ NonceLength(k.alg) > 0
  THEN Bytes(NonceLength(k.alg), <<"nonce", src>>) ELSE nonce
(* Mutant: the position of the nonce is taken before the tag is written. *)
EncryptedTagLost(r, nonce) ==
  IF ~IsOk(r) THEN r
  ELSE Ok([buf |-> Buffer(r.ok.buf \o <<nonce>>), tag_pos |-> r.ok.tag_pos,
           nonce_pos |-> r.ok.tag_pos])
Encrypted(r, nonce) ==
  IF ~IsOk(r) THEN r
  ELSE Ok([buf |-> Buffer(r.ok.buf \o <<nonce>>), tag_pos |-> r.ok.tag_pos,
           nonce_pos |-> BufLen(r.ok.buf)])
AeadEncrypt(k, msg, nonce, aad, src) ==
  LET n == AeadNonce(k, nonce, src) IN Encrypted(EncryptInPlace(k, msg, n, aad), n)
WrapKey(k, other, nonce) ==
  LET sec == ToSecretBytesAny(other) IN
  IF ~IsOk(sec) THEN sec ELSE Encrypted(EncryptInPlace(k, sec.ok, nonce, NoBytes), nonce)

(* The three parts of the output that the caller is given, and the two of   *)
(* them it passes to a decryption, where they are joined again.             *)
CiphertextOf(enc) == Cut(enc.buf, 0, enc.tag_pos)
TagOf(enc)        == Cut(enc.buf, enc.tag_pos, enc.nonce_pos)
NonceOf(enc)      == Cut(enc.buf, enc.nonce_pos, BufLen(enc.buf))
Joined(enc) == CiphertextOf(enc) \o TagOf(enc)
NonceBytes(enc) == IF NonceOf(enc) = <<>> THEN NoBytes ELSE NonceOf(enc)[1]
AeadDecrypt(k, enc, aad) == DecryptInPlace(k, Joined(enc), NonceBytes(enc), aad)
UnwrapKey(k, alg, enc) ==
  LET sec == DecryptInPlace(k, Joined(enc), NonceBytes(enc), NoBytes) IN
  IF IsOk(sec) THEN FromSecretBytesAny(alg, sec.ok) ELSE sec

AeadEncryptMessage(h, msg, nonce, aad) ==
  /\ Emit("sealed", AeadEncrypt(keys[h].key, msg, nonce, aad, NextDraw),
          keys[h].origin, [msg |-> msg, aad |-> aad, by |-> keys[h].key])
  /\ IF AeadNonce(keys[h].key, nonce, NextDraw) = nonce THEN UNCHANGED drawn ELSE Draw
AeadDecryptMessage(h, aad) ==
  /\ wire.kind = "sealed"
  /\ Emit("plain", AeadDecrypt(keys[h].key, wire.data, aad), wire.of, wire.arg)
  /\ UNCHANGED drawn
WrapOtherKey(h, g, nonce) ==
  /\ Emit("wrapped", WrapKey(keys[h].key, keys[g].key, nonce), keys[g].origin,
          [by |-> keys[h].key, key |-> keys[g].key])
  /\ UNCHANGED drawn
UnwrapOtherKey(h, alg) ==
  /\ wire.kind = "wrapped"
  /\ Create(UnwrapKey(keys[h].key, alg, wire.data), ReadAs("secret", wire.of, alg))
  /\ UNCHANGED drawn

-----------------------------------------------------------------------------
(* Boxes *)

(* kms/envelope.rs: both keys must be X25519 keys.                          *)
BoxMessage(recip, sender, msg, nonce) ==
  IF ~IsOk(CastX25519(recip)) THEN CastX25519(recip)
  ELSE IF ~IsOk(CastX25519(sender)) THEN CastX25519(sender)
  ELSE CryptoBox(recip, sender, msg, nonce)
BoxOpen(recip, sender, buf, nonce) ==
  IF ~IsOk(CastX25519(recip)) THEN CastX25519(recip)
  ELSE IF ~IsOk(CastX25519(sender)) THEN CastX25519(sender)
  ELSE CryptoBoxOpen(recip, sender, buf, nonce)
BoxSeal(recip, msg, src) ==
  IF ~IsOk(CastX25519(recip)) THEN CastX25519(recip) ELSE CryptoBoxSeal(recip, msg, src)
BoxSealOpen(recip, buf) ==
  IF ~IsOk(CastX25519(recip)) THEN CastX25519(recip) ELSE CryptoBoxSealOpen(recip, buf)

BoxNonce(src) == Bytes(CboxNonceLength, <<"nonce", src>>)
CryptoBoxKey(h, g, msg) ==
  /\ Emit("box", BoxMessage(keys[h].key, keys[g].key, msg, BoxNonce(NextDraw)),
          {keys[h].origin, keys[g].origin}, [msg |-> msg, nonce |-> BoxNonce(NextDraw), pubs |-> {keys[h].key.pub, keys[g].key.pub}])
  /\ Draw
CryptoBoxOpenKey(h, g) ==
  /\ wire.kind = "box"
  /\ Emit("plain", BoxOpen(keys[h].key, keys[g].key, wire.data, wire.arg.nonce),
          wire.of, wire.arg)
  /\ UNCHANGED drawn
CryptoBoxSealKey(h, msg) ==
  /\ Emit("sealedbox", BoxSeal(keys[h].key, msg, NextDraw), keys[h].origin, [msg |-> msg])
  /\ Draw
CryptoBoxSealOpenKey(h) ==
  /\ wire.kind = "sealedbox"
  /\ Emit("plain", BoxSealOpen(keys[h].key, wire.data), wire.of, wire.arg)
  /\ UNCHANGED drawn

-----------------------------------------------------------------------------
(* Key derivation and signatures *)

DeriveEs(alg, ephem, recip, apu, apv, receive) ==
  FromKeyDerivationAny(alg,
    [n \in {KeySize(a) : a \in Symmetric} |->
       EcdhEs(ephem, recip, EncAlg, apu, apv, receive, n)])
Derive1PU(alg, ephem, sender, recip, apu, apv, cc_tag, receive) ==
  FromKeyDerivationAny(alg,
    [n \in {KeySize(a) : a \in Symmetric} |->
       Ecdh1PU(ephem, sender, recip, EncAlg, apu, apv, cc_tag, receive, n)])

(* Both directions of a derivation are meant to give the same key, so they  *)
(* give it the same origin.                                                 *)
DeriveEcdhEs(alg, e, r, apu, apv, receive) ==
  /\ Create(DeriveEs(alg, keys[e].key, keys[r].key, apu, apv, receive),
            Origin(alg, <<"es", keys[e].origin, keys[r].origin, apu, apv>>))
  /\ UNCHANGED drawn
DeriveEcdh1PU(alg, e, s, r, cc_tag, receive) ==
  /\ Create(Derive1PU(alg, keys[e].key, keys[s].key, keys[r].key, <<>>, <<>>, cc_tag, receive),
            Origin(alg, <<"1pu", keys[e].origin, keys[s].origin, keys[r].origin, cc_tag>>))
  /\ UNCHANGED drawn

SignMessage(k, msg, name) ==
  LET type == IF name = NoAlg THEN Ok(NoAlg) ELSE SignatureTypeFromStr(name) IN
  IF IsOk(type) THEN WriteSignature(k, msg, type.ok) ELSE type
VerifyMessage(k, msg, sig, name) ==
  LET type == IF name = NoAlg THEN Ok(NoAlg) ELSE SignatureTypeFromStr(name) IN
  IF IsOk(type) THEN VerifySignature(k, msg, sig, type.ok) ELSE type
Sign(h, msg, name) ==
  /\ Emit("sig", SignMessage(keys[h].key, msg, name), keys[h].origin, [msg |-> msg, by |-> keys[h].key])
  /\ UNCHANGED drawn
Verify(h, msg, name) ==
  /\ wire.kind = "sig"
  /\ Emit("verdict", VerifyMessage(keys[h].key, msg, wire.data, name), wire.of, wire.arg)
  /\ UNCHANGED drawn

-----------------------------------------------------------------------------
(* Storing keys *)

(* Session::insert_key: the secret JWK, the algorithm and the thumbprints   *)
(* of the key.  The row itself is the concern of module Entries.            *)
InsertKey(h, ref) ==
  LET data == ToJwkSecret(keys[h].key, NoAlg) IN
  /\ IsOk(data)
  /\ entry' = [data |-> data.ok, alg |-> keys[h].key.alg,
               thumbs |-> ToJwkThumbprints(keys[h].key), ref |-> ref, of |-> keys[h].origin]
  /\ Count /\ UNCHANGED <<keys, wire, drawn>>

(* KeyEntry::load_local_key: a key in the secure element is looked up by    *)
(* its id, any other is read from its JWK.                                  *)
LoadLocalKey(e) ==
  IF e.data = None THEN Err("Input")
  ELSE IF e.ref = "mobile_secure_element" THEN GetAnyWithId(e.alg)
  ELSE FromJwk(e.data)
FetchKey ==
  /\ entry # NoEntry
  /\ Create(LoadLocalKey(entry), entry.of)
  /\ UNCHANGED drawn

-----------------------------------------------------------------------------

NextMake ==
  \/ \E name \in GenAlgs \union {"aes256gcm", "unknown"},
        backend \in {"software", "secure_element", "unknown"} : GenerateKey(name, backend)
  \/ \E alg \in SeedAlgs, n \in SeedLengths, method \in {NoAlg, "bls_keygen", "other"} :
       FromSeed(alg, n, method)
  \/ wire.kind = "public" /\ \E alg \in {wire.of.alg, "x25519"} : FromPublicBytes(alg)
  \/ \E alg \in ImportAlgs : FromSecretBytes(alg)
  \/ wire.kind = "jwk" /\ \E jwk \in Presented : FromJwkBytes(jwk)
  \/ \E h \in Live, alg \in Bls \union {"x25519"} : ConvertKey(h, alg)
  \/ \E h, g \in Live, alg \in GenAlgs \intersect Symmetric : KeyExchange(alg, h, g)
  \/ \E h \in Live : FreeKey(h)
NextExport ==
  \E h \in Live :
    \/ GetPublicBytes(h)
    \/ GetSecretBytes(h)
    \/ \E alg \in {NoAlg, "bls12381g1", "bls12381g2"} : GetJwkPublic(h, alg)
    \/ GetJwkSecret(h)
    \/ \E alg \in {NoAlg, "bls12381g1", "bls12381g2"} : GetJwkThumbprint(h, alg)
    \/ \E ref \in {NoAlg, "mobile_secure_element"} : InsertKey(h, ref)
NextUse ==
  \E h \in Live :
    \/ \E msg \in Messages, aad \in Aads,
          nonce \in {NoBytes, Bytes(NonceLength(keys[h].key.alg), <<"n">>)} :
         AeadEncryptMessage(h, msg, nonce, aad)
    \/ \E aad \in Aads : AeadDecryptMessage(h, aad)
    \/ \E g \in Live, nonce \in {NoBytes, Bytes(NonceLength(keys[h].key.alg), <<"n">>)} :
         WrapOtherKey(h, g, nonce)
    \/ \E alg \in ImportAlgs : UnwrapOtherKey(h, alg)
    \/ \E g \in Live, msg \in Messages : CryptoBoxKey(h, g, msg)
    \/ \E g \in Live : CryptoBoxOpenKey(h, g)
    \/ \E msg \in Messages : CryptoBoxSealKey(h, msg)
    \/ CryptoBoxSealOpenKey(h)
    \/ \E msg \in Messages, name \in SignatureTypes \union {NoAlg, "unknown"} :
         Sign(h, msg, name) \/ Verify(h, msg, name)
    \/ \E g \in Live, alg \in GenAlgs \intersect Symmetric, apu, apv \in Parties,
          receive \in BOOLEAN : DeriveEcdhEs(alg, h, g, apu, apv, receive)
    \/ \E g, i \in Live, alg \in GenAlgs \intersect Symmetric, cc_tag \in CcTags,
          receive \in BOOLEAN : DeriveEcdh1PU(alg, h, g, i, cc_tag, receive)

Next == calls < MaxCalls /\ (NextMake \/ NextExport \/ NextUse \/ FetchKey)

Spec == Init /\ [][Next]_vars

-----------------------------------------------------------------------------
(* Properties *)

PublicHalf(k) == Key(k.alg, k.pub, None)
PublicOf(alg, sec) ==
  IF alg = "bls12381g1g2" THEN <<"g1g2", <<"bls12381g1", sec>>, <<"bls12381g2", sec>>>>
  ELSE <<alg, sec>>
Halves(k) == IF k.alg = "bls12381g1g2" THEN {"bls12381g1", "bls12381g2"} ELSE {}
HeldKeys == {keys[h] : h \in Live}

(* Two keys that are the same key, one of them perhaps without its secret.  *)
SameKey(k, l) ==
  k.alg = l.alg /\ k.pub = l.pub /\ (k.sec = None \/ l.sec = None \/ k.sec = l.sec)

(* Whatever way a key came to the application (generated, made from a seed, *)
(* read from raw bytes or a JWK, converted, unwrapped, derived by either    *)
(* party, loaded from the store), its public key is that of its secret, and *)
(* two keys of one origin are the same key.  In particular a JWK whose      *)
(* private member belongs to another key is refused.                        *)
KeysConsistent ==
  \A x, y \in HeldKeys :
    /\ x.key.sec # None /\ x.key.alg \notin Symmetric => x.key.pub = PublicOf(x.key.alg, x.key.sec)
    /\ x.key.alg = x.origin.alg
    /\ x.origin = y.origin => SameKey(x.key, y.key)

(* Every form a key can be exported in reads back as the same key, or as    *)
(* its public half; a G1G2 key exported for G1 or G2 reads back as the key  *)
(* convert_key gives, and has its thumbprint; converting a public key and   *)
(* converting the key pair agree; a key and its public half have the same   *)
(* thumbprint.  A symmetric key has no public form, and its JWK, although   *)
(* exported, is not accepted again.                                         *)
FormsRoundTrip ==
  \A k \in {x.key : x \in HeldKeys} :
    /\ k.sec # None => FromSecretBytesAny(k.alg, ToSecretBytesAny(k).ok) = Ok(k)
    /\ k.alg \notin Symmetric =>
         /\ FromPublicBytesAny(k.alg, ToPublicBytesAny(k).ok) = Ok(PublicHalf(k))
         /\ FromJwk(ToJwkSecret(k, NoAlg).ok) = Ok(k)
         /\ FromJwk(ToJwkPublic(k, NoAlg).ok) = Ok(PublicHalf(k))
         /\ ToJwkThumbprint(k, NoAlg) = ToJwkThumbprint(PublicHalf(k), NoAlg)
    /\ k.alg \in Symmetric =>
         ~IsOk(ToPublicBytesAny(k)) /\ ~IsOk(ToJwkPublic(k, NoAlg))
         /\ ~IsOk(FromJwk(ToJwkSecret(k, NoAlg).ok))
    /\ \A alg \in Halves(k) :
         LET c == ConvertKeyAny(k, alg).ok IN
         /\ FromJwk(ToJwkPublic(k, alg).ok) = Ok(PublicHalf(c))
         /\ ToJwkThumbprint(k, alg) = ToJwkThumbprint(c, NoAlg)
    /\ \A alg \in Halves(k) \union (IF k.alg = "ed25519" THEN {"x25519"} ELSE {}) :
         ConvertKeyAny(PublicHalf(k), alg) = Ok(PublicHalf(ConvertKeyAny(k, alg).ok))

(* A stored asymmetric key without an external reference can be loaded, and *)
(* is then the key that was stored.  A search by the thumbprint of a held   *)
(* key finds the entry exactly when it is that key, its public half, or the *)
(* G1 or G2 half of a stored G1G2 key.  The exceptions are in the code: a   *)
(* symmetric key can be stored but not loaded, nor can a software key with  *)
(* the reference of the secure element, and the default thumbprint of a     *)
(* G1G2 key is not among the ones its entry is indexed by.                  *)
StoredKeyFindable ==
  entry # NoEntry =>
    LET k == LoadLocalKey(entry)
        found(x) == ToJwkThumbprint(x.key, NoAlg).ok \in entry.thumbs
        half(x) == /\ x.origin.alg \in {"bls12381g1", "bls12381g2"}
                   /\ entry.of = Origin("bls12381g1g2", x.origin.src) IN
    /\ IsOk(k) <=> entry.alg \notin Symmetric /\ entry.ref = NoAlg
    /\ IsOk(k) => k.ok.alg = entry.alg /\ ToJwkSecret(k.ok, NoAlg).ok = entry.data
    /\ \A x \in HeldKeys :
         /\ IsOk(k) /\ x.origin = entry.of => SameKey(k.ok, x.key)
         /\ (x.origin = entry.of /\ x.key.alg # "bls12381g1g2") \/ half(x) => found(x)
         /\ found(x) /\ IsOk(k) =>
              \/ SameKey(x.key, k.ok)
              \/ x.key.alg \in Halves(k.ok) /\ SameKey(x.key, ConvertKeyAny(k.ok, x.key.alg).ok)

(* Derivations with different party names, content tags or output lengths   *)
(* never hash the same bytes.                                               *)
KdfInputsDistinct ==
  LET calls4 == Parties \X Parties \X {t \in CcTags : t.len <= 124} \X {16, 32}
      hashed(c) == HashParams(EncAlg, c[1], c[2], PubInfo(c[4], c[3]).ok) IN
  \A c, d \in calls4 : hashed(c) = hashed(d) => c = d

(* Both parties of an ECDH-ES or ECDH-1PU derivation, each with its own     *)
(* secrets and the public halves of the other's keys, derive the same key   *)
(* or both get an error; an error means that the keys are of different      *)
(* algorithms or of one without key agreement, that more than 32 bytes are  *)
(* asked for, or that the content tag is longer than 124 bytes (the code    *)
(* checks for 128, but the buffer it then fills is four bytes too small).   *)
(* Different inputs are never confused (KdfInputsDistinct).  It is a matter *)
(* of the keys alone, so it is asked where nothing is on the wire.          *)
AgreementSymmetric ==
  /\ calls = 0 => KdfInputsDistinct
  /\ wire = Nothing =>
     \A e, r \in {x.key : x \in {y \in HeldKeys : y.key.sec # None}} :
       IF e.alg # r.alg \/ e.alg \notin EcCurve \union {"x25519"}
       THEN ~IsOk(DeriveEs("a256gcm", e, PublicHalf(r), <<>>, <<>>, FALSE))
       ELSE \A alg \in GenAlgs \intersect Symmetric :
         LET sent == DeriveEs(alg, e, PublicHalf(r), <<>>, <<>>, FALSE) IN
         /\ IsOk(sent) <=> KeySize(alg) <= 32
         /\ sent = DeriveEs(alg, PublicHalf(e), r, <<>>, <<>>, TRUE)
         /\ \A s \in {x.key : x \in HeldKeys}, tag \in CcTags : s.sec # None =>
              LET sent1 == Derive1PU(alg, e, s, PublicHalf(r), <<>>, <<>>, tag, FALSE)
                  recv1 == Derive1PU(alg, PublicHalf(e), PublicHalf(s), r, <<>>, <<>>, tag, TRUE) IN
              /\ IsOk(sent1) <=> s.alg = e.alg /\ KeySize(alg) <= 32 /\ tag.len <= 124
              /\ IF IsOk(sent1) THEN sent1 = recv1 ELSE ~IsOk(recv1)

(* The rounds of the key wrap and of the unwrap undo each other, for data   *)
(* of any number of chunks: the passes and the chunks of a pass are taken   *)
(* in the opposite order with the same counters.                            *)
KeyWrapInverts ==
  \A key \in 0..2, n \in 0..3 :
    \A data \in [1..n -> {0, 1, Chunk - 1}] : KwUnwrap(key, KwWrap(key, data)) = Ok(data)

(* What a key encrypted, wrapped or boxed opens again from the parts the    *)
(* caller was given (ciphertext, tag, nonce), to exactly what went in, and  *)
(* opens with no other key and under no other associated data; the          *)
(* ciphertext has the length the padding function announces.  Key wrap is   *)
(* the exception twice: it returns no separate tag, and an empty message    *)
(* wraps to the same bytes under every key.  Its rounds are asked about     *)
(* once, in the initial state (KeyWrapInverts).                             *)
SealedOpens ==
  /\ calls = 0 => KeyWrapInverts
  /\ wire.kind = "sealed" =>
       LET enc == wire.data
           by  == wire.arg.by
           kw  == by.alg \in AesKw IN
       /\ BufLen(CiphertextOf(enc)) =
            wire.arg.msg.len + AeadPadding(by.alg, wire.arg.msg.len) + (IF kw THEN 8 ELSE 0)
       /\ BufLen(TagOf(enc)) = (IF kw THEN 0 ELSE TagLength(by.alg))
       /\ BufLen(NonceOf(enc)) = NonceLength(by.alg)
       /\ \A x \in HeldKeys, aad \in Aads :
            LET r == AeadDecrypt(x.key, enc, aad) IN
            /\ x.origin = wire.of /\ aad = wire.arg.aad => r = Ok(wire.arg.msg)
            /\ x.key # by \/ aad # wire.arg.aad =>
                 ~IsOk(r) \/ (kw /\ x.key.alg \in AesKw /\ r = Ok(NoBytes))
  /\ wire.kind = "wrapped" =>
       \A x \in HeldKeys :
         LET r == UnwrapKey(x.key, wire.of.alg, wire.data) IN
         IF x.key = wire.arg.by THEN r = Ok(wire.arg.key) ELSE ~IsOk(r)
  /\ wire.kind = "box" =>
       \A x, y \in HeldKeys :
         LET r == BoxOpen(x.key, y.key, wire.data, wire.arg.nonce) IN
         IF {x.origin, y.origin} = wire.of /\ x.key.sec # None THEN r = Ok(wire.arg.msg)
         ELSE IsOk(r) => {x.key.pub, y.key.pub} = wire.arg.pubs
  /\ wire.kind = "sealedbox" =>
       \A x \in HeldKeys :
         LET r == BoxSealOpen(x.key, wire.data) IN
         IF x.origin = wire.of /\ x.key.sec # None THEN r = Ok(wire.arg.msg) ELSE ~IsOk(r)

(* A signature is accepted by every key of the signer's origin, with or     *)
(* without the secret, for the signed message and no other, and by no other *)
(* key.                                                                     *)
SignaturesVerify ==
  wire.kind = "sig" =>
    \A x \in HeldKeys, msg \in Messages :
      LET r == VerifyMessage(x.key, msg, wire.data, NoAlg) IN
      /\ x.origin = wire.of => r = Ok(msg = wire.arg.msg)
      /\ IsOk(r) /\ r.ok => SameKey(x.key, wire.arg.by)

=============================================================================

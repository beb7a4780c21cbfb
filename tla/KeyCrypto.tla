----------------------------- MODULE KeyCrypto -----------------------------
(***************************************************************************)
(* What keys are used for: authenticated encryption (AES-GCM, AES-CBC with *)
(* HMAC, ChaCha20-Poly1305), AES key wrap, crypto_box and sealed boxes,    *)
(* ECDH-ES and ECDH-1PU key derivation, signatures.                        *)
(*                                                                         *)
(* The primitives are ideal: a ciphertext is a term over the key, nonce,   *)
(* associated data and message it was made from.  What the code does       *)
(* around them is kept: the length checks and their errors, where tag,     *)
(* nonce and ephemeral key lie in the output and where they are looked     *)
(* for, the padding, the order of the bytes that are hashed.               *)
(*                                                                         *)
(* A buffer is the sequence of its pieces, none of them empty.             *)
(***************************************************************************)
EXTENDS AnyKeys

Buffer(pieces) == SelectSeq(pieces, LAMBDA p : p.len > 0)
EndOf(buf) ==
  LET end[i \in 0..Len(buf)] == IF i = 0 THEN 0 ELSE end[i - 1] + buf[i].len IN end
BufLen(buf) == EndOf(buf)[Len(buf)]

(* buf[from..to].  A cut through a piece leaves bytes nothing was made of.  *)
Cut(buf, from, to) ==
  LET end == EndOf(buf) IN
  IF \E i, j \in DOMAIN end : i <= j /\ end[i] = from /\ end[j] = to
  THEN LET i == CHOOSE n \in DOMAIN end : end[n] = from
           j == CHOOSE n \in DOMAIN end : end[n] = to IN SubSeq(buf, i + 1, j)
  ELSE <<Bytes(to - from, <<"cut", buf, from, to>>)>>

-----------------------------------------------------------------------------
(* Authenticated encryption *)

NonceLength(alg) ==
  CASE alg \in AesGcm \union {"c20p"} -> 12
    [] alg = "xc20p" -> 24
    [] alg \in AesCbc -> 16
    [] OTHER -> 0
TagLength(alg) ==
  CASE alg = "a256cbchs512" -> 32
    [] alg \in AesKw -> 8
    [] alg \in Symmetric -> 16
    [] OTHER -> 0
CbcPadding(len) == 16 - (len % 16)
AeadPadding(alg, len) == IF alg \in AesCbc THEN CbcPadding(len) ELSE 0

(* The two pieces made from a message, and a decryption: the tag is read    *)
(* off the end of the buffer.                                               *)
Sealing(k, nonce, aad, msg) == <<k.alg, k.sec, nonce, aad, msg>>
SealedWith(k, nonce, aad, msg, pad) ==
  LET s == Sealing(k, nonce, aad, msg) IN
  Buffer(<<Bytes(msg.len + pad, <<"ctext", s>>), Bytes(TagLength(k.alg), <<"tag", s>>)>>)
OpenWith(k, nonce, aad, buf) ==
  LET end == BufLen(buf) - TagLength(k.alg)
      tag == Cut(buf, end, BufLen(buf)) IN
  IF Len(tag) # 1 \/ tag[1].val[1] # "tag" THEN Err("Encryption")
  ELSE LET msg == tag[1].val[2][5]
           s   == Sealing(k, nonce, aad, msg)
           pad == AeadPadding(k.alg, msg.len) IN
       IF tag[1].val[2] = s /\ Cut(buf, 0, end) = Buffer(<<Bytes(msg.len + pad, <<"ctext", s>>)>>)
       THEN Ok(msg) ELSE Err("Encryption")

AesGcmEncrypt(k, msg, nonce, aad) ==
  IF nonce.len # NonceLength(k.alg) THEN Err("InvalidNonce")
  ELSE Ok([buf |-> SealedWith(k, nonce, aad, msg, 0), tag_pos |-> msg.len])
AesGcmDecrypt(k, buf, nonce, aad) ==
  IF nonce.len # NonceLength(k.alg) THEN Err("InvalidNonce")
  ELSE IF BufLen(buf) < TagLength(k.alg) THEN Err("Encryption")
  ELSE OpenWith(k, nonce, aad, buf)

CbcHmacEncrypt(k, msg, nonce, aad) ==
  LET pad == CbcPadding(msg.len) IN
  IF nonce.len # NonceLength(k.alg) THEN Err("InvalidNonce")
  ELSE Ok([buf |-> SealedWith(k, nonce, aad, msg, pad), tag_pos |-> msg.len + pad])
CbcHmacDecrypt(k, buf, nonce, aad) ==
  IF nonce.len # NonceLength(k.alg) THEN Err("InvalidNonce")
  ELSE IF BufLen(buf) < TagLength(k.alg) THEN Err("Encryption")
  ELSE OpenWith(k, nonce, aad, buf)

Chacha20Encrypt(k, msg, nonce, aad) ==
  IF nonce.len # NonceLength(k.alg) THEN Err("InvalidNonce")
  ELSE Ok([buf |-> SealedWith(k, nonce, aad, msg, 0), tag_pos |-> msg.len])
Chacha20Decrypt(k, buf, nonce, aad) ==
  IF nonce.len # NonceLength(k.alg) THEN Err("InvalidNonce")
  ELSE IF BufLen(buf) < TagLength(k.alg) THEN Err("Invalid")
  ELSE OpenWith(k, nonce, aad, buf)

-----------------------------------------------------------------------------
(* AES key wrap.  The wrapped bytes carry their check in front and are      *)
(* returned as ciphertext throughout: tag_pos is the length of the output.  *)
(* With no data there is no round, and the output is the initial value      *)
(* whatever the key.                                                        *)

KwTerm(k, msg) == IF msg.len = 0 THEN <<"kw">> ELSE <<"kw", k.alg, k.sec, msg>>
KeyWrapEncrypt(k, msg, nonce, aad) ==
  IF nonce.len > 0 \/ aad.len > 0 \/ msg.len % 8 # 0 THEN Err("Unsupported")
  ELSE Ok([buf |-> <<Bytes(8 + msg.len, KwTerm(k, msg))>>, tag_pos |-> 8 + msg.len])
KeyWrapDecrypt(k, buf, nonce, aad) ==
  IF nonce.len > 0 \/ aad.len > 0 THEN Err("Unsupported")
  ELSE IF BufLen(buf) % 8 # 0 \/ BufLen(buf) < 8 THEN Err("Encryption")
  ELSE IF buf[1].val = <<"kw">> THEN Ok(Bytes(0, None))
  ELSE IF buf[1].val[1] = "kw" /\ buf = <<Bytes(BufLen(buf), KwTerm(k, buf[1].val[4]))>>
  THEN Ok(buf[1].val[4]) ELSE Err("Encryption")

(* The rounds themselves, over chunks of ChunkBits bits instead of 64 and   *)
(* any invertible block cipher on two chunks; here multiplication by an odd *)
(* number.  Counter t runs over all chunks of all six passes.               *)
ChunkBits == 6
Chunk == 2^ChunkBits
Block(a, c) == a * Chunk + c
EncryptBlock(key, b) == (b * 5 + 17 * key + 3) % (Chunk * Chunk)
DecryptBlock(key, b) == ((b + Chunk * Chunk * 17 - 17 * key - 3) * 3277) % (Chunk * Chunk)
DefaultIv == 38

BitAt(n, i) == (n \div 2^i) % 2
XorChunk ==
  [a, b \in 0..(Chunk - 1) |->
     LET bits[i \in 0..ChunkBits] ==
           IF i = 0 THEN 0
           ELSE bits[i - 1] + 2^(i - 1) * ((BitAt(a, i - 1) + BitAt(b, i - 1)) % 2)
     IN bits[ChunkBits]]

(* The steps of the six passes: pass j, chunk i (counted from 0).           *)
Steps(n) == [s \in 1..(6 * n) |-> <<(s - 1) \div n, (s - 1) % n>>]
KwCounter(n, step) == n * step[1] + step[2] + 1
WrapStep(key, n, s, step) ==
  LET b == EncryptBlock(key, Block(s.iv, s.chunks[step[2] + 1])) IN
  [iv |-> XorChunk[b \div Chunk, KwCounter(n, step) % Chunk],
   chunks |-> [s.chunks EXCEPT ![step[2] + 1] = b % Chunk]]
UnwrapStep(key, n, s, step) ==
  LET b == DecryptBlock(key, Block(XorChunk[s.iv, KwCounter(n, step) % Chunk],
                                   s.chunks[step[2] + 1])) IN
  [iv |-> b \div Chunk, chunks |-> [s.chunks EXCEPT ![step[2] + 1] = b % Chunk]]

(* The states of the buffer, from the first step to the last.               *)
WrapStates(key, data) ==
  FoldLeft(LAMBDA trace, step : Append(trace, WrapStep(key, Len(data), Last(trace), step)),
           <<[iv |-> DefaultIv, chunks |-> data]>>, Steps(Len(data)))
KwWrap(key, data) == Last(WrapStates(key, data))
KwUnwrap(key, w) ==
  LET n == Len(w.chunks)
      last == Last(FoldLeft(LAMBDA trace, step : Append(trace, UnwrapStep(key, n, Last(trace), step)),
                            <<w>>, Reverse(Steps(n))))
  IN IF last.iv = DefaultIv THEN Ok(last.chunks) ELSE Err("Encryption")

-----------------------------------------------------------------------------
(* alg/any.rs: AEAD of a key of any type *)

EncryptInPlace(k, msg, nonce, aad) ==
  LET r == KeyAsAead(k) IN
  CASE ~IsOk(r) -> r
    [] k.alg \in AesGcm -> AesGcmEncrypt(k, msg, nonce, aad)
    [] k.alg \in AesCbc -> CbcHmacEncrypt(k, msg, nonce, aad)
    [] k.alg \in AesKw  -> KeyWrapEncrypt(k, msg, nonce, aad)
    [] k.alg \in Chacha -> Chacha20Encrypt(k, msg, nonce, aad)
DecryptInPlace(k, buf, nonce, aad) ==
  LET r == KeyAsAead(k) IN
  CASE ~IsOk(r) -> r
    [] k.alg \in AesGcm -> AesGcmDecrypt(k, buf, nonce, aad)
    [] k.alg \in AesCbc -> CbcHmacDecrypt(k, buf, nonce, aad)
    [] k.alg \in AesKw  -> KeyWrapDecrypt(k, buf, nonce, aad)
    [] k.alg \in Chacha -> Chacha20Decrypt(k, buf, nonce, aad)

-----------------------------------------------------------------------------
(* crypto_box: the tag comes first.  A sealed box is preceded by the public *)
(* key of an ephemeral key pair, and its nonce is a hash of both publics.   *)

CastX25519(k) == IF k.alg = "x25519" THEN Ok(k) ELSE Err("Input")
SecretKeyFrom(k) == IF k.sec = None THEN Err("MissingSecretKey") ELSE Ok(k)
CboxNonceLength == 24
CboxKeyLength == 32
CboxTagLength == 16
BoxTerm(k, other, nonce, msg) == <<"box", {k.pub, other.pub}, nonce, msg>>

CryptoBox(recip, sender, msg, nonce) ==
  LET t == BoxTerm(recip, sender, nonce, msg) IN
  IF ~IsOk(SecretKeyFrom(sender)) THEN SecretKeyFrom(sender)
  ELSE IF nonce.len # CboxNonceLength THEN Err("InvalidNonce")
  ELSE Ok(Buffer(<<Bytes(CboxTagLength, <<"tag", t>>), Bytes(msg.len, <<"ctext", t>>)>>))
CryptoBoxOpen(recip, sender, buf, nonce) ==
  LET tag == Cut(buf, 0, CboxTagLength) IN
  CASE ~IsOk(SecretKeyFrom(recip)) -> SecretKeyFrom(recip)
    [] nonce.len # CboxNonceLength -> Err("InvalidNonce")
    [] BufLen(buf) < CboxTagLength -> Err("Encryption")
    [] Len(tag) # 1 \/ tag[1].val[1] # "tag" -> Err("Encryption")
    [] OTHER ->
         LET t == tag[1].val[2] IN
         IF t = BoxTerm(recip, sender, nonce, t[4])
            /\ Cut(buf, CboxTagLength, BufLen(buf)) = Buffer(<<Bytes(t[4].len, <<"ctext", t>>)>>)
         THEN Ok(t[4]) ELSE Err("Encryption")

SealNonce(ephem, recip) == Bytes(CboxNonceLength, <<"blake2b", ephem.pub, recip.pub>>)
CryptoBoxSeal(recip, msg, src) ==
  LET ephem == X25519Generate(src)
      box   == CryptoBox(recip, ephem, msg, SealNonce(ephem, recip)) IN
  IF IsOk(box) THEN Ok(<<Bytes(CboxKeyLength, ephem.pub)>> \o box.ok) ELSE box
CryptoBoxSealOpen(recip, buf) ==
  IF BufLen(buf) < CboxKeyLength + CboxTagLength THEN Err("Encryption")
  ELSE LET ephem == X25519FromPublic(Cut(buf, 0, CboxKeyLength)[1]).ok IN
       CryptoBoxOpen(recip, ephem, Cut(buf, CboxKeyLength, BufLen(buf)),
                     SealNonce(ephem, recip))

-----------------------------------------------------------------------------
(* Key derivation: one pass of ConcatKDF.  The bytes hashed are a flat      *)
(* sequence, as the hash sees them, so that two calls derive the same key   *)
(* when their inputs run together to the same bytes.  A party name is a     *)
(* sequence of bytes <<"b", n>>; the tag of the content is one item.        *)

Be32(n) == <<<<"u32", n>>>>
(* Mutant: the party names are not preceded by their lengths. *)
HashParamsUnprefixed(alg, apu, apv, pub_info) ==
  Be32(Len(alg)) \o alg \o apu \o apv \o pub_info
HashParams(alg, apu, apv, pub_info) ==
  Be32(Len(alg)) \o alg \o Be32(Len(apu)) \o apu \o Be32(Len(apv)) \o apv \o pub_info
ConcatPass(z, params) == <<"sha256", Be32(1) \o z \o params>>

EcdhEs(ephem, recip, alg, apu, apv, receive, n) ==
  LET z == IF receive THEN WriteKeyExchangeAny(recip, ephem)
                      ELSE WriteKeyExchangeAny(ephem, recip) IN
  IF n > 32 THEN Err("Unsupported")
  ELSE IF ~IsOk(z) THEN z
  ELSE Ok(<<"kdf", n, ConcatPass(<<z.ok.val>>, HashParams(alg, apu, apv, Be32(n * 8)))>>)

(* The tag of the content, length first, follows the output length in a     *)
(* buffer of 132 bytes.                                                     *)
PubInfoLength == 132
PubInfo(n, cc_tag) ==
  IF cc_tag.len = 0 THEN Ok(Be32(n * 8))
  ELSE IF 8 + cc_tag.len > PubInfoLength THEN Err("ExceededBuffer")
  ELSE Ok(Be32(n * 8) \o Be32(cc_tag.len) \o <<<<"cc", cc_tag.val>>>>)
Ecdh1PU(ephem, sender, recip, alg, apu, apv, cc_tag, receive, n) ==
  LET ze == IF receive THEN WriteKeyExchangeAny(recip, ephem)
                       ELSE WriteKeyExchangeAny(ephem, recip)
      zs == IF receive THEN WriteKeyExchangeAny(recip, sender)
                       ELSE WriteKeyExchangeAny(sender, recip)
      info == PubInfo(n, cc_tag) IN
  CASE n > 32 \/ cc_tag.len > 128 -> Err("Unsupported")
    [] ~IsOk(ze) -> ze
    [] ~IsOk(zs) -> zs
    [] ~IsOk(info) -> info
    [] OTHER -> Ok(<<"kdf", n, ConcatPass(<<ze.ok.val, zs.ok.val>>,
                                          HashParams(alg, apu, apv, info.ok))>>)

-----------------------------------------------------------------------------
(* Signatures.  Every signing key has one signature type, the default.      *)

SignatureTypes == {"eddsa", "es256", "es256k", "es384"}
SignatureLength(type) == IF type = "es384" THEN 96 ELSE 64
SignatureTypeFromStr(name) ==
  IF name \in SignatureTypes THEN Ok(name) ELSE Err("Unsupported")
EcSignatureType(alg) ==
  CASE alg = "k256" -> "es256k" [] alg = "p256" -> "es256" [] alg = "p384" -> "es384"

Ed25519Sign(k, msg, type) ==
  IF type \notin {NoAlg, "eddsa"} THEN Err("Unsupported")
  ELSE IF k.sec = None THEN Err("MissingSecretKey")
  ELSE Ok(Bytes(SignatureLength("eddsa"), <<"sig", k.pub, msg>>))
EcSign(k, msg, type) ==
  IF type \notin {NoAlg, EcSignatureType(k.alg)} THEN Err("Unsupported")
  ELSE IF k.sec = None THEN Err("Unsupported")
  ELSE Ok(Bytes(SignatureLength(EcSignatureType(k.alg)), <<"sig", k.pub, msg>>))
Ed25519Verify(k, msg, sig, type) ==
  IF type \notin {NoAlg, "eddsa"} THEN Err("Unsupported")
  ELSE Ok(sig = Bytes(SignatureLength("eddsa"), <<"sig", k.pub, msg>>))
(* Mutant: verifies with a key pair only. *)
EcVerifyWithSecret(k, msg, sig, type) ==
  IF type \notin {NoAlg, EcSignatureType(k.alg)} \/ k.sec = None THEN Err("Unsupported")
  ELSE Ok(sig = Bytes(SignatureLength(EcSignatureType(k.alg)), <<"sig", k.pub, msg>>))
EcVerify(k, msg, sig, type) ==
  IF type \notin {NoAlg, EcSignatureType(k.alg)} THEN Err("Unsupported")
  ELSE Ok(sig = Bytes(SignatureLength(EcSignatureType(k.alg)), <<"sig", k.pub, msg>>))

(* alg/any.rs: the signing operations of a key of any type.                 *)
WriteSignature(k, msg, type) ==
  IF ~IsOk(KeyAsSigner(k)) THEN KeyAsSigner(k)
  ELSE IF k.alg = "ed25519" THEN Ed25519Sign(k, msg, type) ELSE EcSign(k, msg, type)
VerifySignature(k, msg, sig, type) ==
  IF ~IsOk(KeyAsSigner(k)) THEN KeyAsSigner(k)
  ELSE IF k.alg = "ed25519" THEN Ed25519Verify(k, msg, sig, type)
  ELSE EcVerify(k, msg, sig, type)

=============================================================================

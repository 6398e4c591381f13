--------------------------- MODULE CryptoLibrary ---------------------------
(***************************************************************************)
(* CryptoLibrary and the wrappers of OpenSSL below it: envelope encryption *)
(* of message bodies, signatures, and blind RSA signatures.  Sizes, offsets*)
(* and the arithmetic of blinding are the code's; the primitives stand for *)
(* OpenSSL: a cipher that shifts bytes by its key, a digest that adds them *)
(* up, RSA with a small modulus.                                           *)
(***************************************************************************)
EXTENDS Messages

CONSTANTS
  EncryptedKeySize, IVSize, BlockSize,   \* 256, 16 and 16 in the code
  N, E, D                                \* the server's RSA key

ASSUME SizesAssumption ==
  /\ EncryptedKeySize >= 2 /\ IVSize >= 1 /\ BlockSize \in 1 .. 255
\* As _rsa_parameters_check demands of E; N is small enough for one byte.
ASSUME KeyAssumption == E \in {3, 65537} /\ N \in 4 .. 256

Failed == Null   \* what stands for an exception

digest(bytes) ==
  LET d[i \in 0 .. Len(bytes)] == IF i = 0 THEN 0 ELSE (3 * d[i - 1] + bytes[i] + 1) % 65521
  IN d[Len(bytes)]

-----------------------------------------------------------------------------
(* EnvelopeEncryptor and EnvelopeDecryptor: the session key sealed for a    *)
(* meter, the initialization vector, and blocks of cipher text.             *)

sealed_key(session, meter) ==
  [k \in 1 .. EncryptedKeySize |-> (session + k * (meter + 1)) % 256]
opened_key(bytes, meter) == (bytes[1] - meter - 1) % 256

\* The cipher pads its input to whole blocks; full blocks get one more.
padded(bytes) ==
  LET missing == BlockSize - (Len(bytes) % BlockSize)
  IN bytes \o [k \in 1 .. missing |-> missing]
shifted(bytes, by) == [k \in DOMAIN bytes |-> (bytes[k] + by) % 256]

compute_output_buffer_size_up(size) ==    \* a mutated form
  ((size + BlockSize - 1) \div BlockSize) * BlockSize

compute_output_buffer_size(size) == (size \div BlockSize) * BlockSize + BlockSize

\* make_encrypted_message; the assertion at its end is WritesItsSize's affair.
encrypted(bytes, meter, session) ==
  LET iv == [k \in 1 .. IVSize |-> (7 * session + k) % 256]
  IN sealed_key(session, meter) \o iv \o shifted(padded(bytes), session + iv[1])

encrypted_size(size) ==
  EncryptedKeySize + IVSize + compute_output_buffer_size(size)

\* init, decrypt_bytes and finalize with a meter's private key.
decrypted(bytes, meter) ==
  LET session == opened_key(bytes, meter)
      iv      == bytes[EncryptedKeySize + 1]
      plain   == shifted(after(bytes, EncryptedKeySize + IVSize), 512 - session - iv)
  IN IF SubSeq(bytes, 1, EncryptedKeySize) = sealed_key(session, meter)
     THEN SubSeq(plain, 1, Len(plain) - plain[Len(plain)])
     ELSE Failed

-----------------------------------------------------------------------------
(* OverlayMessages and PathOverlayMessages: their last members are          *)
(* destination, is_encrypted, flood and enclosed_body.                      *)

destination(message) == message[Len(message) - 3]
is_encrypted(message) == message[Len(message) - 2] = 1
enclosed_body(message) == message[Len(message)]

with_body(message, encryption, body) ==
  [message EXCEPT ![Len(message) - 2] = encryption, ![Len(message)] = body]

\* The body is written to a buffer of bytes_size bytes, which is what is
\* encrypted, be it more or less than what was written.
rsa_encrypt(message, meter, session) ==
  IF enclosed_body(message) = Null THEN with_body(message, 1, Null)
  ELSE LET body  == enclosed_body(message)[1]
           bytes == SubSeq(to_bytes(MessageBody, body), 1, bytes_size(MessageBody, body))
       IN with_body(message, 1, <<<<BYTES, encrypted(bytes, meter, session)>>>>)

\* Failed when the body was not encrypted for this meter.
rsa_decrypt(message, meter) ==
  IF enclosed_body(message) = Null THEN with_body(message, 0, Null)
  ELSE LET bytes == decrypted(enclosed_body(message)[1][2], meter)
       IN IF bytes = Failed THEN Failed
          ELSE with_body(message, 0, <<from_bytes(MessageBody, bytes)>>)

\* Mutated forms: every layer for the proxy; the layers in the wrong order.
build_onion_for_proxy(path, payload, query_num, session) ==
  LET onion[i \in 1 .. Len(path)] ==
        rsa_encrypt(<<OVERLAY, query_num, path[i], 0, 0,
                      <<IF i = Len(path) THEN payload ELSE onion[i + 1]>>>>,
                    path[Len(path)], session)
  IN onion[1]
build_onion_backwards(path, payload, query_num, session) ==
  LET onion[i \in 1 .. Len(path)] ==
        rsa_encrypt(<<OVERLAY, query_num, path[i], 0, 0,
                      <<IF i = 1 THEN payload ELSE onion[i - 1]>>>>, path[i], session)
  IN onion[Len(path)]

\* One layer for each hop of the path, the last one around the payload.
build_encrypted_onion(path, payload, query_num, session) ==
  LET layer(body, hop) ==
        rsa_encrypt(<<OVERLAY, query_num, hop, 0, 0, <<body>>>>, hop, session)
      onion[i \in 1 .. Len(path)] ==
        layer(IF i = Len(path) THEN payload ELSE onion[i + 1], path[i])
  IN onion[1]

-----------------------------------------------------------------------------
(* Signer and Verifier                                                      *)

rsa_sign(bytes, signer) ==
  [k \in 1 .. RSA_SIGNATURE_SIZE |-> (digest(bytes) * k + signer) % 256]
rsa_verify(bytes, signature, signer) == signature = rsa_sign(bytes, signer)

-----------------------------------------------------------------------------
(* Blind signatures (blind_rsa.c).  A number is RSA_SIGNATURE_SIZE bytes,   *)
(* the highest first; the encoding of a message holds its digest and a salt.*)

RECURSIVE pow(_, _)
pow(b, n) ==
  IF n = 0 THEN 1
  ELSE ((IF n % 2 = 0 THEN 1 ELSE b) * pow((b * b) % N, n \div 2)) % N

inverses(x) == {y \in 1 .. N - 1 : (x * y) % N = 1}

number(bytes) == bytes[Len(bytes)]
number_bytes(x) == [k \in 1 .. RSA_SIGNATURE_SIZE |-> IF k = RSA_SIGNATURE_SIZE THEN x ELSE 0]

pss_digest(bytes) == digest(bytes) % (N \div 2)
pss_encoded(bytes, salt) == 2 * pss_digest(bytes) + salt

\* The random numbers _blind accepts as secret_inv.
blind_factors == {r \in 2 .. N - 1 : inverses(r) # {}}

brsa_blind_without_inverse(bytes, salt, r) ==    \* a mutated form
  [blind_message |-> number_bytes((pss_encoded(bytes, salt) * pow(r, E)) % N),
   secret |-> r]

\* make_blind_message: what is sent, and the secret that is kept.
brsa_blind(bytes, salt, r) ==
  [blind_message |-> number_bytes((pss_encoded(bytes, salt) * pow(r, E)) % N),
   secret |-> CHOOSE y \in inverses(r) : TRUE]

\* A message not below the modulus, or not as long, is refused.
canonical(bytes) ==
  /\ Len(bytes) = RSA_SIGNATURE_SIZE
  /\ number(bytes) < N
  /\ \A k \in 1 .. RSA_SIGNATURE_SIZE - 1 : bytes[k] = 0

brsa_blind_sign(blind_message) ==
  IF canonical(blind_message) THEN number_bytes(pow(number(blind_message), D)) ELSE Failed

brsa_verify(signature, bytes) ==
  /\ Len(signature) = RSA_SIGNATURE_SIZE
  /\ pow(number(signature), E) \div 2 = pss_digest(bytes)

\* unblind_signature: Failed unless the result verifies.
brsa_finalize(blind_sig, secret, bytes) ==
  LET z == number_bytes((number(blind_sig) * secret) % N)
  IN IF Len(blind_sig) = RSA_SIGNATURE_SIZE /\ brsa_verify(z, bytes) THEN z ELSE Failed
=============================================================================

------------------------------- MODULE Cipher -------------------------------
(***************************************************************************)
(* crypto/cipher.go with ideal primitives.  SHA-256 is free of collisions, *)
(* so a derived key is the list of what was hashed into it; ChaCha20-      *)
(* Poly1305 is ideal, so a sealed payload opens under the key, nonce and   *)
(* associated data it was sealed with and under nothing else.              *)
(*                                                                         *)
(* A frame is its MsgType (which stands for the Version byte too: both are *)
(* header bytes that the associated data covers), the set of its flags and *)
(* its payload; of a plain payload only the length matters here.           *)
(***************************************************************************)
EXTENDS Integers, Sequences

CONSTANTS
  TagSize,      \* bytes that Seal adds to a payload (16)
  PayloadLen    \* the length of each plain payload

FlagEncrypted == "encrypted"

NewFrame(msgType, payload) ==
  [msgType |-> msgType, flags |-> {}, payload |-> payload]

IsEncrypted(f) == FlagEncrypted \in f.flags

\* A key fresh from the handshake, secret naming which of the two it is.
SessionKey(secret) == [secret |-> secret, chain |-> << >>]

RekeyMaterial(key, sessionID, direction) ==
  [key EXCEPT !.chain = Append(key.chain, <<sessionID, direction>>)]

\* The code keeps only four bytes of the digest that stands before sequence
\* in the nonce; no property below relies on more than the sequence.
DeriveNonce(sessionID, key, direction, sequence) ==
  [sessionID |-> sessionID, key |-> key, direction |-> direction, sequence |-> sequence]

\* Seeded fault: the header is left out of the associated data.
AADWithoutHeader(f, epoch, sequence) ==
  [msgType |-> 0, flags |-> {FlagEncrypted}, epoch |-> epoch, sequence |-> sequence]

BuildAAD(f, epoch, sequence) ==
  [msgType  |-> f.msgType,
   flags    |-> f.flags \cup {FlagEncrypted},
   epoch    |-> epoch,
   sequence |-> sequence]

Seal(key, nonce, payload, aad) ==
  [key |-> key, nonce |-> nonce, plain |-> payload, aad |-> aad]

SealedLen(sealed) == PayloadLen[sealed.plain] + TagSize

EncryptFrame(f, key, nonce, aad) ==
  [msgType |-> f.msgType,
   flags   |-> f.flags \cup {FlagEncrypted},
   payload |-> Seal(key, nonce, f.payload, aad)]

\* DecryptFrame succeeds.
Opens(f, key, nonce, aad) ==
  /\ IsEncrypted(f)
  /\ f.payload.key = key
  /\ f.payload.nonce = nonce
  /\ f.payload.aad = aad
=============================================================================

----------------------------- MODULE MqttCipher -----------------------------
(***************************************************************************)
(* mqtt-python/aes_cipher.py: how a line of the watched file is padded and *)
(* encrypted by mqtt-pub.py, and read by mqtt-sub.py with the same session *)
(* key or another.  The message is what DecodePayload has split off behind *)
(* the ID and the separator.  Nothing tells the reader that a key is wrong. *)
(***************************************************************************)
EXTENDS Integers, Sequences

CONSTANTS
  bs,           \* the bs of a cipher: AES.block_size
  MaxByte,      \* 255
  Keys,         \* session keys as s_client and s_server print them
  MaxLength,    \* bound: length of a line
  None          \* "not yet"

ASSUME CipherAssumption ==
  /\ MaxByte \in Nat /\ bs \in 1 .. MaxByte
  /\ \A k \in Keys : Len(k) >= bs
  /\ MaxLength \in Nat

Byte == 0 .. MaxByte
TextsOf(n) == [1 .. n -> Byte]

VARIABLES
  raw,          \* the line
  sender,       \* the session key of the publisher
  reader,       \* the session key the reader has
  sent,         \* the ciphertext
  text          \* what decrypt returned

lineVars == <<raw, sender, reader, sent, text>>

LineTypeOK ==
  /\ raw \in UNION {TextsOf(n) : n \in 0 .. MaxLength}
  /\ sender \in Keys /\ reader \in Keys
  /\ sent # None =>
       sent.blocks \in TextsOf(Len(sent.blocks)) /\ Len(sent.blocks) % bs = 0
  /\ text # None => text \in TextsOf(Len(text))

LineInit ==
  /\ raw \in UNION {TextsOf(n) : n \in 0 .. MaxLength}
  /\ sender \in Keys /\ reader \in Keys
  /\ sent = None /\ text = None

-----------------------------------------------------------------------------
\* The first bs digits; session keys are long enough not to be padded.
key(session) == SubSeq(session, 1, bs)

\* Mutant of _pad: one byte is missing.
_padOneShort(s) ==
  LET n == bs - (Len(s) % bs) - 1
  IN  s \o [k \in 1 .. n |-> n]

\* At least one byte is added, and each says how many there are.
_pad(s) ==
  LET n == bs - (Len(s) % bs)
  IN  s \o [k \in 1 .. n |-> n]

\* Mutant of _unpad: every last byte of the same value is taken for padding.
_unpadStrip(s) ==
  LET n == s[Len(s)]
      m == CHOOSE m \in 0 .. Len(s) :
             /\ \A k \in (m + 1) .. Len(s) : s[k] = n
             /\ m = 0 \/ s[m] # n
  IN  SubSeq(s, 1, m)

\* s[:-n] with n the last byte, which is nothing for n = 0.
_unpad(s) ==
  LET n == s[Len(s)]
  IN  IF n \in 1 .. Len(s) THEN SubSeq(s, 1, Len(s) - n) ELSE <<>>

\* AES in ECB mode, block by block: another key gives other blocks.
AES_encrypt(k, s) == [key |-> k, blocks |-> s]
AES_decrypt(k, c) == IF k = c.key THEN {c.blocks} ELSE TextsOf(Len(c.blocks))

encrypt ==
  /\ sent = None
  /\ sent' = AES_encrypt(key(sender), _pad(raw))
  /\ UNCHANGED <<raw, sender, reader, text>>

decrypt ==
  /\ sent # None /\ text = None
  /\ \E s \in AES_decrypt(key(reader), sent) : text' = _unpad(s)
  /\ UNCHANGED <<raw, sender, reader, sent>>

LineNext == encrypt \/ decrypt

LineSpec == LineInit /\ [][LineNext]_lineVars

-----------------------------------------------------------------------------
\* A subscriber with the publisher's key gets the line back, whatever its length
\* and whatever bytes it ends with.  "The publisher's key" means its first bs
\* digits, the other half of what the handshake made is not used.
LineRestored == key(reader) = key(sender) => text \in {None, raw}
=============================================================================

---------------------------- MODULE ImageCipher ----------------------------
(***************************************************************************)
(* image-encryption/aes.py: encrypt turns a picture file into a file of    *)
(* size, IV and ciphertext, decrypt turns that into a picture again.  A    *)
(* third program saves the picture, and may do so while encrypt reads it;  *)
(* the process may be killed in the middle of either call.                 *)
(*                                                                         *)
(* Bytes are named by what they are: byte n of the v-th saving of the      *)
(* picture, a padding space, NUL, a digit of the size, a byte of the IV,   *)
(* or the cipher byte of a plain byte.                                     *)
(***************************************************************************)
EXTENDS Naturals, Sequences

CONSTANTS
  BlockSize,    \* AES.block_size, also the length of the IV
  ChunkSize,    \* what one pass of the loops reads
  HeaderSize,   \* digits of the size
  MaxSize,      \* bound: length of the picture
  MaxSavings    \* bound: times the picture is saved anew

\* n without its last k digits.
WithoutDigits(n, k) ==
  LET rest[j \in 0 .. HeaderSize] == IF j = 0 THEN n ELSE rest[j - 1] \div 10
  IN  rest[k]

\* The digits of every size fit the header.
ASSUME SizesAssumption ==
  /\ BlockSize \in Nat \ {0} /\ HeaderSize \in Nat \ {0}
  /\ ChunkSize \in Nat \ {0} /\ ChunkSize % BlockSize = 0
  /\ MaxSize \in Nat /\ WithoutDigits(MaxSize, HeaderSize) = 0
  /\ MaxSavings \in Nat

VARIABLES
  picture,      \* the file to encrypt
  savings,      \* times the picture has been saved anew
  call,         \* where the process stands
  offset,       \* of the file that is read
  stream,       \* what encrypt has written
  encrypted,    \* the .enc file
  filesize,     \* the local variable of decrypt
  out,          \* the file decrypt writes
  result,       \* how the last call of decrypt ended
  taken,        \* history: the picture when encrypt asked for its size
  resaved,      \* history: it was saved anew since, while encrypt ran
  made          \* history: what the .enc file was made from, and if encrypt returned

pictureVars == <<picture, savings>>
decryptVars == <<filesize, out, result>>
vars == <<pictureVars, call, offset, stream, encrypted, decryptVars, taken, resaved, made>>

Space       == <<"space">>
NUL         == <<"NUL">>
IVByte      == <<"iv">>
Digit       == {<<"digit", d>> : d \in 0 .. 9}
PictureByte == {<<"byte", v, n>> : v \in 0 .. MaxSavings, n \in 1 .. MaxSize}
CipherByte  == {<<"cipher", b>> : b \in PictureByte \union {Space}}
Calls       == {"none", "encrypt", "encryptLoop", "decryptLoop"}

TypeOK ==
  /\ picture \in Seq(PictureByte) /\ Len(picture) <= MaxSize
  /\ savings \in 0 .. MaxSavings
  /\ call \in Calls
  /\ offset \in Nat
  /\ stream \in Seq(Digit \union {IVByte} \union CipherByte)
  /\ encrypted \in Seq(Digit \union {IVByte} \union CipherByte)
  /\ filesize \in 0 .. MaxSize
  /\ out \in Seq(PictureByte \union {Space, NUL})
  /\ result \in {"none", "returned", "raised"}
  /\ taken \in Seq(PictureByte)
  /\ resaved \in BOOLEAN
  /\ made \in [from : Seq(PictureByte), resaved : BOOLEAN, whole : BOOLEAN]

Init ==
  /\ \E n \in 0 .. MaxSize : picture = [k \in 1 .. n |-> <<"byte", 0, k>>]
  /\ savings = 0
  /\ call = "none"
  /\ offset = 0
  /\ stream = <<>>
  /\ encrypted = <<>>
  /\ filesize = 0
  /\ out = <<>>
  /\ result = "none"
  /\ taken = <<>>
  /\ resaved = FALSE
  /\ made = [from |-> <<>>, resaved |-> FALSE, whole |-> FALSE]

-----------------------------------------------------------------------------
(* The program that saves the picture                                      *)

\* It is opened for writing, which empties it,
SaveAnew ==
  /\ savings < MaxSavings
  /\ savings' = savings + 1
  /\ picture' = <<>>
  /\ resaved' = (call \in {"encrypt", "encryptLoop"})
  /\ UNCHANGED <<call, offset, stream, encrypted, decryptVars, taken, made>>

\* and grows as it is written.
Grow ==
  /\ Len(picture) < MaxSize
  /\ picture' = Append(picture, <<"byte", savings, Len(picture) + 1>>)
  /\ UNCHANGED <<savings, call, offset, stream, encrypted, decryptVars, taken,
                 resaved, made>>

-----------------------------------------------------------------------------
(* encrypt                                                                 *)

\* str(n).zfill(HeaderSize)
Header(n) ==
  [k \in 1 .. HeaderSize |-> <<"digit", WithoutDigits(n, HeaderSize - k) % 10>>]

IV == [k \in 1 .. BlockSize |-> IVByte]

\* What inf.read returns: up to ChunkSize bytes behind offset.
read(file) ==
  SubSeq(file, offset + 1,
         IF offset + ChunkSize < Len(file) THEN offset + ChunkSize ELSE Len(file))

\* Spaces fill the chunk up to whole blocks.
Padded(chunk) ==
  IF Len(chunk) % BlockSize = 0 THEN chunk
  ELSE chunk \o [k \in 1 .. (BlockSize - (Len(chunk) % BlockSize)) |-> Space]

\* Mutant of cipher_encrypt: the chunk itself is written.
cipher_skipped(chunk) == chunk

\* encryptor.encrypt and decryptor.decrypt keep the state of the chain from call
\* to call, so whole blocks in the order they were written come back as they were.
cipher_encrypt(chunk) == [k \in 1 .. Len(chunk) |-> <<"cipher", chunk[k]>>]
cipher_decrypt(chunk) == [k \in 1 .. Len(chunk) |-> chunk[k][2]]

\* A call ends, and with it the local variables.
EndCall ==
  /\ call' = "none"
  /\ offset' = 0
  /\ stream' = <<>>
  /\ taken' = <<>>
  /\ resaved' = FALSE

\* The size is asked for, before any file is open.
GetSize ==
  /\ call = "none"
  /\ call' = "encrypt"
  /\ taken' = picture
  /\ resaved' = FALSE
  /\ result' = "none"
  /\ UNCHANGED <<pictureVars, offset, stream, encrypted, filesize, out, made>>

\* Both files are opened, which empties the .enc file; size and IV are written.
WriteHeader ==
  /\ call = "encrypt"
  /\ call' = "encryptLoop"
  /\ offset' = 0
  /\ encrypted' = <<>>
  /\ stream' = Header(Len(taken)) \o IV
  /\ made' = [from |-> taken, resaved |-> resaved, whole |-> FALSE]
  /\ UNCHANGED <<pictureVars, decryptVars, taken, resaved>>

\* One pass of the loop.
EncryptChunk ==
  /\ call = "encryptLoop"
  /\ read(picture) # <<>>
  /\ stream' = stream \o cipher_encrypt(Padded(read(picture)))
  /\ offset' = offset + Len(read(picture))
  /\ made' = [made EXCEPT !.resaved = resaved]
  /\ UNCHANGED <<pictureVars, call, encrypted, decryptVars, taken, resaved>>

\* Nothing more is read: the files are closed.
EncryptReturns ==
  /\ call = "encryptLoop"
  /\ read(picture) = <<>>
  /\ EndCall
  /\ encrypted' = stream
  /\ made' = [made EXCEPT !.resaved = resaved, !.whole = TRUE]
  /\ UNCHANGED <<pictureVars, decryptVars>>

\* The process is killed, or the disk is full: some of what was written is in
\* the .enc file.
EncryptIsCut ==
  /\ EndCall
  /\ \/ call = "encrypt" /\ UNCHANGED <<encrypted, made>>
     \/ /\ call = "encryptLoop"
        /\ \E n \in 0 .. Len(stream) : encrypted' = SubSeq(stream, 1, n)
        /\ made' = [made EXCEPT !.resaved = resaved]
  /\ UNCHANGED <<pictureVars, decryptVars>>

-----------------------------------------------------------------------------
(* decrypt                                                                 *)

\* long(digits)
Number(digits) ==
  LET value[k \in 0 .. Len(digits)] ==
        IF k = 0 THEN 0 ELSE 10 * value[k - 1] + digits[k][2]
  IN  value[Len(digits)]

\* Up to k bytes of the .enc file behind the first n.
Slice(n, k) ==
  SubSeq(encrypted, n + 1,
         IF n + k < Len(encrypted) THEN n + k ELSE Len(encrypted))

\* long() refuses an empty text, AES.new an IV that is too short.
HeaderIsWhole ==
  /\ Slice(0, HeaderSize) # <<>>
  /\ Len(Slice(HeaderSize, BlockSize)) = BlockSize

\* Size and IV are read, and the output is opened, which empties it.
ReadHeader ==
  /\ call = "none"
  /\ IF HeaderIsWhole
     THEN /\ call' = "decryptLoop"
          /\ filesize' = Number(Slice(0, HeaderSize))
          /\ offset' = HeaderSize + BlockSize
          /\ out' = <<>>
          /\ result' = "none"
     ELSE result' = "raised" /\ UNCHANGED <<call, filesize, offset, out>>
  /\ UNCHANGED <<pictureVars, stream, encrypted, taken, resaved, made>>

\* One pass of the loop; decrypt raises on a chunk that is not of whole blocks.
DecryptChunk ==
  /\ call = "decryptLoop"
  /\ read(encrypted) # <<>>
  /\ IF Len(read(encrypted)) % BlockSize = 0
     THEN /\ out' = out \o cipher_decrypt(read(encrypted))
          /\ offset' = offset + Len(read(encrypted))
          /\ UNCHANGED <<call, stream, result, taken, resaved>>
     ELSE EndCall /\ result' = "raised" /\ UNCHANGED out
  /\ UNCHANGED <<pictureVars, encrypted, filesize, made>>

\* Mutant of truncate: a file is cut, but never extended.
truncate_only(file, n) == SubSeq(file, 1, IF n < Len(file) THEN n ELSE Len(file))

\* file.truncate cuts a file, or extends it with NULs.
truncate(file, n) == [k \in 1 .. n |-> IF k <= Len(file) THEN file[k] ELSE NUL]

DecryptReturns ==
  /\ call = "decryptLoop"
  /\ read(encrypted) = <<>>
  /\ EndCall
  /\ out' = truncate(out, filesize)
  /\ result' = "returned"
  /\ UNCHANGED <<pictureVars, encrypted, filesize, made>>

DecryptIsCut ==
  /\ call = "decryptLoop"
  /\ EndCall
  /\ UNCHANGED <<pictureVars, encrypted, decryptVars, made>>

-----------------------------------------------------------------------------
Next ==
  \/ SaveAnew \/ Grow
  \/ GetSize \/ WriteHeader \/ EncryptChunk \/ EncryptReturns \/ EncryptIsCut
  \/ ReadHeader \/ DecryptChunk \/ DecryptReturns \/ DecryptIsCut

Spec == Init /\ [][Next]_vars

-----------------------------------------------------------------------------
(* Properties                                                              *)

\* What is left of a picture of which the first n bytes were encrypted.
Restored(n) == truncate(SubSeq(made.from, 1, n), Len(made.from))

\* When decrypt returns, the picture has the length it had when encrypt asked
\* for it.  If the picture only grew since, it is that picture, its end
\* replaced by NULs where encrypt was cut: bytes appended meanwhile, and the
\* padding they cause in the middle of the ciphertext, never show.  A file that
\* encrypt has finished is never refused.
DecryptsToPictureTaken ==
  /\ result = "returned" =>
       /\ Len(out) = Len(made.from)
       /\ ~made.resaved =>
            \E n \in 0 .. Len(made.from) :
              out = Restored(n) /\ (made.whole => n = Len(made.from))
  /\ result = "raised" => ~made.whole
=============================================================================

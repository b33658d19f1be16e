--------------------------- MODULE Cipher_proofs ---------------------------
(***************************************************************************)
(* Theorems about the two uses of AES: MqttCipher, for every block size,   *)
(* key and line, and ImageCipher, for every size of block, chunk, header   *)
(* and picture.  The names of MqttCipher begin with "Line" where both      *)
(* modules need one.                                                       *)
(***************************************************************************)
EXTENDS MqttCipher, ImageCipher, WellFoundedInduction, TLAPS

-----------------------------------------------------------------------------
(* MqttCipher                                                              *)

\* The length of what _pad adds.
LEMMA PadLength ==
  ASSUME NEW n \in Nat
  PROVE  bs - (n % bs) \in 1 .. bs
<1>1. bs \in Nat \ {0}
  BY CipherAssumption
<1>2. n % bs \in 0 .. (bs - 1)
  BY <1>1
<1> QED
  BY <1>1, <1>2

\* What _pad returns, byte by byte.
LEMMA PadAdds ==
  ASSUME NEW s \in Seq(Byte)
  PROVE  LET n == bs - (Len(s) % bs)
         IN  /\ n \in 1 .. bs
             /\ _pad(s) \in Seq(Byte)
             /\ Len(_pad(s)) = Len(s) + n
             /\ \A k \in 1 .. Len(s) : _pad(s)[k] = s[k]
             /\ \A k \in (Len(s) + 1) .. (Len(s) + n) : _pad(s)[k] = n
<1> DEFINE n == bs - (Len(s) % bs)
           added == [k \in 1 .. n |-> n]
<1>1. n \in 1 .. bs
  BY PadLength
<1>2. n \in Byte
  BY <1>1, CipherAssumption DEF Byte
<1>3. added \in Seq(Byte) /\ Len(added) = n /\ \A k \in 1 .. n : added[k] = n
  BY <1>1, <1>2
<1>4. _pad(s) = s \o added
  BY DEF _pad
<1> HIDE DEF n, added
<1>5. /\ s \o added \in Seq(Byte)
      /\ Len(s \o added) = Len(s) + n
      /\ \A k \in 1 .. Len(s) : (s \o added)[k] = s[k]
  BY <1>1, <1>3
<1>6. \A k \in (Len(s) + 1) .. (Len(s) + n) : (s \o added)[k] = n
  <2> SUFFICES ASSUME NEW k \in (Len(s) + 1) .. (Len(s) + n)
               PROVE  (s \o added)[k] = n
    OBVIOUS
  <2>1. (s \o added)[k] = added[k - Len(s)] /\ k - Len(s) \in 1 .. n
    BY <1>1, <1>3
  <2> QED
    BY <2>1, <1>3
<1> QED
  BY <1>1, <1>4, <1>5, <1>6 DEF n

\* Cutting off as many bytes as the last one says gives the line back.
LEMMA CutPadding ==
  ASSUME NEW s \in Seq(Byte)
  PROVE  LET p == _pad(s)
         IN  p[Len(p)] \in 1 .. Len(p) /\ SubSeq(p, 1, Len(p) - p[Len(p)]) = s
<1> DEFINE n == bs - (Len(s) % bs)
           p == _pad(s)
<1>1. /\ n \in 1 .. bs /\ p \in Seq(Byte) /\ Len(p) = Len(s) + n
      /\ \A k \in 1 .. Len(s) : p[k] = s[k]
      /\ \A k \in (Len(s) + 1) .. (Len(s) + n) : p[k] = n
  BY PadAdds
<1> HIDE DEF n, p
<1>b. bs \in Nat
  BY CipherAssumption
<1>2. p[Len(p)] = n /\ n \in 1 .. Len(p) /\ Len(p) - n = Len(s)
  BY <1>1, <1>b
<1>3. SubSeq(p, 1, Len(s)) = s
  <2>1. /\ SubSeq(p, 1, Len(s)) \in Seq(Byte)
        /\ Len(SubSeq(p, 1, Len(s))) = Len(s)
        /\ \A k \in 1 .. Len(s) : SubSeq(p, 1, Len(s))[k] = p[k]
    BY <1>1, <1>b
  <2> QED
    BY <2>1, <1>1
<1> QED
  BY <1>2, <1>3 DEF p

\* _unpad undoes _pad, for every line and block size (aes_cipher.py 26-30).
THEOREM UnpadUndoesPad ==
  ASSUME NEW s \in Seq(Byte)
  PROVE  _unpad(_pad(s)) = s
  BY CutPadding DEF _unpad

-----------------------------------------------------------------------------
\* A ciphertext is of the padded line, under the sender's key.
SentInv ==
  /\ raw \in Seq(Byte)
  /\ sent # None => sent = AES_encrypt(key(sender), _pad(raw))
  /\ LineRestored

\* A line of bounded length is a line.
LEMMA LinesAreLines == \A n \in 0 .. MaxLength : TextsOf(n) \subseteq Seq(Byte)
  BY CipherAssumption DEF TextsOf

\* A reader whose key starts like the publisher's gets the line back, whatever
\* the line, the block size and the keys (aes_cipher.py 14-30).
THEOREM LinesAreRestored == LineSpec => []LineRestored
<1>1. LineInit => SentInv
  BY LinesAreLines DEF LineInit, SentInv, LineRestored
<1>2. SentInv /\ [LineNext]_lineVars => SentInv'
  <2> SUFFICES ASSUME SentInv, [LineNext]_lineVars PROVE SentInv'
    OBVIOUS
  <2>1. CASE encrypt
    BY <2>1 DEF encrypt, SentInv, LineRestored, key
  <2>r. ASSUME sent # None, key(reader) = key(sender)
        PROVE  AES_decrypt(key(reader), sent) = {_pad(raw)}
    BY <2>r DEF SentInv, AES_encrypt, AES_decrypt
  <2>2. CASE decrypt
    <3>1. ASSUME key(reader) = key(sender) PROVE text' = raw
      BY <2>2, <2>r, <3>1, UnpadUndoesPad DEF decrypt, SentInv
    <3> QED
      BY <2>2, <3>1 DEF decrypt, SentInv, LineRestored, key
  <2>3. CASE UNCHANGED lineVars
    BY <2>3 DEF lineVars, SentInv, LineRestored, key
  <2> QED
    BY <2>1, <2>2, <2>3 DEF LineNext
<1>3. SentInv => LineRestored
  BY DEF SentInv
<1> QED
  BY <1>1, <1>2, <1>3, PTL DEF LineSpec

-----------------------------------------------------------------------------
\* A text is a line of bytes.
LEMMA TextsAreLines ==
  ASSUME NEW n \in Nat, NEW s \in TextsOf(n)
  PROVE  s \in Seq(Byte) /\ Len(s) = n
  BY DEF TextsOf

LEMMA LinesAreTexts ==
  ASSUME NEW s \in Seq(Byte)
  PROVE  s \in TextsOf(Len(s))
  BY DEF TextsOf

LEMMA PadAddsIsWhole ==
  ASSUME NEW s \in Seq(Byte)
  PROVE  _pad(s) \in TextsOf(Len(_pad(s))) /\ Len(_pad(s)) % bs = 0
<1> DEFINE n == bs - (Len(s) % bs)
<1>1. n \in 1 .. bs /\ _pad(s) \in Seq(Byte) /\ Len(_pad(s)) = Len(s) + n
  BY PadAdds
<1>2. bs \in Nat \ {0} /\ Len(s) \in Nat
  BY CipherAssumption
<1>3. (Len(s) + n) % bs = 0
  <2> DEFINE m == Len(s)
             q == m \div bs
  <2>1. m \in Nat /\ q \in Nat /\ m % bs \in 0 .. bs - 1
    BY <1>2
  <2>2. m = bs * q + (m % bs)
    BY <1>2
  <2>3. m + n = bs * q + bs
    BY <1>2, <2>1, <2>2
  <2>4. bs * q + bs = (q + 1) * bs
    BY <1>2, <2>1
  <2>5. \A k \in Nat : (k * bs) % bs = 0
    BY <1>2
  <2> QED
    BY <2>1, <2>3, <2>4, <2>5
<1> QED
  BY <1>1, <1>3, LinesAreTexts

\* What aes_cipher.py leaves of a deciphered text, valid or not, is a line.
LEMMA CutIsLine ==
  ASSUME NEW s \in Seq(Byte), NEW n \in Int, n <= Len(s)
  PROVE  SubSeq(s, 1, n) \in Seq(Byte)
<1>1. \A k \in 1 .. n : k \in 1 .. Len(s) /\ s[k] \in Byte
  OBVIOUS
<1> QED
  BY <1>1

LEMMA DecryptsToLines ==
  ASSUME NEW k, NEW c, c.blocks \in Seq(Byte), NEW s \in AES_decrypt(k, c)
  PROVE  s \in Seq(Byte) /\ Len(s) = Len(c.blocks)
<1>1. Len(c.blocks) \in Nat
  OBVIOUS
<1> QED
  BY <1>1, TextsAreLines DEF AES_decrypt

\* What the reader makes of a ciphertext is a text, under any key.
CipherInv ==
  /\ LineTypeOK
  /\ raw \in Seq(Byte)
  /\ sent # None => sent.blocks \in Seq(Byte) /\ Len(sent.blocks) > 0

\* Whatever key the reader has, decryption returns a text of bytes, and
\* ciphertexts are of whole blocks (aes_cipher.py 14-30).
THEOREM LineTypeCorrect == LineSpec => []LineTypeOK
<1>1. LineInit => CipherInv
  BY LinesAreLines DEF LineInit, CipherInv, LineTypeOK
<1>2. CipherInv /\ [LineNext]_lineVars => CipherInv'
  <2> SUFFICES ASSUME CipherInv, [LineNext]_lineVars PROVE CipherInv'
    OBVIOUS
  <2>1. CASE encrypt
    <3>1. sent'.blocks = _pad(raw)
      BY <2>1 DEF encrypt, AES_encrypt
    <3>2. _pad(raw) \in Seq(Byte) /\ Len(_pad(raw)) > 0
      BY PadAdds DEF CipherInv
    <3>3. _pad(raw) \in TextsOf(Len(_pad(raw))) /\ Len(_pad(raw)) % bs = 0
      BY PadAddsIsWhole DEF CipherInv
    <3> QED
      BY <2>1, <3>1, <3>2, <3>3 DEF encrypt, CipherInv, LineTypeOK
  <2>2. CASE decrypt
    <3>1. sent.blocks \in Seq(Byte)
      BY <2>2 DEF decrypt, CipherInv
    <3>2. PICK s \in AES_decrypt(key(reader), sent) : text' = _unpad(s)
      BY <2>2 DEF decrypt
    <3>3. s \in Seq(Byte)
      BY <3>1, DecryptsToLines
    <3>4. _unpad(s) \in Seq(Byte)
      BY <3>3, CutIsLine DEF _unpad
    <3>5. text' \in TextsOf(Len(text'))
      BY <3>2, <3>4, LinesAreTexts
    <3> QED
      BY <2>2, <3>5 DEF decrypt, CipherInv, LineTypeOK
  <2>3. CASE UNCHANGED lineVars
    BY <2>3 DEF lineVars, CipherInv, LineTypeOK
  <2> QED
    BY <2>1, <2>2, <2>3 DEF LineNext
<1>3. CipherInv => LineTypeOK
  BY DEF CipherInv
<1> QED
  BY <1>1, <1>2, <1>3, PTL DEF LineSpec

-----------------------------------------------------------------------------
(* ImageCipher: what an .enc file holds                                    *)

\* Where the ciphertext begins.
Prologue == HeaderSize + BlockSize

\* Bytes of an .enc file, whole or cut off, of a picture.
Begins(file, from) ==
  /\ file \in Seq(Digit \union {IVByte} \union CipherByte)
  /\ \A k \in 1 .. Len(file) :
       /\ k <= Prologue => file[k] = (Header(Len(from)) \o IV)[k]
       /\ k > Prologue => file[k] \in CipherByte

\* As far as the picture goes, the ciphertext is that of the picture.
Faithful(file, from) ==
  \A k \in 1 .. Len(file) :
    k > Prologue /\ k - Prologue <= Len(from) => file[k] = <<"cipher", from[k - Prologue]>>

\* Header and IV are complete, and the ciphertext is of whole blocks.
WholeBlocks(file) == Len(file) >= Prologue /\ (Len(file) - Prologue) % BlockSize = 0

\* As long as the picture is not saved anew it only grows.
PictureInv ==
  call \in {"encrypt", "encryptLoop"} /\ ~ resaved =>
    Len(taken) <= Len(picture) /\ \A k \in 1 .. Len(taken) : picture[k] = taken[k]

\* Either nothing was padded yet, or all of the picture that was taken is read
\* and encrypted.
EncryptInv ==
  call = "encryptLoop" =>
    /\ made.from = taken /\ ~ made.whole /\ encrypted = <<>>
    /\ Begins(stream, taken) /\ WholeBlocks(stream)
    /\ ~ resaved =>
         /\ Faithful(stream, taken)
         /\ \/ offset = Len(stream) - Prologue
            \/ offset >= Len(taken) /\ Len(stream) - Prologue >= Len(taken)

FileInv ==
  /\ Begins(encrypted, made.from)
  /\ ~ made.resaved => Faithful(encrypted, made.from)
  /\ made.whole =>
       /\ WholeBlocks(encrypted)
       /\ ~ made.resaved => Len(encrypted) - Prologue >= Len(made.from)

\* What was read of the file is decrypted, and is of whole blocks.
DecryptInv ==
  call = "decryptLoop" =>
    /\ filesize = Len(made.from)
    /\ offset = Prologue + Len(out) /\ offset <= Len(encrypted)
    /\ Len(out) % BlockSize = 0
    /\ \A k \in 1 .. Len(out) : out[k] = encrypted[Prologue + k][2]

FileOK ==
  /\ TypeOK
  /\ Len(taken) <= MaxSize /\ Len(made.from) <= MaxSize
  /\ call # "none" => result = "none"

IInv ==
  /\ FileOK /\ PictureInv /\ EncryptInv /\ FileInv /\ DecryptInv
  /\ DecryptsToPictureTaken

-----------------------------------------------------------------------------
(* The digits of a size                                                    *)

\* Of a set of numbers one is the least.
LEMMA LeastNumber ==
  ASSUME NEW T, T \subseteq Nat, T # {}
  PROVE  \E n \in T : \A m \in T : n <= m
<1>1. IsWellFoundedOn(OpToRel(<, Nat), Nat)
  BY NatLessThanWellFounded, Zenon
<1>2. PICK n \in T : \A m \in T : ~ (<<m, n>> \in OpToRel(<, Nat))
  BY <1>1, WFMin, Zenon
<1>3. \A m \in T : ~ (m < n)
  BY <1>2 DEF OpToRel
<1> QED
  BY <1>3

\* Dropping digits one after the other, up to m of them, is a function.
Drops(h, n, m) == h = [j \in 0 .. m |-> IF j = 0 THEN n ELSE h[j - 1] \div 10]

LEMMA DropsExist ==
  ASSUME NEW n, NEW m \in Nat
  PROVE  \E h : Drops(h, n, m)
<1> DEFINE T == {i \in Nat : ~ \E h : Drops(h, n, i)}
<1>1. T = {}
  <2> SUFFICES ASSUME T # {} PROVE FALSE
    OBVIOUS
  <2>1. PICK i \in T : \A k \in T : i <= k
    BY LeastNumber
  <2>2. i # 0
    <3> DEFINE g == [j \in 0 .. 0 |-> n]
    <3>1. Drops(g, n, 0)
      BY DEF Drops
    <3> QED
      BY <3>1, <2>1
  <2>3. i - 1 \in Nat /\ i - 1 \notin T
    BY <2>1, <2>2
  <2>4. PICK h : Drops(h, n, i - 1)
    BY <2>3
  <2> DEFINE g == [j \in 0 .. i |-> IF j = 0 THEN n ELSE h[j - 1] \div 10]
  <2>5. \A j \in 0 .. (i - 1) : g[j] = h[j]
    BY <2>3, <2>4 DEF Drops
  <2>6. \A j \in 0 .. i : j # 0 => j - 1 \in 0 .. (i - 1)
    BY <2>3
  <2>7. Drops(g, n, i)
    BY <2>5, <2>6 DEF Drops
  <2> QED
    BY <2>1, <2>7
<1> QED
  BY <1>1

\* Each digit less is a division by ten.
LEMMA DropDigit ==
  ASSUME NEW n
  PROVE  /\ WithoutDigits(n, 0) = n
         /\ \A k \in 1 .. HeaderSize : WithoutDigits(n, k) = WithoutDigits(n, k - 1) \div 10
<1>0. HeaderSize \in Nat
  BY SizesAssumption
<1>1. PICK h : h = CHOOSE g : Drops(g, n, HeaderSize)
  OBVIOUS
<1>2. Drops(h, n, HeaderSize)
  BY <1>0, <1>1, DropsExist, Zenon
<1>3. \A k : WithoutDigits(n, k) = h[k]
  BY <1>1, Zenon DEF WithoutDigits, Drops
<1>4. h[0] = n /\ \A k \in 1 .. HeaderSize : h[k] = h[k - 1] \div 10
  BY <1>0, <1>2 DEF Drops
<1>5. \A k \in 1 .. HeaderSize : WithoutDigits(n, k) = h[k] /\ WithoutDigits(n, k - 1) = h[k - 1]
  BY <1>3, Zenon
<1>6. WithoutDigits(n, 0) = h[0]
  BY <1>3, Zenon
<1> QED
  BY <1>4, <1>5, <1>6

\* A size that is not greater than MaxSize has no digits before the header.
LEMMA DigitsLeft ==
  ASSUME NEW n \in 0 .. MaxSize
  PROVE  /\ \A k \in 0 .. HeaderSize : WithoutDigits(n, k) \in Nat
         /\ WithoutDigits(n, HeaderSize) = 0
<1>0. HeaderSize \in Nat /\ MaxSize \in Nat /\ n \in Nat
  BY SizesAssumption
<1> DEFINE Wrong == {k \in 0 .. HeaderSize :
                       ~ /\ WithoutDigits(n, k) \in Nat
                         /\ WithoutDigits(MaxSize, k) \in Nat
                         /\ WithoutDigits(n, k) <= WithoutDigits(MaxSize, k)}
<1>1. Wrong = {}
  <2> SUFFICES ASSUME Wrong # {} PROVE FALSE
    OBVIOUS
  <2>0. Wrong \subseteq Nat
    BY <1>0
  <2>1. PICK k \in Wrong : \A m \in Wrong : k <= m
    BY <2>0, LeastNumber
  <2>2. k # 0
    BY <1>0, DropDigit
  <2>3. k \in 1 .. HeaderSize /\ k - 1 \in 0 .. HeaderSize /\ k - 1 \notin Wrong
    BY <1>0, <2>1, <2>2
  <2> DEFINE a == WithoutDigits(n, k - 1)
             b == WithoutDigits(MaxSize, k - 1)
  <2>4. a \in Nat /\ b \in Nat /\ a <= b
    BY <2>3
  <2>5. WithoutDigits(n, k) = a \div 10 /\ WithoutDigits(MaxSize, k) = b \div 10
    BY <2>3, DropDigit
  <2> HIDE DEF a, b
  <2>6. a \div 10 \in Nat /\ b \div 10 \in Nat /\ a \div 10 <= b \div 10
    BY <2>4
  <2> QED
    BY <2>1, <2>5, <2>6
<1>2. HeaderSize \in 0 .. HeaderSize
  BY <1>0
<1>3. WithoutDigits(n, HeaderSize) <= WithoutDigits(MaxSize, HeaderSize)
  BY <1>1, <1>2
<1>4. WithoutDigits(MaxSize, HeaderSize) = 0
  BY SizesAssumption
<1> QED
  BY <1>1, <1>2, <1>3, <1>4

LEMMA HeaderIs ==
  ASSUME NEW n \in 0 .. MaxSize
  PROVE  /\ Header(n) \in Seq(Digit) /\ Len(Header(n)) = HeaderSize
         /\ \A k \in 1 .. HeaderSize : Header(n)[k][2] = WithoutDigits(n, HeaderSize - k) % 10
<1>0. HeaderSize \in Nat
  BY SizesAssumption
<1>1. \A k \in 1 .. HeaderSize : HeaderSize - k \in 0 .. HeaderSize
  BY <1>0
<1>2. \A k \in 1 .. HeaderSize : WithoutDigits(n, HeaderSize - k) \in Nat
  BY <1>1, DigitsLeft
<1>3. \A k \in 1 .. HeaderSize : WithoutDigits(n, HeaderSize - k) % 10 \in 0 .. 9
  BY <1>2
<1>4. \A k \in 1 .. HeaderSize : <<"digit", WithoutDigits(n, HeaderSize - k) % 10>> \in Digit
  BY <1>3 DEF Digit
<1>5. Len(Header(n)) = HeaderSize
  BY <1>0 DEF Header
<1>6. \A k \in 1 .. HeaderSize :
        Header(n)[k] = <<"digit", WithoutDigits(n, HeaderSize - k) % 10>>
  BY DEF Header
<1>7. Header(n) \in Seq(Digit)
  BY <1>0, <1>4 DEF Header
<1> QED
  BY <1>5, <1>6, <1>7

\* Reading the header back gives the size, for every size whose digits fit
\* (aes.py 14 against 27).
THEOREM NumberOfHeader ==
  ASSUME NEW n \in 0 .. MaxSize
  PROVE  Number(Header(n)) = n
<1> DEFINE d == Header(n)
           Values(f) == f = [k \in 0 .. Len(d) |-> IF k = 0 THEN 0 ELSE 10 * f[k - 1] + d[k][2]]
           w(k) == WithoutDigits(n, HeaderSize - k)
           g == [k \in 0 .. HeaderSize |-> w(k)]
<1>0. HeaderSize \in Nat /\ \A k \in 0 .. HeaderSize : HeaderSize - k \in 0 .. HeaderSize
  BY SizesAssumption
<1>1. Len(d) = HeaderSize /\ \A k \in 1 .. HeaderSize : d[k][2] = w(k) % 10
  BY HeaderIs
<1>2. w(0) = 0 /\ w(HeaderSize) = n /\ \A k \in 0 .. HeaderSize : w(k) \in Nat
  <2>1. HeaderSize - 0 = HeaderSize /\ HeaderSize - HeaderSize = 0
    BY <1>0
  <2> QED
    BY <1>0, <2>1, DigitsLeft, DropDigit
<1>3. \A k \in 1 .. HeaderSize : w(k - 1) = w(k) \div 10
  <2> SUFFICES ASSUME NEW k \in 1 .. HeaderSize PROVE w(k - 1) = w(k) \div 10
    OBVIOUS
  <2>1. /\ HeaderSize - (k - 1) \in 1 .. HeaderSize
        /\ (HeaderSize - (k - 1)) - 1 = HeaderSize - k
    BY <1>0
  <2> QED
    BY <2>1, DropDigit
<1> HIDE DEF d, w
<1>4. \A k \in 1 .. HeaderSize : w(k) = 10 * w(k - 1) + d[k][2]
  <2> SUFFICES ASSUME NEW k \in 1 .. HeaderSize PROVE w(k) = 10 * w(k - 1) + d[k][2]
    OBVIOUS
  <2>1. w(k) \in Nat /\ w(k - 1) = w(k) \div 10 /\ d[k][2] = w(k) % 10
    BY <1>0, <1>1, <1>2, <1>3
  <2>2. \A x \in Nat : x = 10 * (x \div 10) + (x % 10)
    OBVIOUS
  <2> QED
    BY <2>1, <2>2
<1>5. Values(g)
  <2>1. \A k \in 0 .. HeaderSize : k # 0 => k \in 1 .. HeaderSize /\ k - 1 \in 0 .. HeaderSize
    BY <1>0
  <2> QED
    BY <1>1, <1>2, <1>4, <2>1
<1>6. PICK f : f = CHOOSE h : Values(h)
  OBVIOUS
<1>7. Values(f)
  BY <1>5, <1>6, Zenon
<1>8. Number(d) = f[HeaderSize]
  BY <1>1, <1>6, Zenon DEF Number
<1>9. f[0] = 0 /\ \A k \in 1 .. HeaderSize : f[k] = 10 * f[k - 1] + d[k][2]
  <2>1. f = [k \in 0 .. HeaderSize |-> IF k = 0 THEN 0 ELSE 10 * f[k - 1] + d[k][2]]
    BY <1>1, <1>7, Zenon
  <2>2. \A k \in 0 .. HeaderSize : f[k] = IF k = 0 THEN 0 ELSE 10 * f[k - 1] + d[k][2]
    BY <2>1, Zenon
  <2>3. 0 \in 0 .. HeaderSize /\ \A k \in 1 .. HeaderSize : k \in 0 .. HeaderSize /\ k # 0
    BY <1>0
  <2> QED
    BY <2>2, <2>3, Zenon
<1> HIDE DEF Values, g
<1> DEFINE Wrong == {k \in 0 .. HeaderSize : f[k] # w(k)}
<1>10. Wrong = {}
  <2> SUFFICES ASSUME Wrong # {} PROVE FALSE
    OBVIOUS
  <2>0. Wrong \subseteq Nat
    BY <1>0
  <2>1. PICK k \in Wrong : \A m \in Wrong : k <= m
    BY <2>0, LeastNumber
  <2>2. k # 0
    BY <1>2, <1>9
  <2>3. k \in 1 .. HeaderSize /\ k - 1 \in 0 .. HeaderSize /\ k - 1 \notin Wrong
    BY <1>0, <2>1, <2>2
  <2>4. f[k - 1] = w(k - 1)
    BY <2>3
  <2> QED
    BY <1>4, <1>9, <2>1, <2>3, <2>4
<1> QED
  BY <1>0, <1>2, <1>8, <1>10 DEF d

-----------------------------------------------------------------------------
(* Chunks and blocks                                                       *)

LEMMA Numbers ==
  /\ BlockSize \in Nat \ {0} /\ HeaderSize \in Nat \ {0} /\ ChunkSize \in Nat \ {0}
  /\ MaxSize \in Nat /\ MaxSavings \in Nat
  /\ Prologue \in Nat /\ Prologue = HeaderSize + BlockSize
  BY SizesAssumption DEF Prologue

LEMMA Blocks ==
  ASSUME NEW a \in Nat, NEW b \in Nat, a % BlockSize = 0, b % BlockSize = 0
  PROVE  /\ (a + b) % BlockSize = 0
         /\ a >= b => (a - b) % BlockSize = 0
<1>0. BlockSize \in Nat \ {0}
  BY Numbers
<1>1. PICK q \in Nat : q = a \div BlockSize
  BY <1>0
<1>2. PICK r \in Nat : r = b \div BlockSize
  BY <1>0
<1>3. a = BlockSize * q /\ b = BlockSize * r
  BY <1>0, <1>1, <1>2
<1>4. a + b = (q + r) * BlockSize /\ a - b = (q - r) * BlockSize
  BY <1>0, <1>3
<1>5. \A k \in Int : (k * BlockSize) % BlockSize = 0
  BY <1>0
<1>6. q + r \in Int /\ q - r \in Int
  OBVIOUS
<1> QED
  BY <1>4, <1>5, <1>6

\* The bytes of a sequence behind m, up to n.
LEMMA PieceIs ==
  ASSUME NEW S, NEW s, NEW m \in Nat, NEW n \in Nat, m <= n,
         \A k \in (m + 1) .. n : s[k] \in S
  PROVE  /\ SubSeq(s, m + 1, n) \in Seq(S)
         /\ Len(SubSeq(s, m + 1, n)) = n - m
         /\ \A k \in 1 .. (n - m) : SubSeq(s, m + 1, n)[k] = s[m + k]
<1> DEFINE piece == [k \in 1 .. (n - m) |-> s[m + k]]
<1>1. SubSeq(s, m + 1, n) = piece
  BY Z3
<1>2. piece \in Seq(S)
  OBVIOUS
<1>3. Len(piece) = n - m
  OBVIOUS
<1> QED
  BY <1>1, <1>2, <1>3

\* What a read returns.
LEMMA ReadIs ==
  ASSUME NEW S, NEW file \in Seq(S), offset \in Nat
  PROVE  /\ read(file) \in Seq(S)
         /\ read(file) = <<>> => offset >= Len(file)
         /\ read(file) # <<>> =>
              /\ Len(read(file)) > 0
              /\ offset + Len(read(file)) <= Len(file)
              /\ \/ Len(read(file)) = ChunkSize
                 \/ offset + Len(read(file)) = Len(file)
              /\ \A k \in 1 .. Len(read(file)) : read(file)[k] = file[offset + k]
<1> DEFINE last == IF offset + ChunkSize < Len(file) THEN offset + ChunkSize ELSE Len(file)
<1>0. ChunkSize \in Nat \ {0} /\ Len(file) \in Nat
  BY Numbers
<1>1. last \in Nat /\ last <= Len(file)
      /\ (last = offset + ChunkSize \/ (last = Len(file) /\ last <= offset + ChunkSize))
  BY <1>0
<1>2. read(file) = SubSeq(file, offset + 1, last)
  BY DEF read
<1> HIDE DEF last
<1>3. \A k \in (offset + 1) .. last : file[k] \in S
  BY <1>0, <1>1
<1>4. CASE offset >= last
  <2>1. SubSeq(file, offset + 1, last) = <<>>
    BY <1>1, <1>4
  <2>2. last = Len(file)
    BY <1>0, <1>1, <1>4
  <2> QED
    BY <1>2, <1>4, <2>1, <2>2
<1>5. CASE offset < last
  <2>1. /\ SubSeq(file, offset + 1, last) \in Seq(S)
        /\ Len(SubSeq(file, offset + 1, last)) = last - offset
        /\ \A k \in 1 .. (last - offset) : SubSeq(file, offset + 1, last)[k] = file[offset + k]
    BY <1>1, <1>3, <1>5, PieceIs
  <2> DEFINE piece == read(file)
  <2>2. /\ piece \in Seq(S) /\ Len(piece) = last - offset
        /\ \A k \in 1 .. Len(piece) : piece[k] = file[offset + k]
    BY <1>2, <2>1
  <2> HIDE DEF piece
  <2>3. Len(piece) > 0 /\ offset + Len(piece) = last
    BY <1>1, <1>5, <2>2
  <2>4. piece # <<>>
    BY <2>3
  <2>5. Len(piece) = ChunkSize \/ offset + Len(piece) = Len(file)
    BY <1>0, <1>1, <2>2, <2>3
  <2> QED
    BY <1>0, <1>1, <2>2, <2>3, <2>4, <2>5 DEF piece
<1> QED
  BY <1>1, <1>4, <1>5

\* What padding returns.
LEMMA PaddedIs ==
  ASSUME NEW chunk \in Seq(PictureByte)
  PROVE  /\ Padded(chunk) \in Seq(PictureByte \union {Space})
         /\ Len(Padded(chunk)) % BlockSize = 0
         /\ Len(Padded(chunk)) >= Len(chunk)
         /\ \A k \in 1 .. Len(chunk) : Padded(chunk)[k] = chunk[k]
         /\ Len(chunk) % BlockSize = 0 => Padded(chunk) = chunk
<1>0. BlockSize \in Nat \ {0} /\ Len(chunk) \in Nat
  BY Numbers
<1>1. CASE Len(chunk) % BlockSize = 0
  <2>1. Padded(chunk) = chunk
    BY <1>1 DEF Padded
  <2> QED
    BY <1>0, <1>1, <2>1
<1>2. CASE Len(chunk) % BlockSize # 0
  <2> DEFINE n == BlockSize - (Len(chunk) % BlockSize)
             added == [k \in 1 .. n |-> Space]
  <2>1. n \in 1 .. BlockSize
    BY <1>0
  <2>2. added \in Seq({Space}) /\ Len(added) = n
    BY <2>1
  <2>3. Padded(chunk) = chunk \o added
    BY <1>2 DEF Padded
  <2>4. (Len(chunk) + n) % BlockSize = 0
    <3> DEFINE q == Len(chunk) \div BlockSize
    <3>1. q \in Nat /\ Len(chunk) = BlockSize * q + (Len(chunk) % BlockSize)
      BY <1>0
    <3>2. Len(chunk) + n = (q + 1) * BlockSize
      BY <1>0, <3>1
    <3>3. \A k \in Nat : (k * BlockSize) % BlockSize = 0
      BY <1>0
    <3> QED
      BY <3>1, <3>2, <3>3
  <2> HIDE DEF n, added
  <2>5. /\ chunk \o added \in Seq(PictureByte \union {Space})
        /\ Len(chunk \o added) = Len(chunk) + n
        /\ \A k \in 1 .. Len(chunk) : (chunk \o added)[k] = chunk[k]
    BY <1>0, <2>1, <2>2
  <2> QED
    BY <1>0, <1>2, <2>1, <2>3, <2>4, <2>5
<1> QED
  BY <1>1, <1>2

\* Encrypting and decrypting go byte by byte.
LEMMA CipherIs ==
  ASSUME NEW S, NEW chunk \in Seq(S)
  PROVE  /\ Len(cipher_encrypt(chunk)) = Len(chunk)
         /\ \A k \in 1 .. Len(chunk) : cipher_encrypt(chunk)[k] = <<"cipher", chunk[k]>>
         /\ Len(cipher_decrypt(chunk)) = Len(chunk)
         /\ \A k \in 1 .. Len(chunk) : cipher_decrypt(chunk)[k] = chunk[k][2]
         /\ DOMAIN cipher_encrypt(chunk) = 1 .. Len(chunk)
         /\ DOMAIN cipher_decrypt(chunk) = 1 .. Len(chunk)
<1>0. Len(chunk) \in Nat
  OBVIOUS
<1> QED
  BY <1>0 DEF cipher_encrypt, cipher_decrypt

LEMMA EncryptedType ==
  ASSUME NEW chunk \in Seq(PictureByte \union {Space})
  PROVE  cipher_encrypt(chunk) \in Seq(CipherByte)
<1>1. \A k \in 1 .. Len(chunk) : <<"cipher", chunk[k]>> \in CipherByte
  BY DEF CipherByte
<1> QED
  BY <1>1 DEF cipher_encrypt

LEMMA DecryptedType ==
  ASSUME NEW chunk \in Seq(CipherByte)
  PROVE  cipher_decrypt(chunk) \in Seq(PictureByte \union {Space})
<1>1. \A c \in CipherByte : c[2] \in PictureByte \union {Space}
  BY DEF CipherByte
<1>2. \A k \in 1 .. Len(chunk) : chunk[k][2] \in PictureByte \union {Space}
  BY <1>1
<1> QED
  BY <1>2 DEF cipher_decrypt

\* Size and IV.
LEMMA PrologueIs ==
  ASSUME NEW n \in 0 .. MaxSize
  PROVE  /\ Header(n) \o IV \in Seq(Digit \union {IVByte} \union CipherByte)
         /\ Len(Header(n) \o IV) = Prologue
         /\ \A k \in 1 .. HeaderSize : (Header(n) \o IV)[k] = Header(n)[k]
<1>1. Header(n) \in Seq(Digit) /\ Len(Header(n)) = HeaderSize
  BY HeaderIs
<1>2. IV \in Seq({IVByte}) /\ Len(IV) = BlockSize
  BY Numbers DEF IV
<1> QED
  BY <1>1, <1>2, Numbers

-----------------------------------------------------------------------------
(* The invariant                                                           *)

LEMMA NothingIsSequence ==
  /\ <<>> \in Seq(Digit \union {IVByte} \union CipherByte)
  /\ <<>> \in Seq(PictureByte \union {Space, NUL})
  /\ <<>> \in Seq(PictureByte)
  OBVIOUS

LEMMA InitOK == Init => IInv
<1> SUFFICES ASSUME Init PROVE IInv
  OBVIOUS
<1>1. PICK n \in 0 .. MaxSize : picture = [k \in 1 .. n |-> <<"byte", 0, k>>]
  BY DEF Init
<1>2. picture \in Seq(PictureByte) /\ Len(picture) = n /\ n <= MaxSize
  <2>1. n \in Nat /\ n <= MaxSize /\ 0 \in 0 .. MaxSavings
    BY Numbers
  <2>2. \A k \in 1 .. n : k \in 1 .. MaxSize
    BY <2>1, Numbers
  <2>3. \A k \in 1 .. n : <<"byte", 0, k>> \in PictureByte
    BY <2>1, <2>2 DEF PictureByte
  <2> QED
    BY <1>1, <2>1, <2>3
<1>3. FileOK
  <2>1. /\ savings = 0 /\ call = "none" /\ offset = 0 /\ stream = <<>> /\ encrypted = <<>>
        /\ filesize = 0 /\ out = <<>> /\ result = "none" /\ taken = <<>> /\ resaved = FALSE
        /\ made = [from |-> <<>>, resaved |-> FALSE, whole |-> FALSE]
    BY DEF Init
  <2>2. 0 \in 0 .. MaxSavings /\ 0 \in 0 .. MaxSize /\ 0 <= MaxSize
    BY Numbers
  <2>3. <<>> \in Seq(PictureByte) /\ Len(<<>>) = 0
    OBVIOUS
  <2>4. made \in [from : Seq(PictureByte), resaved : BOOLEAN, whole : BOOLEAN] /\ made.from = <<>>
    BY <2>1, <2>3
  <2>5. TypeOK
    BY <1>2, <2>1, <2>2, <2>3, <2>4, NothingIsSequence DEF TypeOK, Calls
  <2> QED
    BY <2>1, <2>2, <2>3, <2>4, <2>5 DEF FileOK
<1>4. PictureInv /\ EncryptInv /\ DecryptInv
  BY DEF Init, PictureInv, EncryptInv, DecryptInv
<1>5. FileInv
  BY DEF Init, FileInv, Begins, Faithful
<1>6. DecryptsToPictureTaken
  BY DEF Init, DecryptsToPictureTaken
<1> QED
  BY <1>3, <1>4, <1>5, <1>6 DEF IInv

\* Saving the picture anew, and the appending to it.
LEMMA SaveAnewKeeps == ASSUME IInv, SaveAnew PROVE IInv'
<1>1. FileOK'
  BY Numbers DEF IInv, SaveAnew, FileOK, TypeOK, decryptVars
<1>2. PictureInv'
  BY DEF SaveAnew, PictureInv, decryptVars
<1>3. EncryptInv'
  BY DEF IInv, SaveAnew, EncryptInv, decryptVars, Begins, Faithful, WholeBlocks
<1>4. FileInv'
  BY DEF IInv, SaveAnew, FileInv, Begins, Faithful, WholeBlocks
<1>5. DecryptInv' /\ DecryptsToPictureTaken'
  BY DEF IInv, SaveAnew, DecryptInv, DecryptsToPictureTaken, Restored, truncate, decryptVars
<1> QED
  BY <1>1, <1>2, <1>3, <1>4, <1>5 DEF IInv

LEMMA GrowKeeps == ASSUME IInv, Grow PROVE IInv'
<1>0. /\ picture \in Seq(PictureByte) /\ Len(picture) < MaxSize /\ savings \in 0 .. MaxSavings
      /\ Len(picture) + 1 \in 1 .. MaxSize
  BY Numbers DEF IInv, Grow, FileOK, TypeOK
<1>1. <<"byte", savings, Len(picture) + 1>> \in PictureByte
  BY <1>0 DEF PictureByte
<1>2. /\ picture' \in Seq(PictureByte) /\ Len(picture') = Len(picture) + 1
      /\ \A k \in 1 .. Len(picture) : picture'[k] = picture[k]
  BY <1>0, <1>1 DEF Grow
<1>3. FileOK'
  BY <1>0, <1>2, Numbers DEF IInv, Grow, FileOK, TypeOK, decryptVars
<1>4. PictureInv'
  <2> SUFFICES ASSUME call \in {"encrypt", "encryptLoop"}, ~ resaved
               PROVE  Len(taken) <= Len(picture') /\ \A k \in 1 .. Len(taken) : picture'[k] = taken[k]
    BY DEF Grow, PictureInv
  <2>1. Len(taken) <= Len(picture) /\ \A k \in 1 .. Len(taken) : picture[k] = taken[k]
    BY DEF IInv, PictureInv
  <2>2. Len(taken) \in Nat /\ Len(picture) \in Nat
    BY <1>0 DEF IInv, FileOK, TypeOK
  <2> QED
    BY <1>2, <2>1, <2>2
<1>5. EncryptInv'
  BY DEF IInv, Grow, EncryptInv, decryptVars, Begins, Faithful, WholeBlocks
<1>6. FileInv'
  BY DEF IInv, Grow, FileInv, Begins, Faithful, WholeBlocks
<1>7. DecryptInv' /\ DecryptsToPictureTaken'
  BY DEF IInv, Grow, DecryptInv, DecryptsToPictureTaken, Restored, truncate, decryptVars
<1> QED
  BY <1>3, <1>4, <1>5, <1>6, <1>7 DEF IInv

LEMMA GetSizeKeeps == ASSUME IInv, GetSize PROVE IInv'
<1>1. FileOK'
  BY Numbers DEF IInv, GetSize, FileOK, TypeOK, Calls, pictureVars
<1>2. PictureInv'
  BY DEF IInv, FileOK, TypeOK, GetSize, PictureInv, pictureVars
<1>3. EncryptInv' /\ DecryptInv' /\ DecryptsToPictureTaken'
  BY DEF GetSize, EncryptInv, DecryptInv, DecryptsToPictureTaken
<1>4. FileInv'
  BY DEF IInv, GetSize, FileInv, Begins, Faithful, WholeBlocks
<1> QED
  BY <1>1, <1>2, <1>3, <1>4 DEF IInv

LEMMA WriteHeaderKeeps == ASSUME IInv, WriteHeader PROVE IInv'
<1> DEFINE prologue == Header(Len(taken)) \o IV
<1>0. taken \in Seq(PictureByte) /\ Len(taken) \in 0 .. MaxSize
  BY Numbers DEF IInv, FileOK, TypeOK
<1>1. /\ prologue \in Seq(Digit \union {IVByte} \union CipherByte) /\ Len(prologue) = Prologue
      /\ Prologue \in Nat /\ 0 % BlockSize = 0
  BY <1>0, PrologueIs, Numbers
<1>2. FileOK'
  BY <1>0, <1>1, Numbers DEF IInv, WriteHeader, FileOK, TypeOK, Calls, pictureVars, decryptVars
<1>3. PictureInv'
  BY DEF IInv, WriteHeader, PictureInv, pictureVars
<1>4. EncryptInv'
  <2>1. Begins(prologue, taken)
    BY <1>1 DEF Begins
  <2>2. WholeBlocks(prologue) /\ Faithful(prologue, taken) /\ 0 = Len(prologue) - Prologue
    BY <1>1 DEF WholeBlocks, Faithful
  <2> QED
    BY <2>1, <2>2 DEF WriteHeader, EncryptInv
<1>5. FileInv'
  BY DEF WriteHeader, FileInv, Begins, Faithful
<1>6. DecryptInv' /\ DecryptsToPictureTaken'
  BY DEF IInv, FileOK, WriteHeader, DecryptInv, DecryptsToPictureTaken, decryptVars
<1> QED
  BY <1>2, <1>3, <1>4, <1>5, <1>6 DEF IInv


LEMMA EncryptChunkKeeps == ASSUME IInv, EncryptChunk PROVE IInv'
<1> DEFINE chunk == read(picture)
           coded == cipher_encrypt(Padded(chunk))
<1>0. /\ picture \in Seq(PictureByte) /\ offset \in Nat
      /\ stream \in Seq(Digit \union {IVByte} \union CipherByte)
      /\ taken \in Seq(PictureByte) /\ resaved \in BOOLEAN
      /\ made \in [from : Seq(PictureByte), resaved : BOOLEAN, whole : BOOLEAN]
  BY DEF IInv, FileOK, TypeOK
<1>1. /\ chunk \in Seq(PictureByte) /\ Len(chunk) > 0 /\ offset + Len(chunk) <= Len(picture)
      /\ Len(chunk) = ChunkSize \/ offset + Len(chunk) = Len(picture)
      /\ \A k \in 1 .. Len(chunk) : chunk[k] = picture[offset + k]
  BY <1>0, ReadIs DEF EncryptChunk
<1> HIDE DEF chunk
<1>2. /\ Padded(chunk) \in Seq(PictureByte \union {Space})
      /\ Len(Padded(chunk)) % BlockSize = 0
      /\ Len(Padded(chunk)) >= Len(chunk)
      /\ \A k \in 1 .. Len(chunk) : Padded(chunk)[k] = chunk[k]
      /\ Len(chunk) % BlockSize = 0 => Padded(chunk) = chunk
  BY <1>1, PaddedIs
<1>3. /\ coded \in Seq(CipherByte) /\ Len(coded) = Len(Padded(chunk))
      /\ \A k \in 1 .. Len(chunk) : coded[k] = <<"cipher", picture[offset + k]>>
  <2>1. /\ Len(coded) = Len(Padded(chunk))
        /\ \A k \in 1 .. Len(Padded(chunk)) : coded[k] = <<"cipher", Padded(chunk)[k]>>
    BY <1>2, CipherIs
  <2>2. \A k \in 1 .. Len(chunk) : k \in 1 .. Len(Padded(chunk)) /\ Padded(chunk)[k] = picture[offset + k]
    BY <1>1, <1>2
  <2> QED
    BY <1>2, <2>1, <2>2, EncryptedType
<1>4. stream' = stream \o coded /\ offset' = offset + Len(chunk)
  BY DEF EncryptChunk, chunk
<1> HIDE DEF coded
<1>5. /\ stream' \in Seq(Digit \union {IVByte} \union CipherByte)
      /\ Len(stream') = Len(stream) + Len(coded)
      /\ \A k \in 1 .. Len(stream) : stream'[k] = stream[k]
      /\ \A k \in 1 .. Len(coded) : stream'[Len(stream) + k] = coded[k]
  <2>1. coded \in Seq(Digit \union {IVByte} \union CipherByte)
    BY <1>3
  <2> QED
    BY <1>0, <2>1, <1>4
<1>6. /\ made' \in [from : Seq(PictureByte), resaved : BOOLEAN, whole : BOOLEAN]
      /\ made'.from = made.from /\ made'.whole = made.whole /\ made'.resaved = resaved
  BY <1>0 DEF EncryptChunk
<1>7. FileOK'
  <2>1. offset' \in Nat
    BY <1>0, <1>1, <1>4
  <2> QED
    BY <1>5, <1>6, <2>1 DEF IInv, EncryptChunk, FileOK, TypeOK, pictureVars, decryptVars
<1>8. PictureInv'
  BY DEF IInv, EncryptChunk, PictureInv, pictureVars
<1>9. EncryptInv'
  <2>0. /\ call = "encryptLoop" /\ UNCHANGED <<picture, taken, resaved, encrypted>>
        /\ made.from = taken /\ ~ made.whole /\ encrypted = <<>>
        /\ Begins(stream, taken) /\ WholeBlocks(stream)
    BY DEF IInv, EncryptChunk, EncryptInv, pictureVars
  <2>1. /\ Len(stream) \in Nat /\ Len(coded) \in Nat /\ Len(chunk) \in Nat /\ Len(picture) \in Nat
        /\ Len(taken) \in Nat /\ Prologue \in Nat /\ ChunkSize \in Nat \ {0}
        /\ Len(coded) >= Len(chunk) /\ Len(coded) % BlockSize = 0
    BY <1>0, <1>1, <1>2, <1>3, Numbers
  <2>2. Len(stream) >= Prologue /\ (Len(stream) - Prologue) % BlockSize = 0
    BY <2>0 DEF WholeBlocks
  <2>p. \A k \in 1 .. Len(stream') :
          \/ k \in 1 .. Len(stream)
          \/ k - Len(stream) \in 1 .. Len(coded) /\ k = Len(stream) + (k - Len(stream))
    BY <1>5, <2>1
  <2>3. Begins(stream', taken)
    <3> SUFFICES ASSUME NEW k \in 1 .. Len(stream')
                 PROVE  /\ k <= Prologue => stream'[k] = (Header(Len(taken)) \o IV)[k]
                        /\ k > Prologue => stream'[k] \in CipherByte
      BY <1>5 DEF Begins
    <3>1. CASE k \in 1 .. Len(stream)
      BY <1>5, <2>0, <3>1 DEF Begins
    <3>2. CASE k - Len(stream) \in 1 .. Len(coded) /\ k = Len(stream) + (k - Len(stream))
      <4>1. stream'[k] = coded[k - Len(stream)] /\ coded[k - Len(stream)] \in CipherByte
        BY <1>3, <1>5, <3>2
      <4>2. k > Prologue
        BY <2>1, <2>2, <3>2
      <4> QED
        BY <2>1, <4>1, <4>2
    <3> QED
      BY <2>p, <3>1, <3>2
  <2>4. WholeBlocks(stream')
    <3>1. (Len(stream) - Prologue) + Len(coded) = Len(stream') - Prologue
      BY <1>5, <2>1
    <3>2. Len(stream) - Prologue \in Nat
      BY <2>1, <2>2
    <3>3. ((Len(stream) - Prologue) + Len(coded)) % BlockSize = 0
      BY <2>1, <2>2, <3>2, Blocks
    <3> QED
      BY <1>5, <2>1, <2>2, <3>1, <3>3 DEF WholeBlocks
  <2>5. ASSUME ~ resaved
        PROVE  /\ Faithful(stream', taken)
               /\ \/ offset' = Len(stream') - Prologue
                  \/ offset' >= Len(taken) /\ Len(stream') - Prologue >= Len(taken)
    <3>1. /\ Faithful(stream, taken)
          /\ \/ offset = Len(stream) - Prologue
             \/ offset >= Len(taken) /\ Len(stream) - Prologue >= Len(taken)
      BY <2>0, <2>5 DEF IInv, EncryptInv
    <3>2. Len(taken) <= Len(picture) /\ \A k \in 1 .. Len(taken) : picture[k] = taken[k]
      BY <2>0, <2>5 DEF IInv, PictureInv
    <3>3. Len(chunk) = ChunkSize => Len(coded) = Len(chunk)
      BY <1>2, <1>3, SizesAssumption
    <3>4. \/ offset' = Len(stream') - Prologue
          \/ offset' >= Len(taken) /\ Len(stream') - Prologue >= Len(taken)
      <4>1. CASE Len(chunk) = ChunkSize /\ offset = Len(stream) - Prologue
        <5>1. Len(coded) = Len(chunk) /\ Len(stream') = Len(stream) + Len(coded)
          BY <1>5, <3>3, <4>1
        <5>2. offset' = offset + Len(chunk)
          BY <1>4
        <5> QED
          BY <2>1, <4>1, <5>1, <5>2
      <4>2. CASE offset + Len(chunk) = Len(picture) /\ offset = Len(stream) - Prologue
        BY <1>0, <1>4, <1>5, <2>1, <3>2, <4>2
      <4>3. CASE offset >= Len(taken) /\ Len(stream) - Prologue >= Len(taken)
        BY <1>0, <1>4, <1>5, <2>1, <4>3
      <4> QED
        BY <1>1, <3>1, <4>1, <4>2, <4>3
    <3>5. ASSUME NEW k \in 1 .. Len(stream'), k > Prologue, k - Prologue <= Len(taken)
          PROVE  stream'[k] = <<"cipher", taken[k - Prologue]>>
      <4>1. CASE k \in 1 .. Len(stream)
        BY <1>5, <3>1, <3>5, <4>1 DEF Faithful
      <4>2. CASE k - Len(stream) \in 1 .. Len(coded) /\ k = Len(stream) + (k - Len(stream))
        <5>1. k > Len(stream) /\ k - Prologue > Len(stream) - Prologue
          BY <2>1, <4>2
        <5>2. offset = Len(stream) - Prologue
          BY <2>1, <3>1, <3>5, <5>1
        <5>3. k - Len(stream) \in 1 .. Len(chunk) /\ offset + (k - Len(stream)) = k - Prologue
          BY <1>0, <1>1, <2>1, <3>2, <3>3, <3>5, <4>2, <5>2
        <5>4. stream'[k] = <<"cipher", picture[k - Prologue]>>
          BY <1>3, <1>5, <4>2, <5>3
        <5>5. k - Prologue \in 1 .. Len(taken)
          BY <2>1, <3>5
        <5> QED
          BY <3>2, <5>4, <5>5
      <4> QED
        BY <2>p, <4>1, <4>2
    <3> QED
      BY <3>4, <3>5 DEF Faithful
  <2> QED
    BY <1>6, <2>0, <2>3, <2>4, <2>5 DEF EncryptInv
<1>10. FileInv'
  <2>1. encrypted' = <<>> /\ ~ made'.whole
    BY <1>6 DEF IInv, EncryptInv, EncryptChunk
  <2> QED
    BY <2>1 DEF FileInv, Begins, Faithful
<1>11. DecryptInv' /\ DecryptsToPictureTaken'
  BY DEF IInv, FileOK, EncryptChunk, DecryptInv, DecryptsToPictureTaken, decryptVars
<1> QED
  BY <1>7, <1>8, <1>9, <1>10, <1>11 DEF IInv

LEMMA EncryptReturnsKeeps == ASSUME IInv, EncryptReturns PROVE IInv'
<1>0. /\ call = "encryptLoop" /\ encrypted' = stream
      /\ call' = "none" /\ offset' = 0 /\ stream' = <<>> /\ taken' = <<>> /\ resaved' = FALSE
      /\ made' = [made EXCEPT !.resaved = resaved, !.whole = TRUE]
      /\ UNCHANGED <<picture, savings, filesize, out, result>>
  BY DEF EncryptReturns, EndCall, pictureVars, decryptVars
<1>1. /\ made.from = taken /\ Begins(stream, taken) /\ WholeBlocks(stream)
      /\ ~ resaved =>
           /\ Faithful(stream, taken)
           /\ \/ offset = Len(stream) - Prologue
              \/ offset >= Len(taken) /\ Len(stream) - Prologue >= Len(taken)
  BY <1>0 DEF IInv, EncryptInv
<1>2. /\ made \in [from : Seq(PictureByte), resaved : BOOLEAN, whole : BOOLEAN]
      /\ picture \in Seq(PictureByte) /\ offset \in Nat /\ resaved \in BOOLEAN
      /\ stream \in Seq(Digit \union {IVByte} \union CipherByte)
      /\ taken \in Seq(PictureByte) /\ TypeOK /\ result = "none"
  BY <1>0 DEF IInv, FileOK, TypeOK
<1>3. /\ made' \in [from : Seq(PictureByte), resaved : BOOLEAN, whole : BOOLEAN]
      /\ made'.from = made.from /\ made'.whole /\ made'.resaved = resaved
  BY <1>0, <1>2
<1>4. FileOK'
  <2>1. TypeOK'
    BY <1>0, <1>2, <1>3, NothingIsSequence DEF TypeOK, Calls
  <2>2. Len(taken') = 0 /\ 0 <= MaxSize /\ Len(made'.from) <= MaxSize
    BY <1>0, <1>3, Numbers DEF IInv, FileOK
  <2> QED
    BY <1>0, <2>1, <2>2 DEF FileOK
<1>5. ~ resaved => Len(stream) - Prologue >= Len(taken)
  <2> SUFFICES ASSUME ~ resaved PROVE Len(stream) - Prologue >= Len(taken)
    OBVIOUS
  <2>1. Len(taken) <= Len(picture)
    BY <1>0 DEF IInv, PictureInv
  <2>2. offset >= Len(picture)
    BY <1>2, ReadIs DEF EncryptReturns
  <2>3. Len(taken) \in Nat /\ Len(picture) \in Nat /\ Len(stream) \in Nat /\ Prologue \in Nat
    BY <1>2, Numbers
  <2> QED
    BY <1>1, <1>2, <2>1, <2>2, <2>3
<1>6. FileInv'
  BY <1>0, <1>1, <1>3, <1>5 DEF FileInv
<1>7. PictureInv' /\ EncryptInv' /\ DecryptInv' /\ DecryptsToPictureTaken'
  BY <1>0, <1>2 DEF PictureInv, EncryptInv, DecryptInv, DecryptsToPictureTaken
<1> QED
  BY <1>4, <1>6, <1>7 DEF IInv

LEMMA EncryptIsCutKeeps == ASSUME IInv, EncryptIsCut PROVE IInv'
<1>0. /\ call \in {"encrypt", "encryptLoop"}
      /\ call' = "none" /\ offset' = 0 /\ stream' = <<>> /\ taken' = <<>> /\ resaved' = FALSE
      /\ UNCHANGED <<picture, savings, filesize, out, result>>
  BY DEF EncryptIsCut, EndCall, pictureVars, decryptVars
<1>1. /\ TypeOK /\ result = "none" /\ Len(made.from) <= MaxSize
      /\ made \in [from : Seq(PictureByte), resaved : BOOLEAN, whole : BOOLEAN]
      /\ stream \in Seq(Digit \union {IVByte} \union CipherByte)
      /\ encrypted \in Seq(Digit \union {IVByte} \union CipherByte)
      /\ resaved \in BOOLEAN
  BY <1>0 DEF IInv, FileOK, TypeOK
<1>2. /\ made' \in [from : Seq(PictureByte), resaved : BOOLEAN, whole : BOOLEAN]
      /\ made'.from = made.from
      /\ encrypted' \in Seq(Digit \union {IVByte} \union CipherByte)
      /\ FileInv'
  <2>1. CASE call = "encrypt"
    <3>1. UNCHANGED <<encrypted, made>>
      BY <2>1 DEF EncryptIsCut
    <3> QED
      BY <1>1, <3>1 DEF IInv, FileInv, Begins, Faithful, WholeBlocks
  <2>2. CASE call = "encryptLoop"
    <3>1. PICK n \in 0 .. Len(stream) : encrypted' = SubSeq(stream, 1, n)
      BY <2>2 DEF EncryptIsCut
    <3>2. /\ made' \in [from : Seq(PictureByte), resaved : BOOLEAN, whole : BOOLEAN]
          /\ made'.from = made.from /\ made'.whole = made.whole /\ made'.resaved = resaved
      BY <1>1, <2>2 DEF EncryptIsCut
    <3>3. /\ made.from = taken /\ ~ made.whole
          /\ Begins(stream, taken) /\ (~ resaved => Faithful(stream, taken))
      BY <2>2 DEF IInv, EncryptInv
    <3>4. /\ encrypted' \in Seq(Digit \union {IVByte} \union CipherByte)
          /\ Len(encrypted') = n
          /\ \A k \in 1 .. n : encrypted'[k] = stream[k] /\ k \in 1 .. Len(stream)
      BY <1>1, <3>1
    <3>5. Begins(encrypted', made'.from)
      BY <3>2, <3>3, <3>4 DEF Begins
    <3>6. ~ made'.resaved => Faithful(encrypted', made'.from)
      BY <3>2, <3>3, <3>4 DEF Faithful
    <3> QED
      BY <3>2, <3>3, <3>4, <3>5, <3>6 DEF FileInv
  <2> QED
    BY <1>0, <2>1, <2>2
<1>3. FileOK'
  <2>1. TypeOK'
    BY <1>0, <1>1, <1>2, NothingIsSequence DEF TypeOK, Calls
  <2>2. Len(taken') = 0 /\ 0 <= MaxSize /\ Len(made'.from) <= MaxSize
    BY <1>0, <1>1, <1>2, Numbers
  <2> QED
    BY <1>0, <2>1, <2>2 DEF FileOK
<1>4. PictureInv' /\ EncryptInv' /\ DecryptInv' /\ DecryptsToPictureTaken'
  BY <1>0, <1>1 DEF PictureInv, EncryptInv, DecryptInv, DecryptsToPictureTaken
<1> QED
  BY <1>2, <1>3, <1>4 DEF IInv


-----------------------------------------------------------------------------
(* Decryption                                                              *)

LEMMA ReadHeaderKeeps == ASSUME IInv, ReadHeader PROVE IInv'
<1>0. /\ call = "none" /\ UNCHANGED <<picture, savings, stream, encrypted, taken, resaved, made>>
      /\ TypeOK /\ Begins(encrypted, made.from)
      /\ encrypted \in Seq(Digit \union {IVByte} \union CipherByte)
      /\ made.from \in Seq(PictureByte) /\ Len(made.from) \in 0 .. MaxSize
  BY Numbers DEF IInv, FileOK, TypeOK, FileInv, ReadHeader, pictureVars
<1>1. CASE HeaderIsWhole
  <2>0. /\ call' = "decryptLoop" /\ filesize' = Number(Slice(0, HeaderSize))
        /\ offset' = HeaderSize + BlockSize /\ out' = <<>> /\ result' = "none"
    BY <1>1 DEF ReadHeader
  <2>1. Len(encrypted) >= Prologue
    <3>1. Len(Slice(HeaderSize, BlockSize)) = BlockSize
      BY <1>1 DEF HeaderIsWhole
    <3>2. Len(encrypted) \in Nat
      BY <1>0
    <3> DEFINE last == IF HeaderSize + BlockSize < Len(encrypted)
                       THEN HeaderSize + BlockSize ELSE Len(encrypted)
    <3>3. last \in Nat /\ last <= Len(encrypted)
      BY <3>2, Numbers
    <3>4. Slice(HeaderSize, BlockSize) = SubSeq(encrypted, HeaderSize + 1, last)
      BY DEF Slice
    <3>5. Len(SubSeq(encrypted, HeaderSize + 1, last)) =
            IF HeaderSize + 1 <= last THEN last - (HeaderSize + 1) + 1 ELSE 0
      BY <1>0, <3>3, Numbers
    <3> HIDE DEF last
    <3> QED
      BY <3>1, <3>2, <3>3, <3>4, <3>5, Numbers
  <2>2. filesize' = Len(made.from)
    <3> DEFINE h == Header(Len(made.from))
    <3>1. h \in Seq(Digit) /\ Len(h) = HeaderSize
      BY <1>0, HeaderIs
    <3>2. \A k \in 1 .. HeaderSize : (h \o IV)[k] = h[k]
      BY <1>0, PrologueIs
    <3>3. \A k \in 1 .. HeaderSize : encrypted[k] = h[k]
      <4>1. \A k \in 1 .. Len(encrypted) : k <= Prologue => encrypted[k] = (h \o IV)[k]
        BY <1>0 DEF Begins
      <4>2. \A k \in 1 .. HeaderSize : k \in 1 .. Len(encrypted) /\ k <= Prologue
        BY <1>0, <2>1, Numbers
      <4> HIDE DEF h
      <4> QED
        BY <3>2, <4>1, <4>2
    <3>4. Slice(0, HeaderSize) = SubSeq(encrypted, 1, HeaderSize)
      BY <1>0, <2>1, Numbers DEF Slice
    <3> HIDE DEF h
    <3>5. SubSeq(encrypted, 1, HeaderSize) = h
      <4>1. /\ SubSeq(encrypted, 1, HeaderSize) \in Seq(Digit \union {IVByte} \union CipherByte)
            /\ Len(SubSeq(encrypted, 1, HeaderSize)) = HeaderSize
            /\ \A k \in 1 .. HeaderSize : SubSeq(encrypted, 1, HeaderSize)[k] = encrypted[k]
        BY <1>0, <2>1, Numbers
      <4> QED
        BY <3>1, <3>3, <4>1
    <3> QED
      BY <1>0, <2>0, <3>4, <3>5, NumberOfHeader DEF h
  <2>3. FileOK'
    <3>1. TypeOK'
      BY <1>0, <2>0, <2>2, NothingIsSequence, Numbers DEF TypeOK, Calls
    <3> QED
      BY <1>0, <2>0, <3>1 DEF IInv, FileOK
  <2>4. DecryptInv'
    BY <1>0, <2>0, <2>1, <2>2, Numbers DEF DecryptInv
  <2>5. PictureInv' /\ EncryptInv' /\ DecryptsToPictureTaken'
    BY <2>0 DEF PictureInv, EncryptInv, DecryptsToPictureTaken
  <2>6. FileInv'
    BY <1>0 DEF IInv, FileInv, Begins, Faithful, WholeBlocks
  <2> QED
    BY <2>3, <2>4, <2>5, <2>6 DEF IInv
<1>2. CASE ~ HeaderIsWhole
  <2>0. call' = "none" /\ result' = "raised" /\ UNCHANGED <<filesize, offset, out>>
    BY <1>0, <1>2 DEF ReadHeader
  <2>1. ASSUME made.whole PROVE FALSE
    <3>1. Len(encrypted) >= Prologue /\ Len(encrypted) \in Nat
      BY <1>0, <2>1 DEF IInv, FileInv, WholeBlocks
    <3>2. Slice(0, HeaderSize) = SubSeq(encrypted, 1, HeaderSize)
      BY <3>1, Numbers DEF Slice
    <3>3. Len(SubSeq(encrypted, 1, HeaderSize)) = HeaderSize
      BY <1>0, <3>1, Numbers
    <3>4. Slice(HeaderSize, BlockSize) = SubSeq(encrypted, HeaderSize + 1, HeaderSize + BlockSize)
      BY <3>1, Numbers DEF Slice
    <3>5. Len(SubSeq(encrypted, HeaderSize + 1, HeaderSize + BlockSize)) = BlockSize
      BY <1>0, <3>1, Numbers
    <3>6. Slice(0, HeaderSize) # <<>>
      BY <3>2, <3>3, Numbers
    <3> QED
      BY <1>2, <3>4, <3>5, <3>6 DEF HeaderIsWhole
  <2>2. FileOK'
    BY <1>0, <2>0 DEF IInv, FileOK, TypeOK
  <2>3. DecryptsToPictureTaken'
    BY <1>0, <2>0, <2>1 DEF DecryptsToPictureTaken
  <2>4. PictureInv' /\ EncryptInv' /\ DecryptInv'
    BY <1>0, <2>0 DEF PictureInv, EncryptInv, DecryptInv
  <2>5. FileInv'
    BY <1>0 DEF IInv, FileInv, Begins, Faithful, WholeBlocks
  <2> QED
    BY <2>2, <2>3, <2>4, <2>5 DEF IInv
<1> QED
  BY <1>1, <1>2

\* What decrypt has before it when the next chunk is there.
LEMMA ChunkIs ==
  ASSUME IInv, call = "decryptLoop", read(encrypted) # <<>>
  PROVE  LET chunk == read(encrypted)
         IN  /\ chunk \in Seq(CipherByte)
             /\ offset + Len(chunk) <= Len(encrypted)
             /\ \A k \in 1 .. Len(chunk) : chunk[k] = encrypted[offset + k]
             /\ made.whole => Len(chunk) % BlockSize = 0
<1> DEFINE chunk == read(encrypted)
<1>0. /\ encrypted \in Seq(Digit \union {IVByte} \union CipherByte) /\ offset \in Nat
      /\ offset = Prologue + Len(out) /\ offset <= Len(encrypted) /\ Len(out) % BlockSize = 0
      /\ Len(out) \in Nat /\ Len(encrypted) \in Nat /\ Begins(encrypted, made.from)
  BY DEF IInv, FileOK, TypeOK, DecryptInv, FileInv
<1>1. /\ chunk \in Seq(Digit \union {IVByte} \union CipherByte)
      /\ Len(chunk) > 0 /\ offset + Len(chunk) <= Len(encrypted)
      /\ Len(chunk) = ChunkSize \/ offset + Len(chunk) = Len(encrypted)
      /\ \A k \in 1 .. Len(chunk) : chunk[k] = encrypted[offset + k]
  BY <1>0, ReadIs
<1> HIDE DEF chunk
<1>2. Len(chunk) \in Nat /\ Prologue \in Nat
  BY <1>1, Numbers
<1>3. \A k \in 1 .. Len(chunk) : chunk[k] \in CipherByte
  <2> SUFFICES ASSUME NEW k \in 1 .. Len(chunk) PROVE chunk[k] \in CipherByte
    OBVIOUS
  <2>1. offset + k \in 1 .. Len(encrypted) /\ offset + k > Prologue
    BY <1>0, <1>1, <1>2
  <2> QED
    BY <1>0, <1>1, <2>1 DEF Begins
<1>4. chunk \in Seq(CipherByte)
  BY <1>1, <1>3
<1>5. ASSUME made.whole PROVE Len(chunk) % BlockSize = 0
  <2>1. CASE Len(chunk) = ChunkSize
    BY <2>1, SizesAssumption
  <2>2. CASE offset + Len(chunk) = Len(encrypted)
    <3>1. Len(encrypted) >= Prologue /\ (Len(encrypted) - Prologue) % BlockSize = 0
      BY <1>5 DEF IInv, FileInv, WholeBlocks
    <3>2. Len(encrypted) - Prologue \in Nat /\ Len(encrypted) - Prologue >= Len(out)
      BY <1>0, <1>2, <3>1
    <3>3. ((Len(encrypted) - Prologue) - Len(out)) % BlockSize = 0
      BY <1>0, <3>1, <3>2, Blocks
    <3>4. (Len(encrypted) - Prologue) - Len(out) = Len(chunk)
      BY <1>0, <1>2, <2>2
    <3> QED
      BY <3>3, <3>4
  <2> QED
    BY <1>1, <2>1, <2>2
<1> QED
  BY <1>1, <1>4, <1>5 DEF chunk

LEMMA DecryptChunkKeeps == ASSUME IInv, DecryptChunk PROVE IInv'
<1> DEFINE chunk == read(encrypted)
           plain == cipher_decrypt(chunk)
<1>0. /\ call = "decryptLoop" /\ UNCHANGED <<picture, savings, encrypted, filesize, made>>
      /\ TypeOK /\ encrypted \in Seq(Digit \union {IVByte} \union CipherByte)
      /\ out \in Seq(PictureByte \union {Space, NUL}) /\ offset \in Nat
      /\ result = "none"
  BY DEF IInv, FileOK, TypeOK, DecryptChunk, pictureVars
<1>1. /\ chunk \in Seq(CipherByte)
      /\ offset + Len(chunk) <= Len(encrypted)
      /\ \A k \in 1 .. Len(chunk) : chunk[k] = encrypted[offset + k]
      /\ made.whole => Len(chunk) % BlockSize = 0
  BY <1>0, ChunkIs DEF DecryptChunk
<1> HIDE DEF chunk
<1>2. /\ offset = Prologue + Len(out) /\ filesize = Len(made.from)
      /\ Len(out) % BlockSize = 0
      /\ \A k \in 1 .. Len(out) : out[k] = encrypted[Prologue + k][2]
  BY <1>0 DEF IInv, DecryptInv
<1>f. FileInv'
  BY <1>0 DEF IInv, FileInv, Begins, Faithful, WholeBlocks
<1>3. CASE Len(chunk) % BlockSize = 0
  <2>0. out' = out \o plain /\ offset' = offset + Len(chunk)
        /\ UNCHANGED <<call, stream, result, taken, resaved>>
    BY <1>3 DEF DecryptChunk, chunk
  <2>1. /\ plain \in Seq(PictureByte \union {Space}) /\ Len(plain) = Len(chunk)
        /\ \A k \in 1 .. Len(chunk) : plain[k] = chunk[k][2]
    BY <1>1, CipherIs, DecryptedType
  <2> HIDE DEF plain
  <2>n. Len(chunk) \in Nat /\ Len(out) \in Nat /\ Prologue \in Nat
    BY <1>0, <1>1, Numbers
  <2>2. /\ out' \in Seq(PictureByte \union {Space, NUL})
        /\ Len(out') = Len(out) + Len(chunk)
        /\ \A k \in 1 .. Len(out) : out'[k] = out[k]
        /\ \A k \in 1 .. Len(chunk) : out'[Len(out) + k] = plain[k]
    <3>1. plain \in Seq(PictureByte \union {Space, NUL})
      BY <2>1
    <3>2. /\ out \o plain \in Seq(PictureByte \union {Space, NUL})
          /\ Len(out \o plain) = Len(out) + Len(plain)
          /\ \A k \in 1 .. Len(out) : (out \o plain)[k] = out[k]
          /\ \A k \in 1 .. Len(plain) : (out \o plain)[Len(out) + k] = plain[k]
      BY <1>0, <3>1
    <3> QED
      BY <2>0, <2>1, <3>2
  <2>3. FileOK'
    <3>1. offset' \in Nat
      BY <1>0, <2>0, <2>n
    <3> QED
      BY <1>0, <2>0, <2>2, <3>1 DEF IInv, FileOK, TypeOK
  <2>4. DecryptInv'
    <3>1. offset' = Prologue + Len(out') /\ offset' <= Len(encrypted)
      BY <1>1, <1>2, <2>0, <2>2, <2>n
    <3>2. Len(out') % BlockSize = 0
      BY <1>2, <1>3, <2>2, <2>n, Blocks
    <3>3. \A k \in 1 .. Len(out') : out'[k] = encrypted[Prologue + k][2]
      <4> SUFFICES ASSUME NEW k \in 1 .. Len(out') PROVE out'[k] = encrypted[Prologue + k][2]
        OBVIOUS
      <4>1. CASE k \in 1 .. Len(out)
        BY <1>2, <2>2, <4>1
      <4>2. CASE k - Len(out) \in 1 .. Len(chunk)
        <5>1. out'[Len(out) + (k - Len(out))] = chunk[k - Len(out)][2]
          BY <2>1, <2>2, <4>2
        <5>2. chunk[k - Len(out)] = encrypted[offset + (k - Len(out))]
          BY <1>1, <4>2
        <5>3. Len(out) + (k - Len(out)) = k /\ offset + (k - Len(out)) = Prologue + k
          BY <1>2, <2>n
        <5> QED
          BY <5>1, <5>2, <5>3
      <4>3. k \in 1 .. Len(out) \/ k - Len(out) \in 1 .. Len(chunk)
        BY <2>2, <2>n
      <4> QED
        BY <4>1, <4>2, <4>3
    <3> QED
      BY <1>0, <1>2, <3>1, <3>2, <3>3 DEF DecryptInv
  <2>5. PictureInv' /\ EncryptInv' /\ DecryptsToPictureTaken'
    BY <1>0, <2>0 DEF PictureInv, EncryptInv, DecryptsToPictureTaken
  <2> QED
    BY <1>f, <2>3, <2>4, <2>5 DEF IInv
<1>4. CASE Len(chunk) % BlockSize # 0
  <2>0. /\ call' = "none" /\ offset' = 0 /\ stream' = <<>> /\ taken' = <<>> /\ resaved' = FALSE
        /\ result' = "raised" /\ out' = out
    BY <1>4 DEF DecryptChunk, EndCall, chunk
  <2>1. FileOK'
    <3>1. TypeOK'
      BY <1>0, <2>0, NothingIsSequence DEF TypeOK, Calls
    <3>2. Len(taken') = 0 /\ 0 <= MaxSize /\ Len(made'.from) <= MaxSize
      BY <1>0, <2>0, Numbers DEF IInv, FileOK
    <3> QED
      BY <2>0, <3>1, <3>2 DEF FileOK
  <2>2. ~ made.whole
    BY <1>1, <1>4
  <2>3. PictureInv' /\ EncryptInv' /\ DecryptInv' /\ DecryptsToPictureTaken'
    BY <1>0, <2>0, <2>2 DEF PictureInv, EncryptInv, DecryptInv, DecryptsToPictureTaken
  <2> QED
    BY <1>f, <2>1, <2>3 DEF IInv
<1> QED
  BY <1>3, <1>4

LEMMA DecryptReturnsKeeps == ASSUME IInv, DecryptReturns PROVE IInv'
<1>0. /\ call = "decryptLoop" /\ read(encrypted) = <<>>
      /\ call' = "none" /\ offset' = 0 /\ stream' = <<>> /\ taken' = <<>> /\ resaved' = FALSE
      /\ out' = truncate(out, filesize) /\ result' = "returned"
      /\ UNCHANGED <<picture, savings, encrypted, filesize, made>>
  BY DEF DecryptReturns, EndCall, pictureVars
<1>1. /\ TypeOK /\ encrypted \in Seq(Digit \union {IVByte} \union CipherByte)
      /\ out \in Seq(PictureByte \union {Space, NUL}) /\ offset \in Nat
      /\ made.from \in Seq(PictureByte) /\ Len(made.from) <= MaxSize /\ made.resaved \in BOOLEAN
  BY DEF IInv, FileOK, TypeOK
<1> DEFINE m == Len(made.from)
<1>2. /\ offset = Prologue + Len(out) /\ offset <= Len(encrypted) /\ filesize = m
      /\ \A k \in 1 .. Len(out) : out[k] = encrypted[Prologue + k][2]
  BY <1>0 DEF IInv, DecryptInv
<1>n. /\ Len(out) \in Nat /\ Len(encrypted) \in Nat /\ Prologue \in Nat /\ m \in Nat
  BY <1>1, Numbers
<1>3. Len(encrypted) = Prologue + Len(out)
  <2>1. offset >= Len(encrypted)
    BY <1>0, <1>1, ReadIs
  <2> QED
    BY <1>1, <1>2, <1>n, <2>1
<1>4. /\ out' = [k \in 1 .. m |-> IF k <= Len(out) THEN out[k] ELSE NUL]
      /\ Len(out') = m
  BY <1>0, <1>2, <1>n DEF truncate
<1>5. out' \in Seq(PictureByte \union {Space, NUL})
  <2>1. \A k \in 1 .. m : k <= Len(out) => out[k] \in PictureByte \union {Space, NUL}
    BY <1>1, <1>n
  <2>2. \A k \in 1 .. m :
          (IF k <= Len(out) THEN out[k] ELSE NUL) \in PictureByte \union {Space, NUL}
    BY <2>1
  <2> QED
    BY <1>n, <1>4, <2>2
<1>6. FileOK'
  <2>1. TypeOK'
    BY <1>0, <1>1, <1>5, NothingIsSequence DEF TypeOK, Calls
  <2>2. Len(taken') = 0 /\ 0 <= MaxSize /\ Len(made'.from) <= MaxSize
    BY <1>0, <1>1, Numbers
  <2> QED
    BY <1>0, <2>1, <2>2 DEF FileOK
<1>7. ASSUME ~ made.resaved
      PROVE  \E n \in 0 .. m : out' = Restored(n) /\ (made.whole => n = m)
  <2> DEFINE n == IF Len(out) < m THEN Len(out) ELSE m
             kept == SubSeq(made.from, 1, n)
  <2>1. n \in 0 .. m /\ n <= Len(out) /\ (n = Len(out) \/ n = m)
    BY <1>n
  <2>2. made.whole => n = m
    <3>1. made.whole => Len(encrypted) - Prologue >= m
      BY <1>7 DEF IInv, FileInv
    <3> QED
      BY <1>3, <1>n, <3>1
  <2> HIDE DEF n
  <2>3. Len(kept) = n /\ \A k \in 1 .. n : kept[k] = made.from[k]
    BY <1>1, <1>n, <2>1
  <2> HIDE DEF kept
  <2>4. \A k \in 1 .. n : out[k] = made.from[k]
    <3> SUFFICES ASSUME NEW k \in 1 .. n PROVE out[k] = made.from[k]
      OBVIOUS
    <3>1. /\ Prologue + k \in 1 .. Len(encrypted) /\ Prologue + k > Prologue
          /\ (Prologue + k) - Prologue = k /\ k <= m /\ k \in 1 .. Len(out)
      BY <1>3, <1>n, <2>1
    <3>2. encrypted[Prologue + k] = <<"cipher", made.from[k]>>
      BY <1>7, <3>1 DEF IInv, FileInv, Faithful
    <3> QED
      BY <1>2, <3>1, <3>2
  <2>5. \A k \in 1 .. m : (IF k <= Len(out) THEN out[k] ELSE NUL) = IF k <= Len(kept) THEN kept[k] ELSE NUL
    <3> SUFFICES ASSUME NEW k \in 1 .. m
                 PROVE (IF k <= Len(out) THEN out[k] ELSE NUL) = IF k <= Len(kept) THEN kept[k] ELSE NUL
      OBVIOUS
    <3>1. CASE k <= n
      <4>1. k \in 1 .. n /\ k <= Len(out) /\ k <= Len(kept)
        BY <1>n, <2>1, <2>3, <3>1
      <4> QED
        BY <2>3, <2>4, <4>1
    <3>2. CASE ~ (k <= n)
      <4>1. ~ (k <= Len(out)) /\ ~ (k <= Len(kept))
        BY <1>n, <2>1, <2>3, <3>2
      <4> QED
        BY <4>1
    <3> QED
      BY <3>1, <3>2
  <2>6. Restored(n) = [k \in 1 .. m |-> IF k <= Len(kept) THEN kept[k] ELSE NUL]
    BY DEF Restored, truncate, kept
  <2>7. out' = Restored(n)
    BY <1>4, <2>5, <2>6
  <2> QED
    BY <2>1, <2>2, <2>7
<1>8. DecryptsToPictureTaken'
  <2>1. Restored(0)' = Restored(0) /\ \A n : Restored(n)' = Restored(n)
    BY <1>0 DEF Restored, truncate
  <2> QED
    BY <1>0, <1>4, <1>7, <2>1 DEF DecryptsToPictureTaken
<1>9. PictureInv' /\ EncryptInv' /\ DecryptInv'
  BY <1>0 DEF PictureInv, EncryptInv, DecryptInv
<1>10. FileInv'
  BY <1>0 DEF IInv, FileInv, Begins, Faithful, WholeBlocks
<1> QED
  BY <1>6, <1>8, <1>9, <1>10 DEF IInv

LEMMA DecryptIsCutKeeps == ASSUME IInv, DecryptIsCut PROVE IInv'
<1>0. /\ call = "decryptLoop" /\ TypeOK /\ result = "none"
      /\ call' = "none" /\ offset' = 0 /\ stream' = <<>> /\ taken' = <<>> /\ resaved' = FALSE
      /\ UNCHANGED <<picture, savings, encrypted, filesize, out, result, made>>
  BY DEF IInv, FileOK, DecryptIsCut, EndCall, pictureVars, decryptVars
<1>1. FileOK'
  <2>1. TypeOK'
    BY <1>0, NothingIsSequence DEF TypeOK, Calls
  <2>2. Len(taken') = 0 /\ 0 <= MaxSize /\ Len(made'.from) <= MaxSize
    BY <1>0, Numbers DEF IInv, FileOK
  <2> QED
    BY <1>0, <2>1, <2>2 DEF FileOK
<1>2. PictureInv' /\ EncryptInv' /\ DecryptInv' /\ DecryptsToPictureTaken'
  BY <1>0 DEF PictureInv, EncryptInv, DecryptInv, DecryptsToPictureTaken
<1>3. FileInv'
  BY <1>0 DEF IInv, FileInv, Begins, Faithful, WholeBlocks
<1> QED
  BY <1>1, <1>2, <1>3 DEF IInv

LEMMA StutterKeeps == ASSUME IInv, UNCHANGED vars PROVE IInv'
<1>0. UNCHANGED <<picture, savings, call, offset, stream, encrypted, filesize, out, result,
                  taken, resaved, made>>
  BY DEF vars, pictureVars, decryptVars
<1>1. FileOK' /\ PictureInv' /\ DecryptInv'
  BY <1>0 DEF IInv, FileOK, TypeOK, PictureInv, DecryptInv
<1>2. EncryptInv' /\ FileInv'
  BY <1>0 DEF IInv, EncryptInv, FileInv, Begins, Faithful, WholeBlocks
<1>3. DecryptsToPictureTaken'
  BY <1>0 DEF IInv, DecryptsToPictureTaken, Restored, truncate
<1> QED
  BY <1>1, <1>2, <1>3 DEF IInv

\* The invariant holds however the saving of the picture, the calls and their
\* being cut off are interleaved.
THEOREM InvariantHolds == Spec => []IInv
<1>1. IInv /\ [Next]_vars => IInv'
  BY SaveAnewKeeps, GrowKeeps, GetSizeKeeps, WriteHeaderKeeps, EncryptChunkKeeps,
     EncryptReturnsKeeps, EncryptIsCutKeeps, ReadHeaderKeeps, DecryptChunkKeeps,
     DecryptReturnsKeeps, DecryptIsCutKeeps, StutterKeeps DEF Next
<1> QED
  BY <1>1, InitOK, PTL DEF Spec

\* Whatever is saved or cut off meanwhile, decrypt never writes a byte that
\* comes from size or IV, and never reads a size no picture has (aes.py 11-42).
THEOREM TypeCorrect == Spec => []TypeOK
<1>1. IInv => TypeOK
  BY DEF IInv, FileOK
<1> QED
  BY <1>1, InvariantHolds, PTL

\* decrypt undoes encrypt for pictures, blocks, chunks and headers of any size:
\* a picture that only grew meanwhile is restored as it was when its size was
\* asked for, an encryption that was cut off leaves its beginning, and a
\* finished file is never refused (aes.py 11-42).
THEOREM PictureTakenComesBack == Spec => []DecryptsToPictureTaken
<1>1. IInv => DecryptsToPictureTaken
  BY DEF IInv
<1> QED
  BY <1>1, InvariantHolds, PTL
=============================================================================

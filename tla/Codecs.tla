------------------------------ MODULE Codecs ------------------------------
(***************************************************************************)
(* The text encodings every binary field of the API goes through: base64   *)
(* (common/src/utils/base64/base64.h), hexadecimal (fast-hex/hex.cpp), the *)
(* "b64:" and "hex:" formats of BinEncoding.h with the bounded fields of   *)
(* BinVector.h and BinArray.h, the identifiers of uuid.h, and the Base32   *)
(* of the one-time-password secrets (Base32Decoder.h).  Each is an         *)
(* operator; the state only enumerates inputs, one symbol a step.          *)
(*                                                                         *)
(* A byte is a number below 256.  A character is its index in the base64   *)
(* alphabet, A..Z a..z 0..9 + /, with three numbers above it for the       *)
(* padding sign, the dash, and every other character.                      *)
(***************************************************************************)
EXTENDS Layouts

CONSTANTS
  SampleBytes,  \* the bytes inputs are made of
  SampleChars,  \* the characters inputs are made of
  MaxBytes,     \* bound: bytes of an input
  MaxChars      \* bound: characters of an input

ASSUME CodecAssumption == SampleBytes \subseteq 0..255 /\ MaxBytes \in Nat

VARIABLES bytes, text
codecVars == <<bytes, text>>

Sextets == 0..63
Pad == 64
Dash == 65
Junk == 66

-----------------------------------------------------------------------------
(* Base64.  A table entry of the decoder holds the six bits where they go  *)
(* in the three bytes of a group; a character outside the alphabet has     *)
(* bad_char, which no sum of good entries reaches.                         *)

EncodeTable0(t) == t \div 4
EncodeTable1(t) == t % 64

BadChar == 2^25 - 1
DecodeTable0(c) == IF c \in Sextets THEN c * 2^18 ELSE BadChar
DecodeTable1(c) == IF c \in Sextets THEN c * 2^12 ELSE BadChar
DecodeTable2(c) == IF c \in Sextets THEN c * 2^6 ELSE BadChar
DecodeTable3(c) == IF c \in Sextets THEN c ELSE BadChar

EncodeGroup(t1, t2, t3) ==
  << EncodeTable0(t1),
     EncodeTable1((t1 % 4) * 16 + t2 \div 16),
     EncodeTable1((t2 % 16) * 4 + t3 \div 64),
     EncodeTable1(t3) >>

\* The buffer is prefilled with padding: a tail of one byte writes two
\* characters over it, a tail of two bytes three.
EncodeTail1(t1) ==
  LET g == EncodeGroup(t1, 0, 0) IN <<g[1], g[2], Pad, Pad>>
EncodeTail2(t1, t2) ==
  LET g == EncodeGroup(t1, t2, 0) IN <<g[1], g[2], g[3], Pad>>

\* The slip a tail of two bytes invites: its last character is not shifted.
EncodeTailUnshifted(rest) ==
  LET g == EncodeGroup(rest[1], rest[2], 0) IN
  CASE Len(rest) = 0 -> <<>>
    [] Len(rest) = 1 -> EncodeTail1(rest[1])
    [] Len(rest) = 2 -> <<g[1], g[2], EncodeTable1(rest[2] % 16), Pad>>

EncodeTail(rest) ==
  CASE Len(rest) = 0 -> <<>>
    [] Len(rest) = 1 -> EncodeTail1(rest[1])
    [] Len(rest) = 2 -> EncodeTail2(rest[1], rest[2])

\* Group after group, then the tail.
EncodeInto(data) ==
  LET full == Len(data) \div 3
      Group(i) == EncodeGroup(data[3 * i - 2], data[3 * i - 1], data[3 * i])
  IN  [k \in 1..(4 * full) |-> Group((k + 3) \div 4)[1 + ((k - 1) % 4)]]
        \o EncodeTail(SubSeq(data, 3 * full + 1, Len(data)))

\* The bytes of one group whose table entries add up to temp.
GroupBytes(temp) == <<temp \div 2^16, (temp \div 2^8) % 256, temp % 256>>

DecodeGroup(t1, t2, t3, t4) ==
  DecodeTable0(t1) + DecodeTable1(t2) + DecodeTable2(t3) + DecodeTable3(t4)

\* A tail that leaves out the bits of its third character.
DecodeTailOfTwo(t1, t2, t3, padding) == DecodeTable0(t1) + DecodeTable1(t2)

\* The last group, with its padding: a character less, a byte less.
DecodeTail(t1, t2, t3, padding) ==
  IF padding = 1 THEN DecodeTable0(t1) + DecodeTable1(t2) + DecodeTable2(t3)
                 ELSE DecodeTable0(t1) + DecodeTable1(t2)

\* Of the last four characters.
NumPadding(t) ==
  LET One(i) == IF t[i] = Pad THEN 1 ELSE 0  n == Len(t) IN
  One(n - 3) + One(n - 2) + One(n - 1) + One(n)

DecodeInto(t) ==
  LET n == Len(t)
      padding == NumPadding(t)
      full == (n \div 4) - (IF padding # 0 THEN 1 ELSE 0)
      Temp(i) == DecodeGroup(t[4 * i - 3], t[4 * i - 2], t[4 * i - 1], t[4 * i])
      tail == DecodeTail(t[n - 3], t[n - 2], t[n - 1], padding)
  IN  CASE n = 0 -> Ok(<<>>)
        [] n % 4 # 0 -> Invalid
        [] OTHER ->
             IF \/ padding > 2
                \/ \E i \in 1..full : Temp(i) >= BadChar
                \/ padding # 0 /\ tail >= BadChar
               THEN Invalid
               ELSE Ok([k \in 1..(3 * full) |->
                          GroupBytes(Temp((k + 2) \div 3))[1 + ((k - 1) % 3)]]
                        \o IF padding = 0 THEN <<>>
                           ELSE SubSeq(GroupBytes(tail), 1, 3 - padding))

-----------------------------------------------------------------------------
(* Hexadecimal.  The table has UINT8_MAX for a character that is no digit, *)
(* and the decoder uses it as it uses a digit.                             *)

HexDigit(v) == IF v < 10 THEN 52 + v ELSE 16 + v

UnhexTable(c) ==
  CASE c \in 52..61 -> c - 52
    [] c \in 26..31 -> c - 16
    [] c \in 0..5 -> c + 10
    [] OTHER -> 255

UnhexTable4(c) == IF UnhexTable(c) = 255 THEN 255 ELSE UnhexTable(c) * 16

EncodeHex(data) ==
  [k \in 1..(2 * Len(data)) |->
     LET byte == data[(k + 1) \div 2] IN
     HexDigit(IF k % 2 = 1 THEN byte \div 16 ELSE byte % 16)]

\* a | b, where all ones on either side leave all ones
DecodeHexByte(a, b) ==
  IF 255 \in {UnhexTable4(a), UnhexTable(b)} THEN 255
  ELSE UnhexTable4(a) + UnhexTable(b)

DecodeHex(t) ==
  IF Len(t) % 2 # 0 THEN Invalid
  ELSE Ok([i \in 1..(Len(t) \div 2) |-> DecodeHexByte(t[2 * i - 1], t[2 * i])])

-----------------------------------------------------------------------------
(* Binary fields of the API: a prefix names the encoding of the rest, and  *)
(* a field of the wrong size is refused when the JSON is read.             *)

Format(data) == [prefix |-> "b64:", body |-> EncodeInto(data)]
FormatHex(data) == [prefix |-> "hex:", body |-> EncodeHex(data)]

DecodeFormat(field) ==
  CASE field.prefix = "b64:" -> DecodeInto(field.body)
    [] field.prefix = "hex:" -> DecodeHex(field.body)
    [] OTHER -> Invalid

ReadBinVector(field, min, max) ==
  LET decoded == DecodeFormat(field) IN
  IF decoded.ok /\ Len(decoded.data) \in min..max THEN decoded ELSE Invalid

ReadBinArray(field, n) ==
  LET decoded == DecodeFormat(field) IN
  IF decoded.ok /\ Len(decoded.data) = n THEN decoded ELSE Invalid

-----------------------------------------------------------------------------
(* Identifiers: sixteen bytes, printed in groups with four dashes.         *)

NullUuid == [i \in 1..16 |-> 0]

ValidV4(d) == d = NullUuid \/ (d[7] \div 16 = 4 /\ d[9] \div 64 = 2)

\* What a fresh identifier is made of the random bytes drawn for it.
Generate(random) ==
  [random EXCEPT ![7] = (@ % 16) + 64, ![9] = (@ % 64) + 128]

UuidToString(d) ==
  LET h == EncodeHex(d) IN
  SubSeq(h, 1, 8) \o <<Dash>> \o SubSeq(h, 9, 12) \o <<Dash>> \o
  SubSeq(h, 13, 16) \o <<Dash>> \o SubSeq(h, 17, 20) \o <<Dash>> \o SubSeq(h, 21, 32)

HexVal(c) == IF UnhexTable(c) = 255 THEN -1 ELSE UnhexTable(c)

\* A turn of the loop of fromString: a dash anywhere is skipped, any other
\* character is read with the one after it, and the first bad pair ends the
\* reading.  Past the last character stands the NUL that ends the string.
ReadPair(s, acc, i) ==
  LET low == IF i < Len(s) THEN s[i + 1] ELSE Junk IN
  IF acc.bad \/ i < acc.next \/ s[i] = Dash THEN acc
  ELSE IF HexVal(s[i]) < 0 \/ HexVal(low) < 0
    THEN [bad |-> TRUE, next |-> acc.next, data |-> acc.data]
    ELSE [bad |-> FALSE, next |-> i + 2,
          data |-> Append(acc.data, HexVal(s[i]) * 16 + HexVal(low))]

ReadPairs(s) ==
  LET after[i \in 0..Len(s)] ==
        IF i = 0 THEN [bad |-> FALSE, next |-> 1, data |-> <<>>]
        ELSE ReadPair(s, after[i - 1], i)
  IN  after

UuidFromString(s) ==
  LET read == ReadPairs(s)[Len(s)]
      data == [i \in 1..16 |-> IF i <= Len(read.data) THEN read.data[i] ELSE 0]
  IN  IF \/ Len(s) # 36
         \/ \E i \in {9, 14, 19, 24} : s[i] # Dash
         \/ read.bad
         \/ ~ValidV4(data)
        THEN NullUuid
        ELSE data

-----------------------------------------------------------------------------
(* Base32, of the secret of a one-time password: five bits a character,    *)
(* a byte as soon as there are eight; left-over bits are dropped.          *)

Base32Value(c) ==
  CASE c \in 0..25 -> c
    [] c \in 54..59 -> c - 28
    [] OTHER -> -1

\* What the next character adds to the bits that wait for a byte.  Of the
\* buffer's 64 bits those above the thirteenth are never read again.
Base32Step(acc, c) ==
  LET buffer == (acc.buffer * 32 + Base32Value(c)) % 2^13
      bits == acc.bits + 5
  IN  IF bits < 8 THEN [buffer |-> buffer, bits |-> bits, data |-> acc.data]
      ELSE [buffer |-> buffer, bits |-> bits - 8,
            data |-> Append(acc.data, (buffer \div 2^(bits - 8)) % 256)]

Base32Read(t, last) ==
  LET after[i \in 0..last] ==
        IF i = 0 THEN [buffer |-> 0, bits |-> 0, data |-> <<>>]
        ELSE Base32Step(after[i - 1], t[i])
  IN  after

DecodeBase32(t) ==
  LET last == CHOOSE n \in 0..Len(t) :
                /\ \A i \in (n + 1)..Len(t) : t[i] = Pad
                /\ n > 0 => t[n] # Pad
  IN  IF \E i \in 1..last : Base32Value(t[i]) = -1 THEN Invalid
      ELSE Ok(Base32Read(t, last)[last].data)

-----------------------------------------------------------------------------
(* Inputs: a sequence of bytes, or a text, that grows. *)

CodecInit == bytes = <<>> /\ text = <<>>

MoreBytes ==
  /\ text = <<>>
  /\ Len(bytes) < MaxBytes
  /\ \E b \in SampleBytes : bytes' = Append(bytes, b)
  /\ UNCHANGED text

MoreText ==
  /\ bytes = <<>>
  /\ Len(text) < MaxChars
  /\ \E c \in SampleChars : text' = Append(text, c)
  /\ UNCHANGED bytes

CodecNext == MoreBytes \/ MoreText
CodecSpec == CodecInit /\ [][CodecNext]_codecVars

-----------------------------------------------------------------------------
(* The input again and again, up to a length: what is drawn for an         *)
(* identifier or a nonce, a hash, a signature.                             *)
Repeated(n) == [i \in 1..n |-> bytes[1 + ((i - 1) % Len(bytes))]]

\* The bits a text stands for, most significant first, and their bytes: the
\* definition of base64 and of Base32, independent of groups and tables.
BitsOf(values, width) ==
  [i \in 1..(width * Len(values)) |->
     (values[1 + (i - 1) \div width] \div 2^(width - 1 - ((i - 1) % width))) % 2]

BytesOf(bits) ==
  [i \in 1..(Len(bits) \div 8) |->
     LET Bit(k) == bits[8 * (i - 1) + k] IN
     128 * Bit(1) + 64 * Bit(2) + 32 * Bit(3) + 16 * Bit(4)
       + 8 * Bit(5) + 4 * Bit(6) + 2 * Bit(7) + Bit(8)]

\* The digits of a one-time password are the 31 bits after the top bit of
\* the byte that the hash's last four bits number, as a decimal remainder.
TotpIsOfBits(hash) ==
  LET bits == BitsOf(hash, 8)
      offset == BytesOf(<<0, 0, 0, 0>> \o SubSeq(bits, 157, 160))[1]
      code == BytesOf(<<0>> \o SubSeq(bits, 8 * offset + 2, 8 * offset + 32))
  IN  GenerateTotp(hash)
        = (code[1] * 2^24 + code[2] * 2^16 + code[3] * 2^8 + code[4]) % 1000000

(* A strict reader of DER, as the server's verifier has: the content of    *)
(* the integer that starts at i, which is positive and not longer than it  *)
(* must be, and whether two byte sequences are the same number.            *)
IntegerAt(der, i) == SubSeq(der, i + 2, i + 1 + der[i + 1])
IsMinimal(content) ==
  /\ content # <<>> /\ content[1] < 128
  /\ Len(content) > 1 /\ content[1] = 0 => content[2] >= 128
FromEnd(span, k) == IF k < Len(span) THEN span[Len(span) - k] ELSE 0
SameNumber(a, b) == \A k \in 0..(Len(a) + Len(b)) : FromEnd(a, k) = FromEnd(b, k)

ReadsAs(der, r, s) ==
  LET next == 5 + der[4] IN
  /\ der[1] = 48 /\ der[2] = Len(der) - 2 /\ der[2] < 128
  /\ der[3] = 2 /\ der[next] = 2 /\ next + 1 + der[next + 1] = Len(der)
  /\ IsMinimal(IntegerAt(der, 3)) /\ SameNumber(IntegerAt(der, 3), r)
  /\ IsMinimal(IntegerAt(der, next)) /\ SameNumber(IntegerAt(der, next), s)

\* A signature of any size that fits the short form of DER is written as
\* its two numbers; one that does not fit is refused, never cut.
SignatureReads(signature) ==
  LET half == Len(signature) \div 2
      r == SubSeq(signature, 1, half)
      s == SubSeq(signature, half + 1, Len(signature))
      der == ExportSignatureToDER(signature)
  IN  /\ der.ok => ReadsAs(der.data, r, s)
      /\ (signature # <<>> /\ Len(signature) % 2 = 0 /\ Len(signature) <= 120)
           => der.ok

\* A sealed value opens under its own key derivation only, and a prefix of
\* it is never taken for a whole envelope's header.
EnvelopeReads(kdf) ==
  LET envelope == EncodeEnvelope(bytes, kdf, Repeated(IvLen), Repeated(TagLen)) IN
  /\ \A other \in Kdfs :
       DecodeEnvelope(envelope, other) = IF other = kdf THEN Ok(bytes) ELSE Invalid
  /\ \A n \in 0..(3 + IvLen + TagLen) :
       ~DecodeEnvelope(SubSeq(envelope, 1, n), kdf).ok

\* What is written is read back: a binary field of any length in either
\* format, a field of fixed or bounded size exactly when its size is
\* allowed, an envelope, and a device's signature.  (A wrong shift in the
\* tail of a group, a header read with a byte too few, a number with its
\* high bit set, shows here.)
EncodingsInvert ==
  /\ DecodeFormat(Format(bytes)) = Ok(bytes)
  /\ DecodeFormat(FormatHex(bytes)) = Ok(bytes)
  /\ \A n \in 0..MaxBytes :
       /\ ReadBinArray(Format(bytes), n).ok <=> Len(bytes) = n
       /\ ReadBinVector(FormatHex(bytes), n, n + 1).ok <=> Len(bytes) \in {n, n + 1}
  /\ SignatureReads(bytes)
  /\ bytes # <<>> =>
       /\ \A kdf \in Kdfs : EnvelopeReads(kdf)
       /\ \A n \in 60..62 : SignatureReads(Repeated(2 * n))

\* The first n characters are digits, the others padding.
IsPadded(t, n, digits) ==
  \A i \in 1..Len(t) : IF i <= n THEN t[i] \in digits ELSE t[i] = Pad

\* Groups of four characters, of which the last one or two may be padding.
IsBase64(t) ==
  /\ Len(t) % 4 = 0
  /\ \E padding \in 0..2 : IsPadded(t, Len(t) - padding, Sextets)

Base64Decodes(t) ==
  LET read == DecodeInto(t) IN
  /\ read.ok <=> IsBase64(t)
  /\ read.ok => \A n \in 0..Len(t) :
       IsPadded(t, n, Sextets) => read.data = BytesOf(BitsOf(SubSeq(t, 1, n), 6))

Base32Digits == (0..25) \cup (54..59)
Base32Decodes(t) ==
  LET read == DecodeBase32(t) IN
  /\ read.ok <=> \E n \in 0..Len(t) : IsPadded(t, n, Base32Digits)
  /\ \A n \in 0..Len(t) : IsPadded(t, n, Base32Digits) =>
       read.data = BytesOf(BitsOf([i \in 1..n |-> Base32Value(t[i])], 5))

\* Texts of even length are accepted, and bytes of digits print as the same
\* digits.
HexDecodes(t) ==
  LET read == DecodeHex(t)
      printed == EncodeHex(read.data)
  IN  /\ read.ok <=> Len(t) % 2 = 0
      /\ read.ok /\ (\A i \in 1..Len(t) : UnhexTable(t[i]) # 255) =>
           /\ Len(printed) = Len(t)
           /\ \A i \in 1..Len(t) : UnhexTable(printed[i]) = UnhexTable(t[i])

\* Texts the decoders accept, and what they make of them: a base64 text is
\* accepted exactly when its length is a multiple of four and only its last
\* one or two characters are padding, a Base32 text exactly when only its
\* end is padding and the rest is in the alphabet, and both give the bytes
\* their bits stand for.  A hexadecimal text of even length is accepted
\* whatever it holds; digits give their bytes, and the bytes print as the
\* same digits.  A new identifier, which is never the null one that a failed
\* reading gives, is accepted as it is printed, and a one-time password has
\* the digits of its hash.
AcceptedTextDecodes ==
  /\ Base64Decodes(text)
  /\ HexDecodes(text)
  /\ Base32Decodes(text)
  /\ bytes # <<>> =>
       LET id == Generate(Repeated(16)) IN
       /\ id # NullUuid
       /\ UuidFromString(UuidToString(id)) = id
       /\ TotpIsOfBits(Repeated(20))
=============================================================================

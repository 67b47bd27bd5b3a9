--------------------------- MODULE Helpers_proofs ---------------------------
(***************************************************************************)
(* Proofs about the helpers.  The codecs: whatever bytes a binary field,   *)
(* an envelope or a signature is made of, and however many, what is        *)
(* written is read back.  The password dialog: what is on display fits its *)
(* controls.  The icons: rows show those the program has, and no domain is *)
(* asked for more often than there are providers.  And the texts that the  *)
(* readers accept give the bytes their bits stand for, also where a loop   *)
(* reads them.                                                             *)
(***************************************************************************)
EXTENDS Codecs, GeneratePassword, Favicons, TLAPS,
        FiniteSetTheorems, SequenceTheorems, WellFoundedInduction

-----------------------------------------------------------------------------
(***************************************************************************)
(* Base64 and hexadecimal.                                                 *)
(***************************************************************************)
Byte == 0..255
ByteSeq == Seq(Byte)

(* The four characters of three bytes, and what their entries add up to.   *)
Char1(t1) == t1 \div 4
Char2(t1, t2) == (t1 % 4) * 16 + t2 \div 16
Char3(t2, t3) == (t2 % 16) * 4 + t3 \div 64
Char4(t3) == t3 % 64

(* They are characters of the alphabet, and those the encoder writes.      *)
LEMMA CharsAre ==
    ASSUME NEW t1 \in Byte, NEW t2 \in Byte, NEW t3 \in Byte
    PROVE  /\ Char1(t1) \in Sextets /\ Char2(t1, t2) \in Sextets
           /\ Char3(t2, t3) \in Sextets /\ Char4(t3) \in Sextets
           /\ EncodeGroup(t1, t2, t3) = <<Char1(t1), Char2(t1, t2), Char3(t2, t3), Char4(t3)>>
<1>1. /\ Char1(t1) \in Sextets /\ Char2(t1, t2) \in Sextets
      /\ Char3(t2, t3) \in Sextets /\ Char4(t3) \in Sextets
  BY DEF Byte, Sextets, Char1, Char2, Char3, Char4
<1>2. /\ EncodeTable0(t1) = Char1(t1)
      /\ EncodeTable1((t1 % 4) * 16 + t2 \div 16) = Char2(t1, t2)
      /\ EncodeTable1((t2 % 16) * 4 + t3 \div 64) = Char3(t2, t3)
      /\ EncodeTable1(t3) = Char4(t3)
  BY <1>1 DEF EncodeTable0, EncodeTable1, Sextets, Char1, Char2, Char3, Char4
<1> QED
  BY <1>1, <1>2 DEF EncodeGroup

(* Entries of the decoder add up to a number to the base of 64.            *)
LEMMA EntriesAddUp ==
    ASSUME NEW c1 \in Sextets, NEW c2 \in Sextets, NEW c3 \in Sextets, NEW c4 \in Sextets
    PROVE  /\ DecodeGroup(c1, c2, c3, c4) = c1 * 262144 + c2 * 4096 + c3 * 64 + c4
           /\ DecodeTail(c1, c2, c3, 1) = c1 * 262144 + c2 * 4096 + c3 * 64
           /\ \A c : DecodeTail(c1, c2, c, 2) = c1 * 262144 + c2 * 4096
<1>1. 2^18 = 262144 /\ 2^12 = 4096 /\ 2^6 = 64
  OBVIOUS
<1>2. /\ DecodeTable0(c1) = c1 * 262144 /\ DecodeTable1(c2) = c2 * 4096
      /\ DecodeTable2(c3) = c3 * 64 /\ DecodeTable3(c4) = c4
  BY <1>1, SMT DEF DecodeTable0, DecodeTable1, DecodeTable2, DecodeTable3
<1>3. /\ DecodeTail(c1, c2, c3, 1) = DecodeTable0(c1) + DecodeTable1(c2) + DecodeTable2(c3)
      /\ \A c : DecodeTail(c1, c2, c, 2) = DecodeTable0(c1) + DecodeTable1(c2)
  BY DEF DecodeTail
<1> QED
  BY <1>2, <1>3, SMT DEF DecodeGroup

(* Which is the three bytes as one number.                                 *)
LEMMA BytesAddUp ==
    ASSUME NEW t1 \in Byte, NEW t2 \in Byte, NEW t3 \in Byte
    PROVE  Char1(t1) * 262144 + Char2(t1, t2) * 4096 + Char3(t2, t3) * 64 + Char4(t3)
             = t1 * 65536 + t2 * 256 + t3
BY DEF Byte, Char1, Char2, Char3, Char4

(* And that number is good and taken apart into the bytes.                 *)
LEMMA GroupBytesAre ==
    ASSUME NEW t1 \in Byte, NEW t2 \in Byte, NEW t3 \in Byte
    PROVE  LET temp == t1 * 65536 + t2 * 256 + t3 IN
           temp < BadChar /\ GroupBytes(temp) = <<t1, t2, t3>>
BY DEF Byte, BadChar, GroupBytes

(* A byte is two digits, and they the byte again.                          *)
LEMMA HexDigitReads ==
    ASSUME NEW v \in 0..15
    PROVE  UnhexTable(HexDigit(v)) = v /\ UnhexTable4(HexDigit(v)) = v * 16
<1>1. CASE v < 10
  BY <1>1 DEF UnhexTable, UnhexTable4, HexDigit
<1>2. CASE v >= 10
  BY <1>2 DEF UnhexTable, UnhexTable4, HexDigit
<1> QED
  BY <1>1, <1>2

LEMMA Digits ==
    ASSUME NEW byte \in Byte
    PROVE  /\ byte \div 16 \in 0..15 /\ byte % 16 \in 0..15
           /\ (byte \div 16) * 16 + (byte % 16) = byte
<1>1. byte \div 16 \in 0..15 /\ byte % 16 \in 0..15
  BY DEF Byte
<1>2. (byte \div 16) * 16 + (byte % 16) = byte
  BY DEF Byte
<1> QED
  BY <1>1, <1>2

LEMMA DigitPlaces ==
    ASSUME NEW n \in Nat, NEW i \in 1..n
    PROVE  /\ 2 * i - 1 \in 1..(2 * n) /\ (2 * i - 1) % 2 = 1 /\ ((2 * i - 1) + 1) \div 2 = i
           /\ 2 * i \in 1..(2 * n) /\ (2 * i) % 2 = 0 /\ (2 * i + 1) \div 2 = i
OBVIOUS

LEMMA Doubled ==
    ASSUME NEW n \in Nat
    PROVE  (2 * n) % 2 = 0 /\ (2 * n) \div 2 = n
OBVIOUS

(* So bytes are read back as they were printed.                            *)
LEMMA HexReadsBack ==
    ASSUME NEW data \in ByteSeq
    PROVE  DecodeHex(EncodeHex(data)) = Ok(data)
<1> DEFINE n == Len(data)
           t == EncodeHex(data)
           read == [i \in 1..(Len(t) \div 2) |-> DecodeHexByte(t[2 * i - 1], t[2 * i])]
<1>1. n \in Nat /\ data = [i \in 1..n |-> data[i]] /\ \A i \in 1..n : data[i] \in Byte
  BY DEF ByteSeq
<1>2. /\ Len(t) = 2 * n
      /\ \A k \in 1..(2 * n) :
            t[k] = HexDigit(IF k % 2 = 1 THEN data[(k + 1) \div 2] \div 16
                            ELSE data[(k + 1) \div 2] % 16)
  BY <1>1 DEF EncodeHex
<1> HIDE DEF t, n
<1>3. ASSUME NEW i \in 1..n
      PROVE  DecodeHexByte(t[2 * i - 1], t[2 * i]) = data[i]
  <2> DEFINE high == data[i] \div 16
             low == data[i] % 16
  <2>0. data[i] \in Byte
    BY <1>1
  <2>1. high \in 0..15 /\ low \in 0..15 /\ high * 16 + low = data[i]
    BY <2>0, Digits
  <2>2. /\ 2 * i - 1 \in 1..(2 * n) /\ (2 * i - 1) % 2 = 1 /\ ((2 * i - 1) + 1) \div 2 = i
        /\ 2 * i \in 1..(2 * n) /\ (2 * i) % 2 = 0 /\ (2 * i + 1) \div 2 = i
    BY <1>1, DigitPlaces
  <2>3. t[2 * i - 1] = HexDigit(high)
    BY <1>2, <2>2
  <2>4. t[2 * i] = HexDigit(low)
    BY <1>2, <2>2
  <2> HIDE DEF high, low
  <2>5. UnhexTable4(t[2 * i - 1]) = high * 16 /\ UnhexTable(t[2 * i]) = low
    BY <2>1, <2>3, <2>4, HexDigitReads
  <2>6. high * 16 # 255 /\ low # 255
    BY <2>1
  <2>7. DecodeHexByte(t[2 * i - 1], t[2 * i]) = high * 16 + low
    BY <2>5, <2>6 DEF DecodeHexByte
  <2> QED
    BY <2>1, <2>7
<1>4. Len(t) % 2 = 0 /\ Len(t) \div 2 = n
  BY <1>1, <1>2, Doubled
<1>5. DecodeHex(t) = Ok(read)
  BY <1>4 DEF DecodeHex
<1>6. read = [i \in 1..n |-> DecodeHexByte(t[2 * i - 1], t[2 * i])]
  BY <1>4
<1>7. read = data
  BY <1>1, <1>3, <1>6
<1> QED
  BY <1>5, <1>7 DEF t

(* The full groups of an input, encoded.                                   *)
Groups(data) ==
  [k \in 1..(4 * (Len(data) \div 3)) |->
     EncodeGroup(data[3 * ((k + 3) \div 4) - 2], data[3 * ((k + 3) \div 4) - 1],
                 data[3 * ((k + 3) \div 4)])[1 + ((k - 1) % 4)]]

LEMMA FourPlaces ==
    ASSUME NEW full \in Nat, NEW i \in 1..full
    PROVE  /\ 4 * i - 3 \in 1..(4 * full) /\ ((4 * i - 3) + 3) \div 4 = i /\ ((4 * i - 3) - 1) % 4 = 0
           /\ 4 * i - 2 \in 1..(4 * full) /\ ((4 * i - 2) + 3) \div 4 = i /\ ((4 * i - 2) - 1) % 4 = 1
           /\ 4 * i - 1 \in 1..(4 * full) /\ ((4 * i - 1) + 3) \div 4 = i /\ ((4 * i - 1) - 1) % 4 = 2
           /\ 4 * i \in 1..(4 * full) /\ (4 * i + 3) \div 4 = i /\ (4 * i - 1) % 4 = 3
OBVIOUS

LEMMA ThreePlaces ==
    ASSUME NEW full \in Nat, NEW k \in 1..(3 * full)
    PROVE  /\ (k + 2) \div 3 \in 1..full
           /\ \/ (k - 1) % 3 = 0 /\ k = 3 * ((k + 2) \div 3) - 2
              \/ (k - 1) % 3 = 1 /\ k = 3 * ((k + 2) \div 3) - 1
              \/ (k - 1) % 3 = 2 /\ k = 3 * ((k + 2) \div 3)
OBVIOUS

LEMMA Thirds ==
    ASSUME NEW n \in Nat
    PROVE  /\ n \div 3 \in Nat
           /\ n - 3 * (n \div 3) \in 0..2
           /\ \A i \in 1..(n \div 3) : 3 * i - 2 \in 1..n /\ 3 * i - 1 \in 1..n /\ 3 * i \in 1..n
OBVIOUS

LEMMA GroupsAre ==
    ASSUME NEW data \in ByteSeq
    PROVE  /\ Groups(data) \in Seq(Sextets)
           /\ Len(Groups(data)) = 4 * (Len(data) \div 3)
           /\ \A i \in 1..(Len(data) \div 3) :
                /\ Groups(data)[4 * i - 3] = Char1(data[3 * i - 2])
                /\ Groups(data)[4 * i - 2] = Char2(data[3 * i - 2], data[3 * i - 1])
                /\ Groups(data)[4 * i - 1] = Char3(data[3 * i - 1], data[3 * i])
                /\ Groups(data)[4 * i] = Char4(data[3 * i])
<1> DEFINE full == Len(data) \div 3
           G(i) == EncodeGroup(data[3 * i - 2], data[3 * i - 1], data[3 * i])
<1>1. full \in Nat
  BY Thirds DEF ByteSeq
<1>2. \A i \in 1..full : /\ data[3 * i - 2] \in Byte /\ data[3 * i - 1] \in Byte
                        /\ data[3 * i] \in Byte
  <2>1. Len(data) \in Nat /\ \A j \in 1..Len(data) : data[j] \in Byte
    BY DEF ByteSeq
  <2>2. \A i \in 1..full : 3 * i - 2 \in 1..Len(data) /\ 3 * i - 1 \in 1..Len(data)
                           /\ 3 * i \in 1..Len(data)
    BY <2>1, Thirds
  <2> QED
    BY <2>1, <2>2
<1>3. \A i \in 1..full :
        /\ G(i) = << Char1(data[3 * i - 2]), Char2(data[3 * i - 2], data[3 * i - 1]),
                     Char3(data[3 * i - 1], data[3 * i]), Char4(data[3 * i]) >>
        /\ G(i) \in [1..4 -> Sextets]
  BY <1>2, CharsAre
<1>4. Groups(data) = [k \in 1..(4 * full) |-> G((k + 3) \div 4)[1 + ((k - 1) % 4)]]
  BY DEF Groups
<1> HIDE DEF G, full
<1>5. ASSUME NEW k \in 1..(4 * full)
      PROVE  (k + 3) \div 4 \in 1..full /\ 1 + ((k - 1) % 4) \in 1..4
  BY <1>1
<1>6. Groups(data) \in [1..(4 * full) -> Sextets]
  BY <1>3, <1>4, <1>5
<1>7. Groups(data) \in Seq(Sextets) /\ Len(Groups(data)) = 4 * full
  BY <1>1, <1>6
<1>8. ASSUME NEW i \in 1..full
      PROVE  /\ Groups(data)[4 * i - 3] = G(i)[1] /\ Groups(data)[4 * i - 2] = G(i)[2]
             /\ Groups(data)[4 * i - 1] = G(i)[3] /\ Groups(data)[4 * i] = G(i)[4]
  <2>1. /\ 4 * i - 3 \in 1..(4 * full) /\ ((4 * i - 3) + 3) \div 4 = i /\ 1 + (((4 * i - 3) - 1) % 4) = 1
        /\ 4 * i - 2 \in 1..(4 * full) /\ ((4 * i - 2) + 3) \div 4 = i /\ 1 + (((4 * i - 2) - 1) % 4) = 2
        /\ 4 * i - 1 \in 1..(4 * full) /\ ((4 * i - 1) + 3) \div 4 = i /\ 1 + (((4 * i - 1) - 1) % 4) = 3
        /\ 4 * i \in 1..(4 * full) /\ (4 * i + 3) \div 4 = i /\ 1 + ((4 * i - 1) % 4) = 4
    BY <1>1, FourPlaces
  <2>2. Groups(data)[4 * i - 3] = G(i)[1]
    BY <1>4, <2>1
  <2>3. Groups(data)[4 * i - 2] = G(i)[2]
    BY <1>4, <2>1
  <2>4. Groups(data)[4 * i - 1] = G(i)[3]
    BY <1>4, <2>1
  <2>5. Groups(data)[4 * i] = G(i)[4]
    BY <1>4, <2>1
  <2> QED
    BY <2>2, <2>3, <2>4, <2>5
<1>9. \A i \in 1..full :
        /\ Groups(data)[4 * i - 3] = Char1(data[3 * i - 2])
        /\ Groups(data)[4 * i - 2] = Char2(data[3 * i - 2], data[3 * i - 1])
        /\ Groups(data)[4 * i - 1] = Char3(data[3 * i - 1], data[3 * i])
        /\ Groups(data)[4 * i] = Char4(data[3 * i])
  BY <1>3, <1>8
<1> QED
  BY <1>7, <1>9 DEF full

LEMMA GroupReads ==
    ASSUME NEW t1 \in Byte, NEW t2 \in Byte, NEW t3 \in Byte
    PROVE  LET temp == DecodeGroup(Char1(t1), Char2(t1, t2), Char3(t2, t3), Char4(t3)) IN
           temp \in Nat /\ ~(temp >= BadChar) /\ GroupBytes(temp) = <<t1, t2, t3>>
<1> DEFINE temp == DecodeGroup(Char1(t1), Char2(t1, t2), Char3(t2, t3), Char4(t3))
           sum == t1 * 65536 + t2 * 256 + t3
<1>1. temp = sum
  <2>1. /\ Char1(t1) \in Sextets /\ Char2(t1, t2) \in Sextets
        /\ Char3(t2, t3) \in Sextets /\ Char4(t3) \in Sextets
    BY CharsAre
  <2>2. temp = Char1(t1) * 262144 + Char2(t1, t2) * 4096 + Char3(t2, t3) * 64 + Char4(t3)
    BY <2>1, EntriesAddUp, SMT
  <2> QED
    BY <2>2, BytesAddUp, SMT
<1>2. sum < BadChar /\ GroupBytes(sum) = <<t1, t2, t3>>
  BY GroupBytesAre
<1>3. sum \in Nat /\ BadChar \in Nat
  BY DEF Byte, BadChar
<1> HIDE DEF temp, sum
<1>4. temp \in Nat /\ ~(temp >= BadChar) /\ GroupBytes(temp) = <<t1, t2, t3>>
  BY <1>1, <1>2, <1>3
<1> QED
  BY <1>4 DEF temp

(* A tail is the first characters of the group that zeros would fill.      *)
LEMMA TailReads ==
    ASSUME NEW t1 \in Byte, NEW t2 \in Byte
    PROVE  /\ EncodeTail1(t1) = <<Char1(t1), Char2(t1, 0), Pad, Pad>>
           /\ EncodeTail2(t1, t2) = <<Char1(t1), Char2(t1, t2), Char3(t2, 0), Pad>>
           /\ LET temp == DecodeTail(Char1(t1), Char2(t1, 0), Pad, 2) IN
              ~(temp >= BadChar) /\ GroupBytes(temp) = <<t1, 0, 0>>
           /\ LET temp == DecodeTail(Char1(t1), Char2(t1, t2), Char3(t2, 0), 1) IN
              ~(temp >= BadChar) /\ GroupBytes(temp) = <<t1, t2, 0>>
<1>1. 0 \in Byte
  BY DEF Byte
<1>2. /\ EncodeGroup(t1, 0, 0) = <<Char1(t1), Char2(t1, 0), Char3(0, 0), Char4(0)>>
      /\ EncodeGroup(t1, t2, 0) = <<Char1(t1), Char2(t1, t2), Char3(t2, 0), Char4(0)>>
  BY <1>1, CharsAre
<1>3. /\ EncodeTail1(t1) = <<Char1(t1), Char2(t1, 0), Pad, Pad>>
      /\ EncodeTail2(t1, t2) = <<Char1(t1), Char2(t1, t2), Char3(t2, 0), Pad>>
  BY <1>2 DEF EncodeTail1, EncodeTail2
<1>4. Char3(0, 0) = 0 /\ Char4(0) = 0
  BY DEF Char3, Char4
<1>5. ASSUME NEW c1 \in Sextets, NEW c2 \in Sextets, NEW c3 \in Sextets
      PROVE  /\ DecodeTail(c1, c2, c3, 1) = DecodeGroup(c1, c2, c3, 0)
             /\ DecodeTail(c1, c2, Pad, 2) = DecodeGroup(c1, c2, 0, 0)
  <2>1. 0 \in Sextets
    BY DEF Sextets
  <2>2. /\ DecodeTail(c1, c2, c3, 1) = c1 * 262144 + c2 * 4096 + c3 * 64
        /\ DecodeTail(c1, c2, Pad, 2) = c1 * 262144 + c2 * 4096
    BY <2>1, EntriesAddUp
  <2>3. /\ DecodeGroup(c1, c2, c3, 0) = c1 * 262144 + c2 * 4096 + c3 * 64 + 0
        /\ DecodeGroup(c1, c2, 0, 0) = c1 * 262144 + c2 * 4096 + 0 * 64 + 0
    BY <2>1, EntriesAddUp
  <2> QED
    BY <2>2, <2>3, SMT DEF Sextets
<1>6. /\ DecodeTail(Char1(t1), Char2(t1, 0), Pad, 2)
            = DecodeGroup(Char1(t1), Char2(t1, 0), Char3(0, 0), Char4(0))
      /\ DecodeTail(Char1(t1), Char2(t1, t2), Char3(t2, 0), 1)
            = DecodeGroup(Char1(t1), Char2(t1, t2), Char3(t2, 0), Char4(0))
  <2>1. /\ Char1(t1) \in Sextets /\ Char2(t1, 0) \in Sextets
        /\ Char2(t1, t2) \in Sextets /\ Char3(t2, 0) \in Sextets /\ Char3(0, 0) \in Sextets
    BY <1>1, CharsAre
  <2> QED
    BY <2>1, <1>4, <1>5
<1>7. LET temp == DecodeGroup(Char1(t1), Char2(t1, 0), Char3(0, 0), Char4(0)) IN
      ~(temp >= BadChar) /\ GroupBytes(temp) = <<t1, 0, 0>>
  BY <1>1, GroupReads
<1>8. LET temp == DecodeGroup(Char1(t1), Char2(t1, t2), Char3(t2, 0), Char4(0)) IN
      ~(temp >= BadChar) /\ GroupBytes(temp) = <<t1, t2, 0>>
  BY <1>1, GroupReads
<1> QED
  BY <1>3, <1>6, <1>7, <1>8

(* The characters of the groups, whatever stands behind them.              *)
LEMMA GroupsRead ==
    ASSUME NEW data \in ByteSeq, NEW t,
           \A j \in 1..(4 * (Len(data) \div 3)) : t[j] = Groups(data)[j]
    PROVE  LET full == Len(data) \div 3
               Temp(i) == DecodeGroup(t[4 * i - 3], t[4 * i - 2], t[4 * i - 1], t[4 * i])
           IN  /\ \A i \in 1..full : ~(Temp(i) >= BadChar)
               /\ [k \in 1..(3 * full) |-> GroupBytes(Temp((k + 2) \div 3))[1 + ((k - 1) % 3)]]
                    = [k \in 1..(3 * full) |-> data[k]]
<1> DEFINE full == Len(data) \div 3
           Temp(i) == DecodeGroup(t[4 * i - 3], t[4 * i - 2], t[4 * i - 1], t[4 * i])
<1>1. Len(data) \in Nat /\ full \in Nat
  BY Thirds DEF ByteSeq
<1>1a. \A i \in 1..full : 3 * i - 2 \in 1..Len(data) /\ 3 * i - 1 \in 1..Len(data)
                        /\ 3 * i \in 1..Len(data)
  BY <1>1, Thirds
<1>2. ASSUME NEW i \in 1..full
      PROVE  ~(Temp(i) >= BadChar) /\ GroupBytes(Temp(i)) = <<data[3 * i - 2], data[3 * i - 1], data[3 * i]>>
  <2>1. data[3 * i - 2] \in Byte /\ data[3 * i - 1] \in Byte /\ data[3 * i] \in Byte
    <3>1. 3 * i - 2 \in 1..Len(data) /\ 3 * i - 1 \in 1..Len(data) /\ 3 * i \in 1..Len(data)
      BY <1>1a
    <3> QED
      BY <3>1 DEF ByteSeq
  <2>2. /\ t[4 * i - 3] = Groups(data)[4 * i - 3] /\ t[4 * i - 2] = Groups(data)[4 * i - 2]
        /\ t[4 * i - 1] = Groups(data)[4 * i - 1] /\ t[4 * i] = Groups(data)[4 * i]
    <3>1. /\ 4 * i - 3 \in 1..(4 * full) /\ 4 * i - 2 \in 1..(4 * full)
          /\ 4 * i - 1 \in 1..(4 * full) /\ 4 * i \in 1..(4 * full)
      BY <1>1, FourPlaces
    <3> QED
      BY <3>1
  <2>3. Temp(i) = DecodeGroup(Char1(data[3 * i - 2]), Char2(data[3 * i - 2], data[3 * i - 1]),
                              Char3(data[3 * i - 1], data[3 * i]), Char4(data[3 * i]))
    BY <2>2, GroupsAre
  <2>4. LET temp == DecodeGroup(Char1(data[3 * i - 2]), Char2(data[3 * i - 2], data[3 * i - 1]),
                                Char3(data[3 * i - 1], data[3 * i]), Char4(data[3 * i]))
        IN  ~(temp >= BadChar)
            /\ GroupBytes(temp) = <<data[3 * i - 2], data[3 * i - 1], data[3 * i]>>
    BY <2>1, GroupReads
  <2> HIDE DEF Temp
  <2> QED
    BY <2>3, <2>4
<1> HIDE DEF full, Temp
<1>3. ASSUME NEW k \in 1..(3 * full)
      PROVE  GroupBytes(Temp((k + 2) \div 3))[1 + ((k - 1) % 3)] = data[k]
  <2> DEFINE i == (k + 2) \div 3
  <2>1. i \in 1..full
    BY <1>1, ThreePlaces
  <2>2. \/ (k - 1) % 3 = 0 /\ k = 3 * i - 2
        \/ (k - 1) % 3 = 1 /\ k = 3 * i - 1
        \/ (k - 1) % 3 = 2 /\ k = 3 * i
    BY <1>1, ThreePlaces
  <2>3. GroupBytes(Temp(i)) = <<data[3 * i - 2], data[3 * i - 1], data[3 * i]>>
    BY <2>1, <1>2
  <2> HIDE DEF i
  <2>4. GroupBytes(Temp(i))[1 + ((k - 1) % 3)] = data[k]
    BY <2>2, <2>3
  <2> QED
    BY <2>4 DEF i
<1>4. /\ \A i \in 1..full : ~(Temp(i) >= BadChar)
      /\ [k \in 1..(3 * full) |-> GroupBytes(Temp((k + 2) \div 3))[1 + ((k - 1) % 3)]]
           = [k \in 1..(3 * full) |-> data[k]]
  BY <1>2, <1>3
<1> QED
  BY <1>4 DEF full, Temp

(* What a text is made of: the alphabet, padding, and the rest.            *)
Chars == 0..66

LEMMA Wider ==
    ASSUME NEW S, NEW T, S \subseteq T, NEW q \in Seq(S)
    PROVE  q \in Seq(T)
<1>1. Len(q) \in Nat /\ q = [i \in 1..Len(q) |-> q[i]] /\ \A i \in 1..Len(q) : q[i] \in S
  OBVIOUS
<1>2. \A i \in 1..Len(q) : q[i] \in T
  BY <1>1
<1> QED
  BY <1>1, <1>2

LEMMA Joined ==
    ASSUME NEW S, NEW a \in Seq(S), NEW b \in Seq(S)
    PROVE  /\ a \o b \in Seq(S) /\ Len(a \o b) = Len(a) + Len(b)
           /\ \A j \in 1..Len(a) : (a \o b)[j] = a[j]
           /\ \A j \in 1..Len(b) : (a \o b)[Len(a) + j] = b[j]
OBVIOUS

(* The padding that is counted in the last four characters.                *)
LEMMA NoPadding ==
    ASSUME NEW t, Len(t) \in Nat, Len(t) >= 4, NEW padding \in 0..2,
           \A i \in 1..4 : t[Len(t) - 4 + i] = Pad <=> i > 4 - padding
    PROVE  NumPadding(t) = padding
<1> DEFINE n == Len(t)
           One(i) == IF t[i] = Pad THEN 1 ELSE 0
<1>1. n \in Nat /\ n >= 4
  OBVIOUS
<1>2. /\ t[n - 3] = Pad <=> 1 > 4 - padding
      /\ t[n - 2] = Pad <=> 2 > 4 - padding
      /\ t[n - 1] = Pad <=> 3 > 4 - padding
      /\ t[n] = Pad <=> 4 > 4 - padding
  <2>1. n - 4 + 1 = n - 3 /\ n - 4 + 2 = n - 2 /\ n - 4 + 3 = n - 1 /\ n - 4 + 4 = n
    BY <1>1
  <2> QED
    BY <2>1
<1>3. NumPadding(t) = One(n - 3) + One(n - 2) + One(n - 1) + One(n)
  BY DEF NumPadding
<1> HIDE DEF n
<1>4. CASE padding = 0
  BY <1>2, <1>3, <1>4
<1>5. CASE padding = 1
  BY <1>2, <1>3, <1>5
<1>6. CASE padding = 2
  BY <1>2, <1>3, <1>6
<1> QED
  BY <1>4, <1>5, <1>6

(* A tail as the encoder leaves it, with the padding it shows.             *)
TailFits(tail, padding) ==
  /\ tail \in Seq(Chars) /\ padding \in 0..2
  /\ \/ tail = <<>> /\ padding = 0
     \/ Len(tail) = 4 /\ padding # 0
  /\ tail # <<>> => \A i \in 1..4 : tail[i] = Pad <=> i > 4 - padding
  /\ padding # 0 => ~(DecodeTail(tail[1], tail[2], tail[3], padding) >= BadChar)

(* Full groups and such a tail decode to the bytes they were made of.      *)
LEMMA TextDecodes ==
    ASSUME NEW data \in ByteSeq, NEW tail, NEW padding, TailFits(tail, padding)
    PROVE  DecodeInto(Groups(data) \o tail)
             = Ok([k \in 1..(3 * (Len(data) \div 3)) |-> data[k]]
                   \o IF padding = 0 THEN <<>>
                      ELSE SubSeq(GroupBytes(DecodeTail(tail[1], tail[2], tail[3], padding)),
                                  1, 3 - padding))
<1> DEFINE full == Len(data) \div 3
           t == Groups(data) \o tail
           n == Len(t)
           Temp(i) == DecodeGroup(t[4 * i - 3], t[4 * i - 2], t[4 * i - 1], t[4 * i])
           last == DecodeTail(tail[1], tail[2], tail[3], padding)
           decoded == [k \in 1..(3 * full) |-> GroupBytes(Temp((k + 2) \div 3))[1 + ((k - 1) % 3)]]
           Rest(v) == IF padding = 0 THEN <<>> ELSE SubSeq(GroupBytes(v), 1, 3 - padding)
<1>0. /\ tail \in Seq(Chars) /\ padding \in 0..2
      /\ \/ Len(tail) = 0 /\ tail = <<>> /\ padding = 0
         \/ Len(tail) = 4 /\ tail # <<>> /\ padding # 0
  BY DEF TailFits
<1>1. /\ full \in Nat
      /\ Groups(data) \in Seq(Sextets) /\ Len(Groups(data)) = 4 * full
  BY Thirds, GroupsAre DEF ByteSeq
<1>2. Sextets \subseteq Chars /\ Pad \notin Sextets
  BY DEF Sextets, Pad, Chars
<1>3. Groups(data) \in Seq(Chars)
  BY <1>1, <1>2, Wider
<1>4. /\ t \in Seq(Chars) /\ n = 4 * full + Len(tail)
      /\ \A j \in 1..(4 * full) : t[j] = Groups(data)[j]
      /\ \A j \in 1..Len(tail) : t[4 * full + j] = tail[j]
  <2> HIDE DEF full
  <2>1. /\ t \in Seq(Chars) /\ n = Len(Groups(data)) + Len(tail)
        /\ \A j \in 1..Len(Groups(data)) : t[j] = Groups(data)[j]
        /\ \A j \in 1..Len(tail) : t[Len(Groups(data)) + j] = tail[j]
    BY <1>0, <1>3, Joined
  <2> HIDE DEF t, n
  <2> QED
    BY <1>1, <2>1
<1> HIDE DEF t
<1>5. /\ \A i \in 1..full : ~(Temp(i) >= BadChar)
      /\ decoded = [k \in 1..(3 * full) |-> data[k]]
  BY <1>4, GroupsRead
<1> HIDE DEF full, n, Temp, last, decoded
<1>6. CASE n = 0
  <2>1. full = 0 /\ Len(tail) = 0
    BY <1>0, <1>1, <1>4, <1>6
  <2>2. padding = 0 /\ [k \in 1..(3 * full) |-> data[k]] = <<>>
    BY <1>0, <2>1
  <2>3. DecodeInto(t) = Ok(<<>>)
    BY <1>6 DEF DecodeInto, n
  <2>4. [k \in 1..(3 * full) |-> data[k]] \o Rest(last) = <<>>
    BY <2>2
  <2> QED
    BY <2>3, <2>4 DEF t, full, last
<1>7. CASE n # 0
  <2>1. n >= 4 /\ n % 4 = 0 /\ n \in Nat
    <3>1. Len(tail) = 0 \/ Len(tail) = 4
      BY <1>0
    <3>2. n = 4 * full \/ n = 4 * full + 4
      <4>1. n = 4 * full + Len(tail) /\ full \in Nat
        BY <1>1, <1>4
      <4>2. CASE Len(tail) = 0
        BY <4>1, <4>2
      <4>3. CASE Len(tail) = 4
        BY <4>1, <4>3
      <4> QED
        BY <3>1, <4>2, <4>3
    <3> QED
      BY <1>1, <1>7, <3>2
  <2>2. NumPadding(t) = padding
    <3>1. ASSUME NEW i \in 1..4
          PROVE  t[n - 4 + i] = Pad <=> i > 4 - padding
      <4>1. CASE tail = <<>>
        <5>1. n = 4 * full /\ padding = 0 /\ full >= 1
          BY <1>0, <1>1, <1>4, <1>7, <4>1
        <5>2. n - 4 + i \in 1..(4 * full)
          BY <1>1, <5>1
        <5>3. t[n - 4 + i] \in Sextets
          BY <1>1, <1>4, <5>2
        <5> QED
          BY <1>2, <5>1, <5>3
      <4>2. CASE tail # <<>>
        <5>1. Len(tail) = 4
          BY <1>0, <4>2
        <5>2. n - 4 + i = 4 * full + i
          BY <1>1, <1>4, <5>1
        <5>3. t[n - 4 + i] = tail[i]
          BY <1>4, <5>1, <5>2
        <5> QED
          BY <4>2, <5>3 DEF TailFits
      <4> QED
        BY <4>1, <4>2
    <3> QED
      BY <1>0, <1>4, <2>1, <3>1, NoPadding DEF n
  <2>3. (n \div 4) - (IF padding # 0 THEN 1 ELSE 0) = full
    <3>1. CASE padding = 0
      <4>1. Len(tail) = 0
        BY <1>0, <3>1
      <4> QED
        BY <1>1, <1>4, <3>1, <4>1
    <3>2. CASE padding # 0
      <4>1. Len(tail) = 4
        BY <1>0, <3>2
      <4> QED
        BY <1>1, <1>4, <3>2, <4>1
    <3> QED
      BY <3>1, <3>2
  <2>4. padding # 0 => DecodeTail(t[n - 3], t[n - 2], t[n - 1], padding) = last
    <3> SUFFICES ASSUME padding # 0
                 PROVE  DecodeTail(t[n - 3], t[n - 2], t[n - 1], padding) = last
      OBVIOUS
    <3>1. Len(tail) = 4
      BY <1>0
    <3>2. n - 3 = 4 * full + 1 /\ n - 2 = 4 * full + 2 /\ n - 1 = 4 * full + 3
      BY <1>1, <1>4, <3>1
    <3>3. t[n - 3] = tail[1] /\ t[n - 2] = tail[2] /\ t[n - 1] = tail[3]
      BY <1>4, <3>1, <3>2
    <3> QED
      BY <3>3 DEF last
  <2>5. DecodeInto(t) = Ok(decoded \o Rest(DecodeTail(t[n - 3], t[n - 2], t[n - 1], padding)))
    <3>1. /\ ~(padding > 2)
          /\ ~\E i \in 1..full : Temp(i) >= BadChar
          /\ ~(padding # 0 /\ DecodeTail(t[n - 3], t[n - 2], t[n - 1], padding) >= BadChar)
      BY <1>0, <1>5, <2>4 DEF last, TailFits
    <3> QED
      BY <1>7, <2>1, <2>2, <2>3, <3>1 DEF DecodeInto, n, Temp, decoded
  <2>6. Rest(DecodeTail(t[n - 3], t[n - 2], t[n - 1], padding)) = Rest(last)
    BY <2>4
  <2>7. DecodeInto(t) = Ok([k \in 1..(3 * full) |-> data[k]] \o Rest(last))
    BY <1>5, <2>5, <2>6
  <2> QED
    BY <2>7 DEF t, full, last
<1> QED
  BY <1>6, <1>7

Less == {p \in Nat \X Nat : p[1] < p[2]}
LEMMA LessIsWellFounded == IsWellFoundedOn(Less, Nat)
BY NatLessThanWellFounded DEF OpToRel, Less

(* A set of numbers has a smallest one.                                    *)
LEMMA Smallest ==
    ASSUME NEW T \in SUBSET Nat, T # {}
    PROVE  \E x \in T : \A y \in T : x <= y
<1>1. PICK x \in T : \A y \in T : ~(<<y, x>> \in Less)
  BY LessIsWellFounded, WFMin
<1>2. \A y \in T : ~(y < x)
  BY <1>1 DEF Less
<1> QED
  BY <1>2

LEMMA IsOne ==
    ASSUME NEW S, NEW q \in Seq(S), NEW a, Len(q) = 1, q[1] = a
    PROVE  q = <<a>>
<1>1. a \in S
  OBVIOUS
<1>2. <<a>> \in Seq(S) /\ Len(<<a>>) = 1 /\ <<a>>[1] = a
  BY <1>1
<1>3. \A i \in 1..Len(q) : q[i] = <<a>>[i]
  BY <1>2
<1> QED
  BY <1>2, <1>3, SeqEqual

LEMMA IsTwo ==
    ASSUME NEW S, NEW q \in Seq(S), NEW a, NEW b, Len(q) = 2, q[1] = a, q[2] = b
    PROVE  q = <<a, b>>
<1>1. a \in S /\ b \in S
  OBVIOUS
<1>2. <<a, b>> \in Seq(S) /\ Len(<<a, b>>) = 2 /\ <<a, b>>[1] = a /\ <<a, b>>[2] = b
  BY <1>1
<1>3. \A i \in 1..Len(q) : q[i] = <<a, b>>[i]
  BY <1>2
<1> QED
  BY <1>2, <1>3, SeqEqual

LEMMA FirstOfThree ==
    ASSUME NEW S, NEW a \in S, NEW b \in S, NEW c \in S
    PROVE  SubSeq(<<a, b, c>>, 1, 1) = <<a>> /\ SubSeq(<<a, b, c>>, 1, 2) = <<a, b>>
<1> DEFINE q == <<a, b, c>>
<1>1. q[1] = a /\ q[2] = b /\ <<a>> \in Seq(S) /\ <<a, b>> \in Seq(S)
      /\ \A i \in 1..2 : q[i] \in S
  OBVIOUS
<1> HIDE DEF q
<1>2. /\ SubSeq(q, 1, 1) \in Seq(S) /\ Len(SubSeq(q, 1, 1)) = 1 /\ SubSeq(q, 1, 1)[1] = q[1]
  BY <1>1, SubSeqProperties
<1>3. /\ SubSeq(q, 1, 2) \in Seq(S) /\ Len(SubSeq(q, 1, 2)) = 2
      /\ SubSeq(q, 1, 2)[1] = q[1] /\ SubSeq(q, 1, 2)[2] = q[2]
  BY <1>1, SubSeqProperties
<1>4. SubSeq(q, 1, 1) = <<a>>
  BY <1>1, <1>2, IsOne
<1>5. SubSeq(q, 1, 2) = <<a, b>>
  <2> DEFINE p == SubSeq(q, 1, 2)
  <2>1. p \in Seq(S) /\ Len(p) = 2 /\ p[1] = a /\ p[2] = b
    BY <1>1, <1>3
  <2> HIDE DEF p
  <2>2. p = <<a, b>>
    BY <2>1, IsTwo
  <2> QED
    BY <2>2 DEF p
<1> QED
  BY <1>4, <1>5 DEF q

LEMMA NoneLeft ==
    ASSUME NEW data \in ByteSeq, NEW m \in Nat, Len(data) = m
    PROVE  /\ SubSeq(data, m + 1, m) = <<>>
           /\ [k \in 1..m |-> data[k]] = data /\ data \o <<>> = data
<1>1. data \o <<>> = data
  BY DEF ByteSeq
<1>2. [k \in 1..m |-> data[k]] = data
  BY DEF ByteSeq
<1>3. SubSeq(data, m + 1, m) = <<>>
  BY DEF ByteSeq
<1> QED
  BY <1>1, <1>2, <1>3

LEMMA OneLeft ==
    ASSUME NEW data \in ByteSeq, NEW m \in Nat, Len(data) = m + 1
    PROVE  /\ data[m + 1] \in Byte
           /\ SubSeq(data, m + 1, m + 1) = <<data[m + 1]>>
           /\ [k \in 1..m |-> data[k]] \o <<data[m + 1]>> = data
<1>1. data[m + 1] \in Byte
  BY DEF ByteSeq
<1>2. SubSeq(data, m + 1, m + 1) = <<data[m + 1]>>
  <2> DEFINE q == SubSeq(data, m + 1, m + 1)
  <2>1. m + 1 \in Int /\ \A i \in (m + 1)..(m + 1) : data[i] \in Byte
    BY <1>1
  <2>2. q \in Seq(Byte) /\ Len(q) = 1 /\ q[1] = data[m + 1]
    BY <2>1, SubSeqProperties
  <2> HIDE DEF q
  <2> QED
    BY <2>2, IsOne DEF q
<1>3. [k \in 1..m |-> data[k]] \o <<data[m + 1]>> = data
  BY <1>1 DEF ByteSeq
<1> QED
  BY <1>1, <1>2, <1>3

LEMMA TwoLeft ==
    ASSUME NEW data \in ByteSeq, NEW m \in Nat, Len(data) = m + 2
    PROVE  /\ data[m + 1] \in Byte /\ data[m + 2] \in Byte
           /\ SubSeq(data, m + 1, m + 2) = <<data[m + 1], data[m + 2]>>
           /\ [k \in 1..m |-> data[k]] \o <<data[m + 1], data[m + 2]>> = data
<1>1. data[m + 1] \in Byte /\ data[m + 2] \in Byte
  BY DEF ByteSeq
<1>2. SubSeq(data, m + 1, m + 2) = <<data[m + 1], data[m + 2]>>
  <2> DEFINE q == SubSeq(data, m + 1, m + 2)
  <2>1. m + 1 \in Int /\ m + 2 \in Int /\ \A i \in (m + 1)..(m + 2) : data[i] \in Byte
    BY DEF ByteSeq
  <2>2. q \in Seq(Byte) /\ Len(q) = 2 /\ q[1] = data[m + 1] /\ q[2] = data[m + 2]
    <3>1. /\ q \in Seq(Byte) /\ Len(q) = (IF m + 1 <= m + 2 THEN (m + 2) - (m + 1) + 1 ELSE 0)
          /\ \A i \in 1 .. (m + 2) - (m + 1) + 1 : q[i] = data[(m + 1) + i - 1]
      BY <2>1, SubSeqProperties
    <3> QED
      BY <3>1
  <2> HIDE DEF q
  <2>3. q = <<data[m + 1], data[m + 2]>>
    BY <2>2
  <2> QED
    BY <2>3 DEF q
<1>3. [k \in 1..m |-> data[k]] \o <<data[m + 1], data[m + 2]>> = data
  BY <1>1 DEF ByteSeq
<1> QED
  BY <1>1, <1>2, <1>3
(* So bytes of any number are read back as they were encoded.              *)
LEMMA Base64ReadsBack ==
    ASSUME NEW data \in ByteSeq
    PROVE  DecodeInto(EncodeInto(data)) = Ok(data)
<1> DEFINE n == Len(data)
           full == n \div 3
           rest == SubSeq(data, 3 * full + 1, n)
           body == [k \in 1..(3 * full) |-> data[k]]
<1>1. n \in Nat /\ full \in Nat /\ n - 3 * full \in 0..2
  BY Thirds DEF ByteSeq
<1>2. data = [k \in 1..n |-> data[k]] /\ \A k \in 1..n : data[k] \in Byte
  BY DEF ByteSeq
<1>3. EncodeInto(data) = Groups(data) \o EncodeTail(rest)
  BY DEF EncodeInto, Groups
<1>4. ASSUME NEW t1 \in Byte, NEW t2 \in Byte
      PROVE  /\ Char1(t1) \in Chars /\ Char2(t1, 0) \in Chars /\ Pad \in Chars
             /\ Char2(t1, t2) \in Chars /\ Char3(t2, 0) \in Chars
             /\ Char1(t1) # Pad /\ Char2(t1, 0) # Pad
             /\ Char2(t1, t2) # Pad /\ Char3(t2, 0) # Pad
  <2>1. 0 \in Byte
    BY DEF Byte
  <2>2. /\ Char1(t1) \in Sextets /\ Char2(t1, 0) \in Sextets
        /\ Char2(t1, t2) \in Sextets /\ Char3(t2, 0) \in Sextets
    BY <2>1, CharsAre
  <2> QED
    BY <2>2 DEF Sextets, Pad, Chars
<1> HIDE DEF full
<1>5. CASE n - 3 * full = 0
  <2>1. n = 3 * full /\ 3 * full \in Nat
    BY <1>1, <1>5
  <2>2. rest = <<>> /\ body = data /\ data \o <<>> = data
    BY <2>1, NoneLeft
  <2>3. EncodeTail(<<>>) = <<>>
    <3>1. Len(<<>>) = 0
      OBVIOUS
    <3> QED
      BY <3>1 DEF EncodeTail
  <2>4. TailFits(<<>>, 0)
    <3>1. <<>> \in Seq(Chars) /\ 0 \in 0..2
      OBVIOUS
    <3> QED
      BY <3>1 DEF TailFits
  <2>5. DecodeInto(Groups(data) \o <<>>) = Ok(body \o <<>>)
    BY <2>4, TextDecodes DEF full
  <2> HIDE DEF body, rest
  <2> QED
    BY <1>3, <2>2, <2>3, <2>5
<1>6. CASE n - 3 * full = 1
  <2> DEFINE b == data[3 * full + 1]
             tail == <<Char1(b), Char2(b, 0), Pad, Pad>>
  <2>1. n = 3 * full + 1 /\ 3 * full \in Nat
    BY <1>1, <1>6
  <2>2. b \in Byte /\ rest = <<b>> /\ body \o <<b>> = data
    BY <2>1, OneLeft
  <2> HIDE DEF b, body, rest
  <2>3. EncodeTail(rest) = tail
    <3>1. Len(<<b>>) = 1 /\ <<b>>[1] = b
      OBVIOUS
    <3>2. EncodeTail(<<b>>) = EncodeTail1(b)
      BY <3>1 DEF EncodeTail
    <3> QED
      BY <2>2, <3>2, TailReads
  <2>4. ~(DecodeTail(Char1(b), Char2(b, 0), Pad, 2) >= BadChar)
        /\ GroupBytes(DecodeTail(Char1(b), Char2(b, 0), Pad, 2)) = <<b, 0, 0>>
    BY <2>2, TailReads
  <2>5. /\ tail \in Seq(Chars) /\ Len(tail) = 4
        /\ tail[1] = Char1(b) /\ tail[2] = Char2(b, 0) /\ tail[3] = Pad /\ tail[4] = Pad
    BY <1>4, <2>2
  <2> HIDE DEF tail
  <2>6. TailFits(tail, 2)
    <3>1. \A i \in 1..4 : tail[i] = Pad <=> i > 4 - 2
      BY <1>4, <2>2, <2>5
    <3> QED
      BY <2>4, <2>5, <3>1 DEF TailFits
  <2>7. DecodeInto(Groups(data) \o tail) = Ok(body \o SubSeq(<<b, 0, 0>>, 1, 1))
    <3>1. DecodeTail(tail[1], tail[2], tail[3], 2) = DecodeTail(Char1(b), Char2(b, 0), Pad, 2)
      BY <2>5
    <3>2. DecodeInto(Groups(data) \o tail)
            = Ok(body \o SubSeq(GroupBytes(DecodeTail(tail[1], tail[2], tail[3], 2)), 1, 3 - 2))
      BY <2>6, TextDecodes DEF full, body
    <3> QED
      BY <2>4, <3>1, <3>2
  <2>8. SubSeq(<<b, 0, 0>>, 1, 1) = <<b>>
    <3>1. 0 \in Byte
      BY DEF Byte
    <3> QED
      BY <2>2, <3>1, FirstOfThree
  <2> QED
    BY <1>3, <2>2, <2>3, <2>7, <2>8
<1>7. CASE n - 3 * full = 2
  <2> DEFINE a == data[3 * full + 1]
             b == data[3 * full + 2]
             tail == <<Char1(a), Char2(a, b), Char3(b, 0), Pad>>
  <2>1. n = 3 * full + 2 /\ 3 * full \in Nat
    BY <1>1, <1>7
  <2>2. a \in Byte /\ b \in Byte /\ rest = <<a, b>> /\ body \o <<a, b>> = data
    BY <2>1, TwoLeft
  <2> HIDE DEF a, b, body, rest
  <2>3. EncodeTail(rest) = tail
    <3>1. Len(<<a, b>>) = 2 /\ <<a, b>>[1] = a /\ <<a, b>>[2] = b
      OBVIOUS
    <3>2. EncodeTail(<<a, b>>) = EncodeTail2(a, b)
      BY <3>1 DEF EncodeTail
    <3> QED
      BY <2>2, <3>2, TailReads
  <2>4. ~(DecodeTail(Char1(a), Char2(a, b), Char3(b, 0), 1) >= BadChar)
        /\ GroupBytes(DecodeTail(Char1(a), Char2(a, b), Char3(b, 0), 1)) = <<a, b, 0>>
    BY <2>2, TailReads
  <2>5. /\ tail \in Seq(Chars) /\ Len(tail) = 4
        /\ tail[1] = Char1(a) /\ tail[2] = Char2(a, b) /\ tail[3] = Char3(b, 0) /\ tail[4] = Pad
    BY <1>4, <2>2
  <2> HIDE DEF tail
  <2>6. TailFits(tail, 1)
    <3>1. \A i \in 1..4 : tail[i] = Pad <=> i > 4 - 1
      BY <1>4, <2>2, <2>5
    <3> QED
      BY <2>4, <2>5, <3>1 DEF TailFits
  <2>7. DecodeInto(Groups(data) \o tail) = Ok(body \o SubSeq(<<a, b, 0>>, 1, 2))
    <3>1. DecodeTail(tail[1], tail[2], tail[3], 1)
            = DecodeTail(Char1(a), Char2(a, b), Char3(b, 0), 1)
      BY <2>5
    <3>2. DecodeInto(Groups(data) \o tail)
            = Ok(body \o SubSeq(GroupBytes(DecodeTail(tail[1], tail[2], tail[3], 1)), 1, 3 - 1))
      BY <2>6, TextDecodes DEF full, body
    <3> QED
      BY <2>4, <3>1, <3>2
  <2>8. SubSeq(<<a, b, 0>>, 1, 2) = <<a, b>>
    <3>1. 0 \in Byte
      BY DEF Byte
    <3> QED
      BY <2>2, <3>1, FirstOfThree
  <2> QED
    BY <1>3, <2>2, <2>3, <2>7, <2>8
<1> QED
  BY <1>1, <1>5, <1>6, <1>7

-----------------------------------------------------------------------------
(***************************************************************************)
(* Envelopes: the header is read piece by piece, and what is left of the   *)
(* envelope is the sealed value.                                           *)
(***************************************************************************)
LEMMA SplitsOff ==
    ASSUME NEW S, NEW a \in Seq(S), NEW b \in Seq(S)
    PROVE  /\ SubSeq(a \o b, 1, Len(a)) = a
           /\ SubSeq(a \o b, Len(a) + 1, Len(a \o b)) = b
<1> DEFINE c == a \o b
<1>1. /\ c \in Seq(S) /\ Len(c) = Len(a) + Len(b)
      /\ \A j \in 1..Len(a) : c[j] = a[j]
      /\ \A j \in 1..Len(b) : c[Len(a) + j] = b[j]
      /\ \A j \in 1..Len(c) : c[j] \in S
  BY Joined
<1> HIDE DEF c
<1>2. SubSeq(c, 1, Len(a)) = a
  <2> DEFINE q == SubSeq(c, 1, Len(a))
  <2>0. \A i \in 1..Len(a) : c[i] \in S
    BY <1>1
  <2>1. q \in Seq(S) /\ Len(q) = Len(a) /\ \A i \in 1..Len(a) : q[i] = c[i]
    <3>1. /\ q \in Seq(S) /\ Len(q) = (IF 1 <= Len(a) THEN Len(a) - 1 + 1 ELSE 0)
          /\ \A i \in 1 .. Len(a) - 1 + 1 : q[i] = c[1 + i - 1]
      BY <2>0, SubSeqProperties
    <3> QED
      BY <3>1
  <2> HIDE DEF q
  <2>2. q = a
    BY <1>1, <2>1, SeqEqual
  <2> QED
    BY <2>2 DEF q
<1>3. SubSeq(c, Len(a) + 1, Len(c)) = b
  <2> DEFINE q == SubSeq(c, Len(a) + 1, Len(c))
  <2>0. \A i \in (Len(a) + 1)..Len(c) : c[i] \in S
    BY <1>1
  <2>1. q \in Seq(S) /\ Len(q) = Len(b) /\ \A i \in 1..Len(b) : q[i] = b[i]
    <3>1. /\ q \in Seq(S)
          /\ Len(q) = (IF Len(a) + 1 <= Len(c) THEN Len(c) - (Len(a) + 1) + 1 ELSE 0)
          /\ \A i \in 1 .. Len(c) - (Len(a) + 1) + 1 : q[i] = c[(Len(a) + 1) + i - 1]
      BY <1>1, <2>0, SubSeqProperties
    <3> HIDE DEF q
    <3>2. Len(q) = Len(b)
      <4>1. Len(c) \in Nat /\ Len(a) \in Nat /\ Len(b) \in Nat /\ Len(c) = Len(a) + Len(b)
        BY <1>1
      <4>2. CASE Len(b) = 0
        BY <3>1, <4>1, <4>2
      <4>3. CASE Len(b) > 0
        BY <3>1, <4>1, <4>3
      <4> QED
        BY <4>1, <4>2, <4>3
    <3>3. ASSUME NEW i \in 1..Len(b)
          PROVE  q[i] = b[i]
      <4>1. /\ i \in 1 .. Len(c) - (Len(a) + 1) + 1
            /\ (Len(a) + 1) + i - 1 = Len(a) + i
        BY <1>1
      <4>2. q[i] = c[Len(a) + i]
        BY <3>1, <4>1
      <4> QED
        BY <1>1, <4>2
    <3> QED
      BY <3>1, <3>2, <3>3
  <2> HIDE DEF q
  <2>2. q = b
    BY <2>1, SeqEqual
  <2> QED
    BY <2>2 DEF q
<1> QED
  BY <1>2, <1>3 DEF c

LEMMA ReadsOff ==
    ASSUME NEW S, NEW a \in Seq(S), NEW b \in Seq(S), NEW read
    PROVE  ReadBytes(Reader(TRUE, a \o b, read), Len(a)) = Reader(TRUE, b, Append(read, a))
<1>1. Len(a \o b) >= Len(a)
  BY Joined
<1>2. SubSeq(a \o b, 1, Len(a)) = a /\ SubSeq(a \o b, Len(a) + 1, Len(a \o b)) = b
  BY SplitsOff
<1> DEFINE c == a \o b
           reader == Reader(TRUE, c, read)
<1> HIDE DEF c
<1>3. reader.ok = TRUE /\ reader.rest = c /\ reader.read = read
  BY DEF Reader
<1> HIDE DEF reader
<1>4. ~(~reader.ok \/ Len(reader.rest) < Len(a))
  BY <1>1, <1>3 DEF c
<1>5. ReadBytes(reader, Len(a)) = Reader(TRUE, SubSeq(c, Len(a) + 1, Len(c)), Append(read, SubSeq(c, 1, Len(a))))
  BY <1>3, <1>4 DEF ReadBytes
<1> QED
  BY <1>2, <1>5 DEF reader, c

(* The provers do not find an instance of a law of \o, but of one of this.  *)
Join(a, b) == a \o b

(* A join of bytes is bytes.                                               *)
LEMMA JoinTwo ==
    ASSUME NEW x \in ByteSeq, NEW y \in ByteSeq
    PROVE  Join(x, y) \in ByteSeq
<1>1. x \in Seq(Byte) /\ y \in Seq(Byte)
  BY DEF ByteSeq
<1>2. x \o y \in Seq(Byte)
  BY <1>1, ConcatProperties
<1> QED
  BY <1>2, Zenon DEF Join, ByteSeq

(* The order in which three are joined does not matter.                    *)
LEMMA JoinThree ==
    ASSUME NEW S, NEW x \in Seq(S), NEW y \in Seq(S), NEW z \in Seq(S)
    PROVE  Join(Join(x, y), z) = Join(x, Join(y, z))
<1>1. (x \o y) \o z = x \o (y \o z)
  BY ConcatAssociative
<1> QED
  BY <1>1, Zenon DEF Join

(* Nor does that of four, in the two orders met below.                     *)
LEMMA JoinFour ==
    ASSUME NEW h \in ByteSeq, NEW x \in ByteSeq, NEW y \in ByteSeq, NEW z \in ByteSeq
    PROVE  /\ Join(Join(Join(h, x), y), z) = Join(h, Join(x, Join(y, z)))
           /\ Join(Join(h, Join(x, y)), z) = Join(h, Join(x, Join(y, z)))
<1>1. Join(h, x) \in ByteSeq /\ Join(x, y) \in ByteSeq /\ Join(y, z) \in ByteSeq
  BY JoinTwo
<1>2. ASSUME NEW u \in ByteSeq, NEW v \in ByteSeq, NEW w \in ByteSeq
      PROVE  Join(Join(u, v), w) = Join(u, Join(v, w))
  <2>1. u \in Seq(Byte) /\ v \in Seq(Byte) /\ w \in Seq(Byte)
    BY DEF ByteSeq
  <2> QED
    BY <2>1, JoinThree, SMT
<1>3. /\ Join(Join(Join(h, x), y), z) = Join(Join(h, x), Join(y, z))
      /\ Join(Join(h, x), Join(y, z)) = Join(h, Join(x, Join(y, z)))
  BY <1>1, <1>2
<1>4. /\ Join(Join(h, Join(x, y)), z) = Join(h, Join(Join(x, y), z))
      /\ Join(Join(x, y), z) = Join(x, Join(y, z))
  BY <1>1, <1>2
<1> QED
  BY <1>3, <1>4

LEMMA HeaderIs ==
    ASSUME NEW a \in Byte, NEW b \in Byte, NEW c \in Byte,
           NEW x \in ByteSeq, NEW y \in ByteSeq, NEW z \in ByteSeq
    PROVE  Join(Join(Join(<<a, b, c>>, x), y), z)
             = Join(<<a>>, Join(<<b>>, Join(<<c>>, Join(x, Join(y, z)))))
<1> DEFINE h == <<a, b, c>>
           u == Join(x, Join(y, z))
           one == <<a>>
           two == <<b>>
           three == <<c>>
<1>1. /\ h \in ByteSeq /\ one \in ByteSeq /\ two \in ByteSeq /\ three \in ByteSeq
      /\ Len(h) = 3 /\ h[1] = a /\ h[2] = b /\ h[3] = c
      /\ Len(one) = 1 /\ Len(two) = 1 /\ Len(three) = 1
      /\ one[1] = a /\ two[1] = b /\ three[1] = c
  BY DEF ByteSeq
<1> HIDE DEF h, one, two, three
<1>1a. h \in ByteSeq /\ one \in ByteSeq /\ two \in ByteSeq /\ three \in ByteSeq
  BY <1>1
<1>2. h = Join(one, Join(two, three))
  <2>1. /\ two \o three \in ByteSeq /\ Len(two \o three) = 2
        /\ (two \o three)[1] = b /\ (two \o three)[2] = c
    <3>1. two \o three \in ByteSeq /\ Len(two \o three) = Len(two) + Len(three)
      BY <1>1a, Joined DEF ByteSeq
    <3>2. \A j \in 1..Len(two) : (two \o three)[j] = two[j]
      BY <1>1a, Joined DEF ByteSeq
    <3>3. \A j \in 1..Len(three) : (two \o three)[Len(two) + j] = three[j]
      BY <1>1a, Joined DEF ByteSeq
    <3> QED
      BY <1>1, <3>1, <3>2, <3>3
  <2>2. /\ one \o (two \o three) \in ByteSeq /\ Len(one \o (two \o three)) = 3
        /\ (one \o (two \o three))[1] = a /\ (one \o (two \o three))[2] = b
        /\ (one \o (two \o three))[3] = c
    BY <1>1, <2>1, ConcatProperties DEF ByteSeq
  <2>3. \A i \in 1..Len(h) : h[i] = (one \o (two \o three))[i]
    BY <1>1, <2>2
  <2> QED
    BY <1>1, <2>2, <2>3, SeqEqual DEF ByteSeq, Join
<1>3. u \in ByteSeq
  BY ConcatProperties DEF ByteSeq, Join
<1>4. Join(Join(Join(h, x), y), z) = Join(h, u)
  BY <1>1a, JoinFour
<1> HIDE DEF u
<1>5. Join(Join(one, Join(two, three)), u) = Join(one, Join(two, Join(three, u)))
  BY <1>1a, <1>3, JoinFour
<1> QED
  BY <1>2, <1>4, <1>5 DEF h, one, two, three, u

LEMMA FiveRead ==
    ASSUME NEW S, NEW a \in S, NEW b \in S, NEW c \in S, NEW d \in S, NEW e \in S
    PROVE  LET read == Append(Append(Append(Append(Append(<<>>, a), b), c), d), e) IN
           read[1] = a /\ read[2] = b /\ read[3] = c
<1> DEFINE r1 == Append(<<>>, a)
           r2 == Append(r1, b)
           r3 == Append(r2, c)
           r4 == Append(r3, d)
           r5 == Append(r4, e)
<1>1. r1 \in Seq(S) /\ Len(r1) = 1 /\ r1[1] = a
  OBVIOUS
<1> HIDE DEF r1
<1>2. r2 \in Seq(S) /\ Len(r2) = 2 /\ r2[1] = a /\ r2[2] = b
  <2>0. r1 \in Seq(S)
    BY <1>1
  <2>1. r2 \in Seq(S) /\ Len(r2) = Len(r1) + 1
    BY <2>0, AppendProperties
  <2>3. r2[Len(r1) + 1] = b
    BY <2>0, AppendProperties
  <2>2. \A i \in 1..Len(r1) : r2[i] = r1[i]
    BY <2>0, AppendProperties
  <2> HIDE DEF r2
  <2> QED
    BY <1>1, <2>1, <2>2, <2>3
<1> HIDE DEF r2
<1>3. r3 \in Seq(S) /\ Len(r3) = 3 /\ r3[1] = a /\ r3[2] = b /\ r3[3] = c
  <2>0. r2 \in Seq(S)
    BY <1>2
  <2>1. r3 \in Seq(S) /\ Len(r3) = Len(r2) + 1
    BY <2>0, AppendProperties
  <2>3. r3[Len(r2) + 1] = c
    BY <2>0, AppendProperties
  <2>2. \A i \in 1..Len(r2) : r3[i] = r2[i]
    BY <2>0, AppendProperties
  <2> HIDE DEF r3
  <2> QED
    BY <1>2, <2>1, <2>2, <2>3
<1> HIDE DEF r3
<1>4. r4 \in Seq(S) /\ Len(r4) = 4 /\ r4[1] = a /\ r4[2] = b /\ r4[3] = c
  <2>0. r3 \in Seq(S)
    BY <1>3
  <2>1. r4 \in Seq(S) /\ Len(r4) = Len(r3) + 1
    BY <2>0, AppendProperties
  <2>3. r4[Len(r3) + 1] = d
    BY <2>0, AppendProperties
  <2>2. \A i \in 1..Len(r3) : r4[i] = r3[i]
    BY <2>0, AppendProperties
  <2> HIDE DEF r4
  <2> QED
    BY <1>3, <2>1, <2>2, <2>3
<1> HIDE DEF r4
<1>5. r5 \in Seq(S) /\ Len(r5) = 5 /\ r5[1] = a /\ r5[2] = b /\ r5[3] = c
  <2>0. r4 \in Seq(S)
    BY <1>4
  <2>1. r5 \in Seq(S) /\ Len(r5) = Len(r4) + 1
    BY <2>0, AppendProperties
  <2>3. r5[Len(r4) + 1] = e
    BY <2>0, AppendProperties
  <2>2. \A i \in 1..Len(r4) : r5[i] = r4[i]
    BY <2>0, AppendProperties
  <2> HIDE DEF r5
  <2> QED
    BY <1>4, <2>1, <2>2, <2>3
<1> HIDE DEF r5
<1> QED
  BY <1>5 DEF r1, r2, r3, r4, r5

LEMMA HeaderParses ==
    ASSUME NEW data \in ByteSeq, NEW nonce \in ByteSeq, NEW tag \in ByteSeq, NEW kdf \in Kdfs,
           data # <<>>, Len(nonce) = IvLen, Len(tag) = TagLen
    PROVE  LET envelope == EncodeEnvelope(data, kdf, nonce, tag)
               parsed == ParseEnvelope(envelope)
           IN  /\ envelope \in ByteSeq /\ Len(envelope) = 3 + IvLen + TagLen + Len(data)
               /\ parsed.ok /\ parsed.rest = data
               /\ parsed.read[1] = <<V1>> /\ parsed.read[2] = <<kdf>> /\ parsed.read[3] = <<AES>>
<1> DEFINE envelope == EncodeEnvelope(data, kdf, nonce, tag)
           s1 == tag \o data
           s2 == nonce \o s1
           s3 == <<AES>> \o s2
           s4 == <<kdf>> \o s3
           s5 == <<V1>> \o s4
<1>1. /\ <<V1>> \in Seq(Byte) /\ <<kdf>> \in Seq(Byte) /\ <<AES>> \in Seq(Byte)
      /\ Len(<<V1>>) = 1 /\ Len(<<kdf>>) = 1 /\ Len(<<AES>>) = 1
  BY DEF Byte, Kdfs, V1, AES
<1>2. /\ s1 \in Seq(Byte) /\ Len(s1) = TagLen + Len(data)
  BY Joined DEF ByteSeq
<1>3. /\ s2 \in Seq(Byte) /\ Len(s2) = IvLen + Len(s1)
  BY <1>2, Joined DEF ByteSeq
<1>4. /\ s3 \in Seq(Byte) /\ Len(s3) = 1 + Len(s2)
  BY <1>1, <1>3, Joined
<1>5. /\ s4 \in Seq(Byte) /\ Len(s4) = 1 + Len(s3)
  BY <1>1, <1>4, Joined
<1>6. /\ s5 \in Seq(Byte) /\ Len(s5) = 1 + Len(s4)
  BY <1>1, <1>5, Joined
<1>7. envelope = s5
  <2>1. V1 \in Byte /\ kdf \in Byte /\ AES \in Byte
    BY DEF V1, Kdfs, AES, Byte
  <2>2. <<V1, kdf, AES>> \o nonce \o tag \o data = s5
    <3>1. Join(Join(Join(<<V1, kdf, AES>>, nonce), tag), data)
            = Join(<<V1>>, Join(<<kdf>>, Join(<<AES>>, Join(nonce, Join(tag, data)))))
      BY <2>1, HeaderIs
    <3> QED
      BY <3>1 DEF Join
  <2> QED
    BY <2>2 DEF EncodeEnvelope
<1> DEFINE r1 == Append(<<>>, <<V1>>)
           r2 == Append(r1, <<kdf>>)
           r3 == Append(r2, <<AES>>)
           r4 == Append(r3, nonce)
           r5 == Append(r4, tag)
<1>8. ParseEnvelope(s5) = Reader(TRUE, data, r5)
  <2>1. ReadBytes(Reader(TRUE, s5, <<>>), 1) = Reader(TRUE, s4, r1)
    BY <1>1, <1>5, ReadsOff
  <2>2. ReadBytes(Reader(TRUE, s4, r1), 1) = Reader(TRUE, s3, r2)
    BY <1>1, <1>4, ReadsOff
  <2>3. ReadBytes(Reader(TRUE, s3, r2), 1) = Reader(TRUE, s2, r3)
    BY <1>1, <1>3, ReadsOff
  <2>4. ReadBytes(Reader(TRUE, s2, r3), IvLen) = Reader(TRUE, s1, r4)
    BY <1>2, ReadsOff DEF ByteSeq
  <2>5. ReadBytes(Reader(TRUE, s1, r4), TagLen) = Reader(TRUE, data, r5)
    BY ReadsOff DEF ByteSeq
  <2> HIDE DEF s1, s2, s3, s4, s5, r1, r2, r3, r4, r5
  <2> QED
    BY <2>1, <2>2, <2>3, <2>4, <2>5 DEF ParseEnvelope
<1>9. r5[1] = <<V1>> /\ r5[2] = <<kdf>> /\ r5[3] = <<AES>>
  <2>1. <<V1>> \in ByteSeq /\ <<kdf>> \in ByteSeq /\ <<AES>> \in ByteSeq
    BY <1>1 DEF ByteSeq
  <2> QED
    BY <2>1, FiveRead
<1>10. Len(s5) = 3 + IvLen + TagLen + Len(data)
  BY <1>2, <1>3, <1>4, <1>5, <1>6 DEF ByteSeq, IvLen, TagLen
<1> HIDE DEF s1, s2, s3, s4, s5, r1, r2, r3, r4, r5, envelope
<1>11. /\ ParseEnvelope(s5).ok /\ ParseEnvelope(s5).rest = data /\ ParseEnvelope(s5).read = r5
  BY <1>8 DEF Reader
<1> QED
  BY <1>6, <1>7, <1>9, <1>10, <1>11 DEF envelope, ByteSeq

LEMMA RepeatedIs ==
    ASSUME bytes \in ByteSeq, bytes # <<>>, NEW n \in Nat
    PROVE  Repeated(n) \in ByteSeq /\ Len(Repeated(n)) = n
<1>1. Len(bytes) \in Nat /\ Len(bytes) > 0
  BY DEF ByteSeq
<1>2. ASSUME NEW i \in 1..n
      PROVE  1 + ((i - 1) % Len(bytes)) \in 1..Len(bytes)
  BY <1>1
<1>3. \A i \in 1..n : bytes[1 + ((i - 1) % Len(bytes))] \in Byte
  BY <1>2 DEF ByteSeq
<1>4. Repeated(n) \in [1..n -> Byte]
  BY <1>3 DEF Repeated
<1> QED
  BY <1>4 DEF ByteSeq

(* What a reader has left after handing out length bytes more of s.        *)
Leaves(reader, s, length) ==
  /\ reader.ok \in BOOLEAN /\ reader.rest \in ByteSeq
  /\ reader.ok => Len(reader.rest) = Len(s) - length

LEMMA LeavesLess ==
    ASSUME NEW s \in ByteSeq, NEW length \in Nat, NEW more \in Nat, NEW reader, Leaves(reader, s, length)
    PROVE  Leaves(ReadBytes(reader, more), s, length + more)
<1> DEFINE ok == reader.ok
           rest == reader.rest
           read == reader.read
<1>1. /\ ok \in BOOLEAN /\ rest \in ByteSeq
      /\ ok => Len(rest) = Len(s) - length
  BY DEF Leaves
<1>3. CASE ~ok \/ Len(rest) < more
  <2>1. ReadBytes(reader, more) = Reader(FALSE, rest, read)
    BY <1>3 DEF ReadBytes
  <2> HIDE DEF ok, rest, read
  <2> QED
    BY <1>1, <2>1 DEF Leaves, Reader
<1>4. CASE ~(~ok \/ Len(rest) < more)
  <2> DEFINE after == SubSeq(rest, more + 1, Len(rest))
             seen == Append(read, SubSeq(rest, 1, more))
  <2>1. ReadBytes(reader, more) = Reader(TRUE, after, seen)
    BY <1>4 DEF ReadBytes
  <2> HIDE DEF ok, rest, read
  <2>2. after \in ByteSeq /\ Len(after) = Len(rest) - more
    <3>1. Len(rest) \in Nat /\ more <= Len(rest) /\ \A i \in (more + 1)..Len(rest) : rest[i] \in Byte
      BY <1>1, <1>4 DEF ByteSeq
    <3>2. /\ after \in Seq(Byte)
          /\ Len(after) = IF more + 1 <= Len(rest) THEN Len(rest) - (more + 1) + 1 ELSE 0
      BY <3>1, SubSeqProperties
    <3> HIDE DEF after
    <3> QED
      BY <3>1, <3>2 DEF ByteSeq
  <2>3. Len(after) = Len(s) - (length + more)
    <3>1. Len(rest) = Len(s) - length /\ Len(s) \in Nat /\ Len(rest) \in Nat
      BY <1>1, <1>4 DEF ByteSeq
    <3> HIDE DEF after
    <3> QED
      BY <2>2, <3>1
  <2> HIDE DEF after, seen
  <2> QED
    BY <2>1, <2>2, <2>3 DEF Leaves, Reader
<1> QED
  BY <1>3, <1>4

LEMMA ShortIsRefused ==
    ASSUME NEW s \in ByteSeq, NEW kdf, Len(s) <= 3 + IvLen + TagLen
    PROVE  ~DecodeEnvelope(s, kdf).ok
<1> DEFINE r0 == Reader(TRUE, s, <<>>)
           r1 == ReadBytes(r0, 1)
           r2 == ReadBytes(r1, 1)
           r3 == ReadBytes(r2, 1)
           r4 == ReadBytes(r3, IvLen)
           r5 == ReadBytes(r4, TagLen)
<1>0. Len(s) \in Nat
  BY DEF ByteSeq
<1>1. Leaves(r0, s, 0)
  BY <1>0 DEF Leaves, Reader
<1>2. Leaves(r1, s, 0 + 1)
  BY <1>1, LeavesLess
<1> HIDE DEF r0, r1
<1>3. Leaves(r2, s, 0 + 1 + 1)
  BY <1>2, LeavesLess
<1> HIDE DEF r2
<1>4. Leaves(r3, s, 0 + 1 + 1 + 1)
  BY <1>3, LeavesLess
<1> HIDE DEF r3
<1>5. Leaves(r4, s, 0 + 1 + 1 + 1 + IvLen)
  BY <1>4, LeavesLess DEF IvLen
<1> HIDE DEF r4
<1>6. Leaves(r5, s, 0 + 1 + 1 + 1 + IvLen + TagLen)
  BY <1>5, LeavesLess DEF IvLen, TagLen
<1>7. ParseEnvelope(s) = r5
  BY DEF ParseEnvelope, r0, r1, r2, r3, r4
<1> HIDE DEF r5
<1> DEFINE ok == r5.ok
           rest == r5.rest
<1>8. /\ ok \in BOOLEAN /\ rest \in ByteSeq
      /\ ok => Len(rest) = Len(s) - (0 + 1 + 1 + 1 + IvLen + TagLen)
  BY <1>6 DEF Leaves
<1>9. ~ok \/ rest = <<>>
  <2>1. Len(rest) \in Nat /\ (Len(rest) = 0 => rest = <<>>)
    BY <1>8 DEF ByteSeq
  <2> QED
    BY <1>0, <1>8, <2>1 DEF IvLen, TagLen
<1>10. DecodeEnvelope(s, kdf) = Invalid
  BY <1>7, <1>9 DEF DecodeEnvelope
<1> QED
  BY <1>10 DEF Invalid

(* An envelope is read back under its own derivation only, and no start of *)
(* it that ends in the header is taken for one.                            *)
LEMMA EnvelopesRead ==
    ASSUME bytes \in ByteSeq, bytes # <<>>, NEW kdf \in Kdfs
    PROVE  EnvelopeReads(kdf)
<1> DEFINE nonce == Repeated(IvLen)
           tag == Repeated(TagLen)
           envelope == EncodeEnvelope(bytes, kdf, nonce, tag)
           parsed == ParseEnvelope(envelope)
<1>1. /\ nonce \in ByteSeq /\ Len(nonce) = IvLen
      /\ tag \in ByteSeq /\ Len(tag) = TagLen
  BY RepeatedIs DEF IvLen, TagLen
<1> HIDE DEF nonce, tag
<1>2. /\ envelope \in ByteSeq /\ Len(envelope) = 3 + IvLen + TagLen + Len(bytes)
      /\ parsed.ok /\ parsed.rest = bytes
      /\ parsed.read[1] = <<V1>> /\ parsed.read[2] = <<kdf>> /\ parsed.read[3] = <<AES>>
  BY <1>1, HeaderParses
<1> HIDE DEF envelope
<1>3. ASSUME NEW other \in Kdfs
      PROVE  DecodeEnvelope(envelope, other) = IF other = kdf THEN Ok(bytes) ELSE Invalid
  <2>1. <<AES>> \in {<<1>>, <<2>>}
    BY DEF AES
  <2>2. <<kdf>> = <<other>> <=> other = kdf
    OBVIOUS
  <2> HIDE DEF parsed
  <2>3. parsed = ParseEnvelope(envelope)
    BY DEF parsed
  <2>4. CASE other = kdf
    BY <1>2, <2>1, <2>3, <2>4 DEF DecodeEnvelope
  <2>5. CASE other # kdf
    <3>1. parsed.read[2] # <<other>>
      BY <1>2, <2>2, <2>5
    <3> QED
      BY <2>3, <2>5, <3>1 DEF DecodeEnvelope
  <2> QED
    BY <2>4, <2>5
<1>4. ASSUME NEW n \in 0..(3 + IvLen + TagLen)
      PROVE  ~DecodeEnvelope(SubSeq(envelope, 1, n), kdf).ok
  <2> DEFINE s == SubSeq(envelope, 1, n)
  <2>1. n \in Nat /\ n <= 3 + IvLen + TagLen /\ Len(bytes) \in Nat
    BY DEF IvLen, TagLen, ByteSeq
  <2>2. n <= Len(envelope)
    BY <1>2, <2>1 DEF IvLen, TagLen
  <2>3. \A i \in 1..n : envelope[i] \in Byte
    BY <1>2, <2>1, <2>2 DEF ByteSeq
  <2>4. s \in Seq(Byte) /\ Len(s) = IF 1 <= n THEN n - 1 + 1 ELSE 0
    BY <2>1, <2>3, SubSeqProperties
  <2> HIDE DEF s
  <2>5. s \in ByteSeq /\ Len(s) = n
    BY <2>1, <2>4 DEF ByteSeq
  <2>6. ~DecodeEnvelope(s, kdf).ok
    BY <2>1, <2>5, ShortIsRefused
  <2> QED
    BY <2>6 DEF s
<1> HIDE DEF parsed
<1> QED
  BY <1>3, <1>4 DEF EnvelopeReads, envelope, nonce, tag

-----------------------------------------------------------------------------
(***************************************************************************)
(* Signatures: a number loses its leading zeros and no more.               *)
(***************************************************************************)
(* A piece of a byte sequence.                                             *)
LEMMA PieceIs ==
    ASSUME NEW s \in ByteSeq, NEW m \in Nat, NEW n \in Nat, 1 <= m, m <= n + 1, n <= Len(s)
    PROVE  /\ SubSeq(s, m, n) \in ByteSeq /\ Len(SubSeq(s, m, n)) = n - m + 1
           /\ \A i \in 1..(n - m + 1) : SubSeq(s, m, n)[i] = s[m + i - 1]
<1> DEFINE q == SubSeq(s, m, n)
<1>1. \A i \in m..n : s[i] \in Byte
  BY DEF ByteSeq
<1>2. /\ q \in Seq(Byte) /\ Len(q) = IF m <= n THEN n - m + 1 ELSE 0
      /\ \A i \in 1..n - m + 1 : q[i] = s[m + i - 1]
  BY <1>1, SubSeqProperties
<1> HIDE DEF q
<1>3. Len(q) = n - m + 1
  BY <1>2
<1> QED
  BY <1>2, <1>3 DEF ByteSeq, q

LEMMA TrimIs ==
    ASSUME NEW span \in ByteSeq, span # <<>>
    PROVE  \E first \in 1..Len(span) :
             /\ TrimLeadingZeros(span) = SubSeq(span, first, Len(span))
             /\ \A j \in 1..(first - 1) : span[j] = 0
             /\ first = Len(span) \/ span[first] # 0
<1> DEFINE n == Len(span)
           Starts(i) == i = n \/ span[i] # 0
           first == CHOOSE i \in 1..n : (\A j \in 1..(i - 1) : span[j] = 0) /\ Starts(i)
           T == {i \in 1..n : Starts(i)}
<1>1. n \in Nat /\ n \in 1..n
  BY DEF ByteSeq
<1>2. PICK low \in T : \A i \in T : low <= i
  <2>1. T \in SUBSET Nat /\ T # {}
    BY <1>1
  <2> HIDE DEF T
  <2> QED
    BY <2>1, Smallest
<1>3. ASSUME NEW j \in 1..(low - 1)
      PROVE  span[j] = 0
  <2>1. j \in 1..n /\ ~(low <= j)
    BY <1>1, <1>2
  <2>2. j \notin T
    BY <1>2, <2>1
  <2> QED
    BY <2>1, <2>2
<1>4. low \in 1..n /\ (\A j \in 1..(low - 1) : span[j] = 0) /\ Starts(low)
  BY <1>2, <1>3
<1>5. first \in 1..n /\ (\A j \in 1..(first - 1) : span[j] = 0) /\ Starts(first)
  BY <1>4
<1>6. TrimLeadingZeros(span) = SubSeq(span, first, n)
  BY DEF TrimLeadingZeros
<1> HIDE DEF first
<1> QED
  BY <1>5, <1>6

(* The content of a DER integer: the number, as short as it can be, with a *)
(* zero before it where its first bit is set.                              *)
Content(span) ==
  LET sub == TrimLeadingZeros(span) IN IF sub[1] >= 128 THEN <<0>> \o sub ELSE sub

LEMMA TrimmedIs ==
    ASSUME NEW span \in ByteSeq, span # <<>>
    PROVE  LET sub == TrimLeadingZeros(span) IN
           /\ sub \in ByteSeq /\ Len(sub) \in 1..Len(span)
           /\ sub[1] = 0 => Len(sub) = 1
           /\ \A k \in Nat : FromEnd(sub, k) = FromEnd(span, k)
<1> DEFINE n == Len(span)
           sub == TrimLeadingZeros(span)
<1>1. n \in Nat /\ n >= 1
  BY DEF ByteSeq
<1>2. PICK first \in 1..n :
          /\ sub = SubSeq(span, first, n)
          /\ \A j \in 1..(first - 1) : span[j] = 0
          /\ first = n \/ span[first] # 0
  BY TrimIs
<1>3. /\ sub \in ByteSeq /\ Len(sub) = n - first + 1
      /\ \A i \in 1..(n - first + 1) : sub[i] = span[first + i - 1]
  BY <1>1, <1>2, PieceIs
<1> HIDE DEF sub
<1>4. Len(sub) \in 1..n
  BY <1>1, <1>3
<1>5. sub[1] = 0 => Len(sub) = 1
  <2>1. 1 \in 1..(n - first + 1) /\ first + 1 - 1 = first
    BY <1>1
  <2>2. sub[1] = span[first]
    BY <1>3, <2>1
  <2> QED
    BY <1>1, <1>2, <1>3, <2>2
<1>6. ASSUME NEW k \in Nat
      PROVE  FromEnd(sub, k) = FromEnd(span, k)
  <2>1. CASE k < Len(sub)
    <3>1. Len(sub) - k \in 1..(n - first + 1) /\ first + (Len(sub) - k) - 1 = n - k /\ k < n
      BY <1>1, <1>3, <2>1
    <3>2. sub[Len(sub) - k] = span[n - k]
      BY <1>3, <3>1
    <3> QED
      BY <2>1, <3>1, <3>2 DEF FromEnd
  <2>2. CASE ~(k < Len(sub)) /\ k < n
    <3>1. n - k \in 1..(first - 1)
      BY <1>1, <1>3, <2>2
    <3>2. span[n - k] = 0
      BY <1>2, <3>1
    <3> QED
      BY <2>2, <3>2 DEF FromEnd
  <2>3. CASE ~(k < n)
    <3>1. ~(k < Len(sub))
      BY <1>1, <1>4, <2>3
    <3> QED
      BY <2>3, <3>1 DEF FromEnd
  <2> QED
    BY <2>1, <2>2, <2>3
<1> QED
  BY <1>3, <1>4, <1>5, <1>6 DEF sub

LEMMA ContentIs ==
    ASSUME NEW span \in ByteSeq, span # <<>>
    PROVE  /\ Content(span) \in ByteSeq /\ Len(Content(span)) \in 1..(Len(span) + 1)
           /\ IsMinimal(Content(span))
           /\ \A k \in Nat : FromEnd(Content(span), k) = FromEnd(span, k)
<1> DEFINE sub == TrimLeadingZeros(span)
<1>1. /\ sub \in ByteSeq /\ Len(sub) \in 1..Len(span)
      /\ sub[1] = 0 => Len(sub) = 1
      /\ \A k \in Nat : FromEnd(sub, k) = FromEnd(span, k)
  BY TrimmedIs
<1> HIDE DEF sub
<1>2. Len(span) \in Nat /\ Len(sub) \in Nat /\ sub[1] \in Byte
  BY <1>1 DEF ByteSeq
<1>2a. \A b \in Byte : b < 128 <=> ~(b >= 128)
  BY DEF Byte
<1>3. CASE sub[1] < 128
  <2>1. Content(span) = sub
    <3>1. ~(sub[1] >= 128)
      BY <1>2, <1>2a, <1>3
    <3> QED
      BY <3>1 DEF Content, sub
  <2>2. sub # <<>>
    BY <1>1
  <2>3. IsMinimal(sub)
    BY <1>1, <1>3, <2>2 DEF IsMinimal
  <2> QED
    BY <1>1, <1>2, <2>1, <2>3
<1>4. CASE sub[1] >= 128
  <2> DEFINE zero == <<0>>
             content == zero \o sub
  <2>1. Content(span) = content
    BY <1>4 DEF Content, sub
  <2>2. zero \in Seq(Byte) /\ Len(zero) = 1 /\ zero[1] = 0
    BY DEF Byte
  <2> HIDE DEF zero
  <2>3. /\ content \in Seq(Byte) /\ Len(content) = 1 + Len(sub)
        /\ \A j \in 1..1 : content[j] = zero[j]
        /\ \A j \in 1..Len(sub) : content[1 + j] = sub[j]
    <3>0. sub \in Seq(Byte) /\ zero \in Seq(Byte)
      BY <1>1, <2>2 DEF ByteSeq
    <3>1. content \in Seq(Byte) /\ Len(content) = Len(zero) + Len(sub)
      BY <3>0, Joined
    <3>2. \A j \in 1..Len(zero) : content[j] = zero[j]
      BY <3>0, Joined
    <3>3. \A j \in 1..Len(sub) : content[Len(zero) + j] = sub[j]
      BY <3>0, Joined
    <3> HIDE DEF content
    <3> QED
      BY <2>2, <3>1, <3>2, <3>3
  <2> HIDE DEF content
  <2>4. content[1] = 0 /\ content[2] = sub[1] /\ content # <<>>
    <3>1. 1 \in 1..1 /\ 1 \in 1..Len(sub) /\ 1 + 1 = 2
      BY <1>1
    <3> QED
      BY <2>2, <2>3, <3>1
  <2>5. IsMinimal(content)
    BY <1>4, <2>4 DEF IsMinimal
  <2>6. ASSUME NEW k \in Nat
        PROVE  FromEnd(content, k) = FromEnd(sub, k)
    <3>1. CASE k < Len(sub)
      <4>1. Len(sub) - k \in 1..Len(sub) /\ Len(content) - k = 1 + (Len(sub) - k) /\ k < Len(content)
        BY <1>2, <2>3, <3>1
      <4>2. content[Len(content) - k] = sub[Len(sub) - k]
        BY <2>3, <4>1
      <4> QED
        BY <3>1, <4>1, <4>2 DEF FromEnd
    <3>2. CASE k = Len(sub)
      <4>1. Len(content) - k = 1 /\ k < Len(content) /\ ~(k < Len(sub))
        BY <1>2, <2>3, <3>2
      <4> QED
        BY <2>4, <4>1 DEF FromEnd
    <3>3. CASE k > Len(sub)
      <4>1. ~(k < Len(content)) /\ ~(k < Len(sub))
        BY <1>2, <2>3, <3>3
      <4> QED
        BY <4>1 DEF FromEnd
    <3> QED
      BY <1>2, <3>1, <3>2, <3>3
  <2>7. Len(content) \in 1..(Len(span) + 1)
    BY <1>1, <1>2, <2>3
  <2> QED
    BY <1>1, <2>1, <2>3, <2>5, <2>6, <2>7 DEF ByteSeq
<1> QED
  <2>1. sub[1] < 128 \/ sub[1] >= 128
    BY <1>2, <1>2a
  <2> QED
    BY <1>3, <1>4, <2>1

LEMMA PairIs ==
    ASSUME NEW a \in Nat, NEW b \in Nat, NEW s \in Seq(Nat)
    PROVE  LET q == <<a, b>> \o s IN
           /\ q \in Seq(Nat) /\ Len(q) = 2 + Len(s) /\ q[1] = a /\ q[2] = b
           /\ \A j \in 1..Len(s) : q[2 + j] = s[j]
<1> DEFINE two == <<a, b>>
           q == two \o s
<1>1. two \in Seq(Nat) /\ Len(two) = 2 /\ two[1] = a /\ two[2] = b
  OBVIOUS
<1> HIDE DEF two
<1>1a. two \in Seq(Nat)
  BY <1>1
<1>2. q \in Seq(Nat) /\ Len(q) = Len(two) + Len(s)
  BY <1>1a, Joined
<1>3. \A j \in 1..Len(two) : q[j] = two[j]
  BY <1>1a, Joined
<1>4. \A j \in 1..Len(s) : q[Len(two) + j] = s[j]
  BY <1>1a, Joined
<1> HIDE DEF q
<1>5. /\ q \in Seq(Nat) /\ Len(q) = 2 + Len(s) /\ q[1] = a /\ q[2] = b
      /\ \A j \in 1..Len(s) : q[2 + j] = s[j]
  BY <1>1, <1>2, <1>3, <1>4
<1> QED
  BY <1>5 DEF q, two

(* The two integers of a signature, and the sequence they are in.          *)
BothIntegers(c1, c2) == (<<2, Len(c1)>> \o c1) \o (<<2, Len(c2)>> \o c2)
Sequence(l, c1, c2) == <<48, l>> \o BothIntegers(c1, c2)

Framed(l, c1, c2) ==
  LET n1 == Len(c1)
      n2 == Len(c2)
      der == Sequence(l, c1, c2)
  IN  /\ Len(BothIntegers(c1, c2)) = 4 + n1 + n2
      /\ der \in Seq(Nat) /\ Len(der) = 6 + n1 + n2
      /\ der[1] = 48 /\ der[2] = l /\ der[3] = 2 /\ der[4] = n1
      /\ \A j \in 1..n1 : der[4 + j] = c1[j]
      /\ der[5 + n1] = 2 /\ der[6 + n1] = n2
      /\ \A j \in 1..n2 : der[6 + n1 + j] = c2[j]

LEMMA DerIs ==
    ASSUME NEW l \in Nat, NEW c1 \in Seq(Nat), NEW c2 \in Seq(Nat)
    PROVE  Framed(l, c1, c2)
<1> DEFINE n1 == Len(c1)
           n2 == Len(c2)
           d1 == <<2, n1>> \o c1
           d2 == <<2, n2>> \o c2
           inner == d1 \o d2
           der == <<48, l>> \o inner
<1>1. n1 \in Nat /\ n2 \in Nat
  OBVIOUS
<1>2. /\ d1 \in Seq(Nat) /\ Len(d1) = 2 + n1 /\ d1[1] = 2 /\ d1[2] = n1
      /\ \A j \in 1..n1 : d1[2 + j] = c1[j]
  BY <1>1, PairIs
<1>3. /\ d2 \in Seq(Nat) /\ Len(d2) = 2 + n2 /\ d2[1] = 2 /\ d2[2] = n2
      /\ \A j \in 1..n2 : d2[2 + j] = c2[j]
  BY <1>1, PairIs
<1> HIDE DEF d1, d2
<1>3a. d1 \in Seq(Nat) /\ d2 \in Seq(Nat)
  BY <1>2, <1>3
<1>4. inner \in Seq(Nat) /\ Len(inner) = Len(d1) + Len(d2)
  BY <1>3a, Joined
<1>5. \A j \in 1..Len(d1) : inner[j] = d1[j]
  BY <1>3a, Joined
<1>6. \A j \in 1..Len(d2) : inner[Len(d1) + j] = d2[j]
  BY <1>3a, Joined
<1> HIDE DEF inner
<1>7. /\ der \in Seq(Nat) /\ Len(der) = 2 + Len(inner) /\ der[1] = 48 /\ der[2] = l
      /\ \A j \in 1..Len(inner) : der[2 + j] = inner[j]
  BY <1>4, PairIs
<1> HIDE DEF der, n1, n2
<1>8. Len(inner) = 4 + n1 + n2 /\ Len(der) = 6 + n1 + n2
  BY <1>1, <1>2, <1>3, <1>4, <1>7
<1>9. ASSUME NEW j \in 1..(2 + n1)
      PROVE  der[2 + j] = d1[j]
  <2>1. j \in 1..Len(d1) /\ j \in 1..Len(inner)
    BY <1>1, <1>2, <1>8
  <2> QED
    BY <1>5, <1>7, <2>1
<1>10. ASSUME NEW j \in 1..(2 + n2)
       PROVE  der[4 + n1 + j] = d2[j]
  <2>1. j \in 1..Len(d2) /\ Len(d1) + j \in 1..Len(inner) /\ 2 + (Len(d1) + j) = 4 + n1 + j
    BY <1>1, <1>2, <1>3, <1>8
  <2>2. inner[Len(d1) + j] = d2[j]
    BY <1>6, <2>1
  <2>3. der[2 + (Len(d1) + j)] = inner[Len(d1) + j]
    BY <1>7, <2>1
  <2> QED
    BY <2>1, <2>2, <2>3
<1>11. der[3] = 2 /\ der[4] = n1
  <2>1. 1 \in 1..(2 + n1) /\ 2 \in 1..(2 + n1) /\ 2 + 1 = 3 /\ 2 + 2 = 4
    BY <1>1
  <2> QED
    BY <1>2, <1>9, <2>1
<1>12. der[5 + n1] = 2 /\ der[6 + n1] = n2
  <2>1. /\ 1 \in 1..(2 + n2) /\ 2 \in 1..(2 + n2)
        /\ 4 + n1 + 1 = 5 + n1 /\ 4 + n1 + 2 = 6 + n1
    BY <1>1
  <2> QED
    BY <1>3, <1>10, <2>1
<1>13. ASSUME NEW j \in 1..n1
       PROVE  der[4 + j] = c1[j]
  <2>1. 2 + j \in 1..(2 + n1) /\ 2 + (2 + j) = 4 + j
    BY <1>1
  <2> QED
    BY <1>2, <1>9, <2>1
<1>14. ASSUME NEW j \in 1..n2
       PROVE  der[6 + n1 + j] = c2[j]
  <2>1. 2 + j \in 1..(2 + n2) /\ 4 + n1 + (2 + j) = 6 + n1 + j
    BY <1>1
  <2> QED
    BY <1>3, <1>10, <2>1
<1>15. der = Sequence(l, c1, c2) /\ inner = BothIntegers(c1, c2)
  BY DEF der, inner, d1, d2, n1, n2, Sequence, BothIntegers
<1> QED
  BY <1>7, <1>8, <1>11, <1>12, <1>13, <1>14, <1>15 DEF n1, n2, Framed

(* The i-th of n elements behind place m + 1, which is place k.            *)
LEMMA PlaceBehind ==
    ASSUME NEW m \in Nat, NEW n \in Nat, NEW i \in 1..n, NEW k, m + 1 = k
    PROVE  i \in 1..(m + 1 + n) - (m + 2) + 1 /\ (m + 2) + i - 1 = k + i
  OBVIOUS

(* What is written in the short form reads as the two numbers.             *)
LEMMA ReadsAsWritten ==
    ASSUME NEW r \in ByteSeq, NEW s \in ByteSeq, r # <<>>, s # <<>>,
           NEW l \in Nat, l < 128, l = 4 + Len(Content(r)) + Len(Content(s))
    PROVE  ReadsAs(<<48, l>> \o (DerInteger(r) \o DerInteger(s)), r, s)
<1> DEFINE c1 == Content(r)
           c2 == Content(s)
           n1 == Len(c1)
           n2 == Len(c2)
           der == Sequence(l, c1, c2)
<1>1. der = <<48, l>> \o (DerInteger(r) \o DerInteger(s))
  BY DEF DerInteger, Content, Sequence, BothIntegers
<1>2. /\ c1 \in ByteSeq /\ n1 >= 1 /\ IsMinimal(c1) /\ \A k \in Nat : FromEnd(c1, k) = FromEnd(r, k)
      /\ c2 \in ByteSeq /\ n2 >= 1 /\ IsMinimal(c2) /\ \A k \in Nat : FromEnd(c2, k) = FromEnd(s, k)
  BY ContentIs
<1>3. c1 \in Seq(Nat) /\ c2 \in Seq(Nat) /\ n1 \in Nat /\ n2 \in Nat
      /\ n1 = Len(c1) /\ n2 = Len(c2)
  <2>1. Byte \subseteq Nat
    BY DEF Byte
  <2>2. c1 \in Seq(Byte) /\ c2 \in Seq(Byte)
    BY <1>2 DEF ByteSeq
  <2>3. c1 \in Seq(Nat) /\ c2 \in Seq(Nat)
    BY <2>1, <2>2, Wider
  <2> QED
    BY <2>3
<1>0. l = 4 + n1 + n2
  OBVIOUS
<1> HIDE DEF c1, c2
<1>3a. Framed(l, c1, c2)
  BY <1>3, DerIs
<1>4. /\ der \in Seq(Nat) /\ Len(der) = 6 + n1 + n2
      /\ der[1] = 48 /\ der[2] = l /\ der[3] = 2 /\ der[4] = n1
      /\ \A j \in 1..n1 : der[4 + j] = c1[j]
      /\ der[5 + n1] = 2 /\ der[6 + n1] = n2
      /\ \A j \in 1..n2 : der[6 + n1 + j] = c2[j]
  BY <1>3a DEF Framed
<1> HIDE DEF der, n1, n2
<1>4a. \A i \in 1..(6 + n1 + n2) : der[i] \in Nat
  <2>1. der \in Seq(Nat) /\ Len(der) = 6 + n1 + n2
    BY <1>4, Zenon
  <2>2. \A i \in 1..Len(der) : der[i] \in Nat
    BY <2>1, ElementOfSeq, Zenon
  <2> QED
    BY <2>1, <2>2, Zenon
<1>5. IntegerAt(der, 3) = c1
  <2> DEFINE q == SubSeq(der, 3 + 2, 3 + 1 + n1)
  <2>1. \A i \in (3 + 2)..(3 + 1 + n1) : der[i] \in Nat
    <3>1. \A i \in (3 + 2)..(3 + 1 + n1) : i \in 1..(6 + n1 + n2)
      BY <1>3
    <3> QED
      BY <1>4a, <3>1
  <2>2. /\ q \in Seq(Nat)
        /\ Len(q) = IF 3 + 2 <= 3 + 1 + n1 THEN (3 + 1 + n1) - (3 + 2) + 1 ELSE 0
        /\ \A i \in 1..(3 + 1 + n1) - (3 + 2) + 1 : q[i] = der[(3 + 2) + i - 1]
    BY <1>3, <2>1, SubSeqProperties
  <2>3. IntegerAt(der, 3) = q
    <3>1. der[3 + 1] = n1
      <4>1. 3 + 1 = 4
        OBVIOUS
      <4> QED
        BY <1>4, <4>1
    <3> QED
      BY <3>1 DEF IntegerAt
  <2> HIDE DEF q
  <2>4. Len(q) = n1
    BY <1>2, <1>3, <2>2
  <2>5. ASSUME NEW i \in 1..n1
        PROVE  q[i] = c1[i]
    <3>1. i \in 1..(3 + 1 + n1) - (3 + 2) + 1 /\ (3 + 2) + i - 1 = 4 + i
      BY <1>3
    <3> QED
      BY <1>4, <2>2, <3>1
  <2>6. q = c1
    BY <1>3, <2>2, <2>4, <2>5, SeqEqual
  <2> QED
    BY <2>3, <2>6
<1>6. IntegerAt(der, 5 + n1) = c2
  <2> DEFINE m == 5 + n1
             q == SubSeq(der, m + 2, m + 1 + n2)
  <2>0. m \in Nat /\ m + 1 = 6 + n1 /\ m + 1 + n2 = Len(der)
    BY <1>3, <1>4
  <2>1. \A i \in (m + 2)..(m + 1 + n2) : der[i] \in Nat
    <3>1. \A i \in (m + 2)..(m + 1 + n2) : i \in 1..(6 + n1 + n2)
      BY <1>3
    <3> QED
      BY <1>4a, <3>1
  <2>3. IntegerAt(der, m) = q
    BY <1>4, <2>0 DEF IntegerAt
  <2> HIDE DEF m
  <2>2. /\ q \in Seq(Nat)
        /\ Len(q) = IF m + 2 <= m + 1 + n2 THEN (m + 1 + n2) - (m + 2) + 1 ELSE 0
        /\ \A i \in 1..(m + 1 + n2) - (m + 2) + 1 : q[i] = der[(m + 2) + i - 1]
    BY <1>3, <2>0, <2>1, SubSeqProperties
  <2> HIDE DEF q
  <2>4. Len(q) = n2
    BY <1>2, <1>3, <2>0, <2>2
  <2>5. ASSUME NEW i \in 1..n2
        PROVE  q[i] = c2[i]
    <3>1. i \in 1..(m + 1 + n2) - (m + 2) + 1 /\ (m + 2) + i - 1 = 6 + n1 + i
      <4>1. m \in Nat /\ n2 \in Nat /\ m + 1 = 6 + n1
        BY <1>3, <2>0, Zenon
      <4>2. \A k : m + 1 = k =>
               i \in 1..(m + 1 + n2) - (m + 2) + 1 /\ (m + 2) + i - 1 = k + i
        BY <4>1, PlaceBehind, Zenon
      <4> QED
        BY <4>1, <4>2, Zenon
    <3>2. q[i] = der[(m + 2) + i - 1]
      BY <2>2, <3>1, Zenon
    <3>3. der[6 + n1 + i] = c2[i]
      BY <1>4, Zenon
    <3> QED
      BY <3>1, <3>2, <3>3, Zenon
  <2>6. q = c2
    BY <1>3, <2>2, <2>4, <2>5, SeqEqual
  <2> QED
    BY <2>3, <2>6 DEF m
<1>7. SameNumber(c1, r) /\ SameNumber(c2, s)
  <2>1. /\ \A k \in 0..(Len(c1) + Len(r)) : k \in Nat
        /\ \A k \in 0..(Len(c2) + Len(s)) : k \in Nat
    OBVIOUS
  <2> QED
    BY <1>2, <2>1 DEF SameNumber
<1>8. /\ der[2] = Len(der) - 2 /\ der[2] < 128
      /\ 5 + der[4] = 5 + n1 /\ (5 + n1) + 1 + der[(5 + n1) + 1] = Len(der)
  <2>1. l = 4 + n1 + n2
    BY <1>0
  <2>2. (5 + n1) + 1 = 6 + n1
    BY <1>3
  <2>3. der[2] = l /\ der[4] = n1 /\ der[6 + n1] = n2
    BY <1>4
  <2>4. Len(der) = 6 + n1 + n2
    BY <1>4
  <2> QED
    BY <1>3, <2>1, <2>2, <2>3, <2>4
<1>9. ReadsAs(der, r, s)
  BY <1>2, <1>4, <1>5, <1>6, <1>7, <1>8 DEF ReadsAs
<1> QED
  BY <1>1, <1>9

(* A signature that fits the short form is written as its two numbers, and *)
(* only those are refused that do not fit.                                 *)
LEMMA SignaturesRead ==
    ASSUME NEW signature \in ByteSeq
    PROVE  SignatureReads(signature)
<1> DEFINE half == Len(signature) \div 2
           r == SubSeq(signature, 1, half)
           s == SubSeq(signature, half + 1, Len(signature))
           inner == DerInteger(r) \o DerInteger(s)
           der == ExportSignatureToDER(signature)
<1>1. CASE Len(signature) % 2 # 0 \/ signature = <<>>
  <2>1. der = Invalid
    BY <1>1 DEF ExportSignatureToDER
  <2>2. ~der.ok
    BY <2>1 DEF Invalid
  <2> QED
    BY <1>1, <2>2 DEF SignatureReads
<1>2. CASE ~(Len(signature) % 2 # 0 \/ signature = <<>>)
  <2>1. half \in Nat /\ half >= 1 /\ Len(signature) = half + half
    <3>1. Len(signature) \in Nat /\ Len(signature) >= 1 /\ Len(signature) % 2 = 0
      BY <1>2 DEF ByteSeq
    <3> QED
      BY <3>1
  <2> HIDE DEF half
  <2>2. r \in ByteSeq /\ Len(r) = half
    <3>1. half - 1 + 1 = half /\ 1 <= half + 1 /\ half <= Len(signature)
      BY <2>1
    <3>2. r \in ByteSeq /\ Len(r) = half - 1 + 1
      BY <2>1, <3>1, PieceIs
    <3> HIDE DEF r
    <3> QED
      BY <3>1, <3>2
  <2>3. s \in ByteSeq /\ Len(s) = half
    <3>1. /\ Len(signature) \in Nat /\ half + 1 \in Nat /\ 1 <= half + 1
          /\ half + 1 <= Len(signature) + 1
          /\ Len(signature) - (half + 1) + 1 = half
      BY <2>1
    <3>2. s \in ByteSeq /\ Len(s) = Len(signature) - (half + 1) + 1
      BY <3>1, PieceIs
    <3> HIDE DEF s
    <3> QED
      BY <3>1, <3>2
  <2>4. der = IF Len(inner) > 127 THEN Invalid ELSE Ok(<<48, Len(inner)>> \o inner)
    BY <1>2 DEF ExportSignatureToDER, half
  <2>5. SignatureReads(signature) <=>
          /\ der.ok => ReadsAs(der.data, r, s)
          /\ (signature # <<>> /\ Len(signature) % 2 = 0 /\ Len(signature) <= 120) => der.ok
    BY DEF SignatureReads, half
  <2> HIDE DEF r, s, der
  <2>6. r # <<>> /\ s # <<>>
    BY <2>1, <2>2, <2>3
  <2>7. /\ Len(Content(r)) \in 1..(half + 1) /\ Len(Content(s)) \in 1..(half + 1)
        /\ Len(inner) = 4 + Len(Content(r)) + Len(Content(s))
    <3>1. /\ Content(r) \in ByteSeq /\ Len(Content(r)) \in 1..(Len(r) + 1)
          /\ Content(s) \in ByteSeq /\ Len(Content(s)) \in 1..(Len(s) + 1)
      BY <2>2, <2>3, <2>6, ContentIs
    <3>2. Content(r) \in Seq(Nat) /\ Content(s) \in Seq(Nat)
      <4>1. Byte \subseteq Nat
        BY DEF Byte
      <4> QED
        BY <3>1, <4>1, Wider DEF ByteSeq
    <3>3. /\ DerInteger(r) = <<2, Len(Content(r))>> \o Content(r)
          /\ DerInteger(s) = <<2, Len(Content(s))>> \o Content(s)
      BY DEF DerInteger, Content
    <3>4. Len(BothIntegers(Content(r), Content(s))) = 4 + Len(Content(r)) + Len(Content(s))
      <4>1. 0 \in Nat
        OBVIOUS
      <4> QED
        BY <3>2, <4>1, DerIs DEF Framed
    <3> QED
      BY <2>2, <2>3, <3>1, <3>3, <3>4 DEF BothIntegers
  <2>8. CASE Len(inner) > 127
    <3>1. ~der.ok
      BY <2>4, <2>8 DEF Invalid
    <3>2. ~(Len(signature) <= 120)
      <4> HIDE DEF inner
      <4> QED
        BY <2>1, <2>7, <2>8
    <3> QED
      BY <2>5, <3>1, <3>2
  <2>9. CASE ~(Len(inner) > 127)
    <3>1. der.ok /\ der.data = <<48, Len(inner)>> \o inner
      BY <2>4, <2>9 DEF Ok
    <3>2. Len(inner) \in Nat /\ Len(inner) < 128
      <4> HIDE DEF inner
      <4> QED
        BY <2>1, <2>7, <2>9
    <3>3. ReadsAs(<<48, Len(inner)>> \o inner, r, s)
      BY <2>2, <2>3, <2>6, <2>7, <3>2, ReadsAsWritten
    <3> QED
      BY <2>5, <3>1, <3>3
  <2> QED
    BY <2>8, <2>9
<1> QED
  BY <1>1, <1>2

-----------------------------------------------------------------------------
(***************************************************************************)
(* The texts that are accepted.                                            *)
(***************************************************************************)
(* A sum of entries is good exactly when each of them is.                  *)
LEMMA SumsAreGood ==
    ASSUME NEW c1, NEW c2, NEW c3, NEW c4
    PROVE  /\ DecodeGroup(c1, c2, c3, c4) < BadChar <=>
                c1 \in Sextets /\ c2 \in Sextets /\ c3 \in Sextets /\ c4 \in Sextets
           /\ DecodeTail(c1, c2, c3, 1) < BadChar <=>
                c1 \in Sextets /\ c2 \in Sextets /\ c3 \in Sextets
           /\ DecodeTail(c1, c2, c3, 2) < BadChar <=> c1 \in Sextets /\ c2 \in Sextets
           /\ DecodeGroup(c1, c2, c3, c4) \in Nat
           /\ DecodeTail(c1, c2, c3, 1) \in Nat /\ DecodeTail(c1, c2, c3, 2) \in Nat
<1> DEFINE e1 == DecodeTable0(c1)
           e2 == DecodeTable1(c2)
           e3 == DecodeTable2(c3)
           e4 == DecodeTable3(c4)
<1>1. BadChar = 33554431 /\ 2^18 = 262144 /\ 2^12 = 4096 /\ 2^6 = 64
  BY SMT DEF BadChar
<1>2. /\ IF c1 \in Sextets THEN e1 \in Nat /\ e1 <= 16515072 ELSE e1 = 33554431
      /\ IF c2 \in Sextets THEN e2 \in Nat /\ e2 <= 258048 ELSE e2 = 33554431
      /\ IF c3 \in Sextets THEN e3 \in Nat /\ e3 <= 4032 ELSE e3 = 33554431
      /\ IF c4 \in Sextets THEN e4 \in Nat /\ e4 <= 63 ELSE e4 = 33554431
  <2>1. IF c1 \in Sextets THEN e1 \in Nat /\ e1 <= 16515072 ELSE e1 = 33554431
    BY <1>1, SMT DEF DecodeTable0, Sextets
  <2>2. IF c2 \in Sextets THEN e2 \in Nat /\ e2 <= 258048 ELSE e2 = 33554431
    BY <1>1, SMT DEF DecodeTable1, Sextets
  <2>3. IF c3 \in Sextets THEN e3 \in Nat /\ e3 <= 4032 ELSE e3 = 33554431
    BY <1>1, SMT DEF DecodeTable2, Sextets
  <2>4. IF c4 \in Sextets THEN e4 \in Nat /\ e4 <= 63 ELSE e4 = 33554431
    BY <1>1, SMT DEF DecodeTable3, Sextets
  <2> HIDE DEF e1, e2, e3, e4
  <2> QED
    BY <2>1, <2>2, <2>3, <2>4, SMT
<1>3. /\ DecodeGroup(c1, c2, c3, c4) = e1 + e2 + e3 + e4
      /\ DecodeTail(c1, c2, c3, 1) = e1 + e2 + e3
      /\ DecodeTail(c1, c2, c3, 2) = e1 + e2
  BY DEF DecodeGroup, DecodeTail
<1> HIDE DEF e1, e2, e3, e4
<1>4. DecodeTail(c1, c2, c3, 2) \in Nat /\ (DecodeTail(c1, c2, c3, 2) < BadChar <=> c1 \in Sextets /\ c2 \in Sextets)
  BY <1>1, <1>2, <1>3, SMT
<1>5. DecodeTail(c1, c2, c3, 1) \in Nat
      /\ (DecodeTail(c1, c2, c3, 1) < BadChar <=> c1 \in Sextets /\ c2 \in Sextets /\ c3 \in Sextets)
  BY <1>1, <1>2, <1>3, SMT
<1>6. DecodeGroup(c1, c2, c3, c4) \in Nat
      /\ (DecodeGroup(c1, c2, c3, c4) < BadChar <=>
            c1 \in Sextets /\ c2 \in Sextets /\ c3 \in Sextets /\ c4 \in Sextets)
  BY <1>1, <1>2, <1>3, SMT
<1> QED
  BY <1>4, <1>5, <1>6

(* What is accepted, in terms of full groups and the last one.             *)
GroupIsGood(t, i) ==
    t[4 * i - 3] \in Sextets /\ t[4 * i - 2] \in Sextets /\ t[4 * i - 1] \in Sextets /\ t[4 * i] \in Sextets

LEMMA AcceptedIs ==
    ASSUME NEW t, NEW n \in Nat, n = Len(t), n # 0, n % 4 = 0,
           NEW padding, padding = NumPadding(t)
    PROVE  DecodeInto(t).ok <=>
             \/ padding = 0 /\ \A i \in 1..(n \div 4) : GroupIsGood(t, i)
             \/ /\ padding \in 1..2
                /\ \A i \in 1..((n \div 4) - 1) : GroupIsGood(t, i)
                /\ t[n - 3] \in Sextets /\ t[n - 2] \in Sextets
                /\ padding = 1 => t[n - 1] \in Sextets
<1> DEFINE full == (n \div 4) - (IF padding # 0 THEN 1 ELSE 0)
           Temp(i) == DecodeGroup(t[4 * i - 3], t[4 * i - 2], t[4 * i - 1], t[4 * i])
           tail == DecodeTail(t[n - 3], t[n - 2], t[n - 1], padding)
<1>0. BadChar \in Nat
  BY DEF BadChar
<1>1. padding \in 0..4
  BY DEF NumPadding
<1>2. DecodeInto(t).ok <=> ~(\/ padding > 2
                             \/ \E i \in 1..full : Temp(i) >= BadChar
                             \/ padding # 0 /\ tail >= BadChar)
  BY DEF DecodeInto, Ok, Invalid
<1>3. \A i \in 1..full : ~(Temp(i) >= BadChar) <=> GroupIsGood(t, i)
  <2> TAKE i \in 1..full
  <2>1. Temp(i) \in Nat /\ (Temp(i) < BadChar <=> GroupIsGood(t, i))
    BY SumsAreGood DEF GroupIsGood
  <2> HIDE DEF Temp
  <2> QED
    BY <1>0, <2>1
<1>4. ASSUME padding = 1
      PROVE  ~(tail >= BadChar) <=>
               t[n - 3] \in Sextets /\ t[n - 2] \in Sextets /\ t[n - 1] \in Sextets
  <2>1. tail \in Nat /\ (tail < BadChar <=>
               t[n - 3] \in Sextets /\ t[n - 2] \in Sextets /\ t[n - 1] \in Sextets)
    BY <1>4, SumsAreGood
  <2> HIDE DEF tail
  <2> QED
    BY <1>0, <2>1
<1>5. ASSUME padding = 2
      PROVE  ~(tail >= BadChar) <=> t[n - 3] \in Sextets /\ t[n - 2] \in Sextets
  <2>1. tail \in Nat /\ (tail < BadChar <=> t[n - 3] \in Sextets /\ t[n - 2] \in Sextets)
    BY <1>5, SumsAreGood
  <2> HIDE DEF tail
  <2> QED
    BY <1>0, <2>1
<1> HIDE DEF tail, Temp
<1>6. CASE padding = 0
  <2>1. full = n \div 4
    BY <1>6
  <2> HIDE DEF full
  <2> QED
    BY <1>2, <1>3, <1>6, <2>1
<1>7. CASE padding = 1
  <2>1. full = (n \div 4) - 1
    BY <1>7
  <2> HIDE DEF full
  <2> QED
    BY <1>2, <1>3, <1>4, <1>7, <2>1
<1>8. CASE padding = 2
  <2>1. full = (n \div 4) - 1
    BY <1>8
  <2> HIDE DEF full
  <2> QED
    BY <1>2, <1>3, <1>5, <1>8, <2>1
<1>9. CASE padding > 2
  BY <1>2, <1>9
<1>10. padding = 0 \/ padding = 1 \/ padding = 2 \/ padding > 2
  BY <1>1
<1> QED
  BY <1>6, <1>7, <1>8, <1>9, <1>10

LEMMA GroupOf ==
    ASSUME NEW n \in Nat, NEW i \in 1..n, n % 4 = 0
    PROVE  LET g == (i + 3) \div 4 IN
           /\ g \in 1..(n \div 4)
           /\ i = 4 * g - 3 \/ i = 4 * g - 2 \/ i = 4 * g - 1 \/ i = 4 * g
           /\ i <= n - 4 => g \in 1..((n \div 4) - 1)
OBVIOUS

LEMMA PlacesOf ==
    ASSUME NEW n \in Nat, n % 4 = 0, NEW g \in 1..(n \div 4)
    PROVE  /\ 4 * g - 3 \in 1..n /\ 4 * g - 2 \in 1..n /\ 4 * g - 1 \in 1..n /\ 4 * g \in 1..n
           /\ g \in 1..((n \div 4) - 1) => 4 * g <= n - 4
OBVIOUS

(* Exactly the base64 texts are accepted, whatever the characters.         *)
LEMMA Base64Accepts ==
    ASSUME NEW t, Len(t) \in Nat
    PROVE  DecodeInto(t).ok <=> IsBase64(t)
<1> DEFINE n == Len(t)
           padding == NumPadding(t)
<1>1. CASE n = 0
  <2>1. DecodeInto(t).ok
    BY <1>1 DEF DecodeInto, Ok
  <2>2. IsBase64(t)
    BY <1>1 DEF IsBase64, IsPadded
  <2> QED
    BY <2>1, <2>2
<1>2. CASE n % 4 # 0
  <2>1. n # 0
    BY <1>2
  <2>2. ~DecodeInto(t).ok
    BY <1>2, <2>1 DEF DecodeInto, Invalid
  <2> QED
    BY <1>2, <2>2 DEF IsBase64
<1>3. CASE n # 0 /\ n % 4 = 0
  <2> DEFINE Accepted == 
             \/ padding = 0 /\ \A i \in 1..(n \div 4) : GroupIsGood(t, i)
             \/ /\ padding \in 1..2
                /\ \A i \in 1..((n \div 4) - 1) : GroupIsGood(t, i)
                /\ t[n - 3] \in Sextets /\ t[n - 2] \in Sextets
                /\ padding = 1 => t[n - 1] \in Sextets
             One(i) == IF t[i] = Pad THEN 1 ELSE 0
             Fits(p) == \A i \in 1..n : IF i <= n - p THEN t[i] \in Sextets ELSE t[i] = Pad
  <2>1. DecodeInto(t).ok <=> Accepted
    BY <1>3, AcceptedIs
  <2>2. IsBase64(t) <=> \E p \in 0..2 : Fits(p)
    BY <1>3 DEF IsBase64, IsPadded
  <2>3. padding = One(n - 3) + One(n - 2) + One(n - 1) + One(n)
    BY DEF NumPadding
  <2>4. n \in Nat /\ n >= 4 /\ n % 4 = 0
    BY <1>3
  <2> HIDE DEF n, padding
  <2>5. \A c : c \in Sextets => c # Pad
    BY DEF Sextets, Pad
  <2>6. ASSUME Accepted
        PROVE  \E p \in 0..2 : Fits(p)
    <3>1. CASE padding = 0
      <4>1. \A g \in 1..(n \div 4) : GroupIsGood(t, g)
        BY <2>6, <3>1
      <4>2. \A i \in 1..n : t[i] \in Sextets
        <5> TAKE i \in 1..n
        <5> DEFINE g == (i + 3) \div 4
        <5>1. /\ g \in 1..(n \div 4)
              /\ i = 4 * g - 3 \/ i = 4 * g - 2 \/ i = 4 * g - 1 \/ i = 4 * g
          BY <2>4, GroupOf
        <5> HIDE DEF g
        <5> QED
          BY <4>1, <5>1 DEF GroupIsGood
      <4>3. Fits(0)
        BY <2>4, <4>2
      <4> QED
        BY <4>3
    <3>2. CASE padding \in 1..2
      <4>1. /\ \A g \in 1..((n \div 4) - 1) : GroupIsGood(t, g)
            /\ t[n - 3] \in Sextets /\ t[n - 2] \in Sextets
            /\ padding = 1 => t[n - 1] \in Sextets
        BY <2>6, <3>2
      <4>2. \A i \in 1..(n - 4) : t[i] \in Sextets
        <5> TAKE i \in 1..(n - 4)
        <5>1. i \in 1..n /\ i <= n - 4
          BY <2>4
        <5> DEFINE g == (i + 3) \div 4
        <5>2. /\ g \in 1..((n \div 4) - 1)
              /\ i = 4 * g - 3 \/ i = 4 * g - 2 \/ i = 4 * g - 1 \/ i = 4 * g
          BY <2>4, <5>1, GroupOf
        <5> HIDE DEF g
        <5> QED
          BY <4>1, <5>2 DEF GroupIsGood
      <4>3. One(n - 3) = 0 /\ One(n - 2) = 0
        BY <2>5, <4>1
      <4>4. CASE padding = 1
        <5>1. One(n - 1) = 0
          BY <2>5, <4>1, <4>4
        <5>2. One(n) = 1
          BY <2>3, <4>3, <4>4, <5>1
        <5>3. t[n] = Pad
          BY <5>2
        <5>4. \A i \in 1..n : i \in 1..(n - 4) \/ i = n - 3 \/ i = n - 2 \/ i = n - 1 \/ i = n
          BY <2>4
        <5>5. Fits(1)
          BY <2>4, <4>1, <4>2, <4>4, <5>3, <5>4
        <5> QED
          BY <5>5
      <4>5. CASE padding = 2
        <5>1. One(n - 1) = 1 /\ One(n) = 1
          BY <2>3, <4>3, <4>5
        <5>2. t[n - 1] = Pad /\ t[n] = Pad
          BY <5>1
        <5>3. \A i \in 1..n : i \in 1..(n - 4) \/ i = n - 3 \/ i = n - 2 \/ i = n - 1 \/ i = n
          BY <2>4
        <5>4. Fits(2)
          BY <2>4, <4>1, <4>2, <5>2, <5>3
        <5> QED
          BY <5>4
      <4> QED
        BY <3>2, <4>4, <4>5
    <3> QED
      BY <2>6, <3>1, <3>2
  <2>7. ASSUME NEW p \in 0..2, Fits(p)
        PROVE  Accepted
    <3>1. \A i \in 1..n : i <= n - p => t[i] \in Sextets
      BY <2>7
    <3>2. \A i \in 1..n : i > n - p => t[i] = Pad
      BY <2>4, <2>7
    <3> HIDE DEF Fits
    <3>3. n - 3 \in 1..n /\ n - 2 \in 1..n /\ n - 1 \in 1..n /\ n \in 1..n
      BY <2>4
    <3>4. t[n - 3] \in Sextets /\ t[n - 2] \in Sextets
      BY <2>4, <3>1, <3>3
    <3>5. One(n - 3) = 0 /\ One(n - 2) = 0
      BY <2>5, <3>4
    <3>6. \A g \in 1..((n \div 4) - 1) : GroupIsGood(t, g)
      <4> TAKE g \in 1..((n \div 4) - 1)
      <4>1. g \in 1..(n \div 4)
        BY <2>4
      <4>2. /\ 4 * g - 3 \in 1..n /\ 4 * g - 2 \in 1..n /\ 4 * g - 1 \in 1..n /\ 4 * g \in 1..n
            /\ 4 * g <= n - 4
        BY <2>4, <4>1, PlacesOf
      <4>3. 4 * g - 3 <= n - p /\ 4 * g - 2 <= n - p /\ 4 * g - 1 <= n - p /\ 4 * g <= n - p
        BY <2>4, <4>2
      <4> QED
        BY <3>1, <4>2, <4>3 DEF GroupIsGood
    <3>7. CASE p = 0
      <4>1. \A g \in 1..(n \div 4) : GroupIsGood(t, g)
        <5> TAKE g \in 1..(n \div 4)
        <5>1. 4 * g - 3 \in 1..n /\ 4 * g - 2 \in 1..n /\ 4 * g - 1 \in 1..n /\ 4 * g \in 1..n
          BY <2>4, PlacesOf
        <5>2. \A i \in 1..n : t[i] \in Sextets
          BY <2>4, <3>1, <3>7
        <5> QED
          BY <5>1, <5>2 DEF GroupIsGood
      <4>2. t[n - 1] \in Sextets /\ t[n] \in Sextets
        BY <2>4, <3>1, <3>3, <3>7
      <4>3. One(n - 1) = 0 /\ One(n) = 0
        BY <2>5, <4>2
      <4>4. padding = 0
        BY <2>3, <3>5, <4>3
      <4> QED
        BY <4>1, <4>4
    <3>8. CASE p = 1
      <4>1. t[n - 1] \in Sextets /\ t[n] = Pad
        BY <2>4, <3>1, <3>2, <3>3, <3>8
      <4>2. One(n - 1) = 0 /\ One(n) = 1
        BY <2>5, <4>1
      <4>3. padding = 1
        BY <2>3, <3>5, <4>2
      <4> QED
        BY <3>4, <3>6, <4>1, <4>3
    <3>9. CASE p = 2
      <4>1. t[n - 1] = Pad /\ t[n] = Pad
        BY <2>4, <3>2, <3>3, <3>9
      <4>2. One(n - 1) = 1 /\ One(n) = 1
        BY <4>1
      <4>3. padding = 2
        BY <2>3, <3>5, <4>2
      <4> QED
        BY <3>4, <3>6, <4>3
    <3> QED
      BY <3>7, <3>8, <3>9
  <2> QED
    BY <2>1, <2>2, <2>6, <2>7
<1> QED
  BY <1>1, <1>2, <1>3

(* What two digits are read as prints as the same two digits.              *)
LEMMA DigitIs ==
    ASSUME NEW c, UnhexTable(c) # 255
    PROVE  /\ UnhexTable(c) \in 0..15
           /\ UnhexTable4(c) = UnhexTable(c) * 16
           /\ UnhexTable(HexDigit(UnhexTable(c))) = UnhexTable(c)
<1>1. UnhexTable(c) \in 0..15
  BY DEF UnhexTable
<1>2. UnhexTable4(c) = UnhexTable(c) * 16
  BY DEF UnhexTable4
<1>3. ASSUME NEW v \in 0..15 PROVE UnhexTable(HexDigit(v)) = v
  <2>1. CASE v < 10
    BY <2>1 DEF UnhexTable, HexDigit
  <2>2. CASE v >= 10
    BY <2>2 DEF UnhexTable, HexDigit
  <2> QED
    BY <2>1, <2>2
<1> QED
  BY <1>1, <1>2, <1>3

LEMMA PairOf ==
    ASSUME NEW half \in Nat, NEW k \in 1..(2 * half)
    PROVE  LET i == (k + 1) \div 2 IN
           i \in 1..half /\ ((k = 2 * i - 1 /\ k % 2 = 1) \/ (k = 2 * i /\ k % 2 # 1))
<1> DEFINE i == (k + 1) \div 2
<1>1. i \in 1..half
  OBVIOUS
<1>2. k % 2 = 1 \/ k % 2 = 0
  OBVIOUS
<1>3. CASE k % 2 = 1
  <2>1. k = 2 * i - 1
    BY <1>3
  <2> QED
    BY <1>1, <1>3, <2>1
<1>4. CASE k % 2 = 0
  <2>1. k = 2 * i
    BY <1>4
  <2> QED
    BY <1>1, <1>4, <2>1
<1> QED
  BY <1>2, <1>3, <1>4

(* Texts of even length are accepted, and digits print as they were read.  *)
LEMMA HexTextDecodes ==
    ASSUME NEW t, Len(t) \in Nat
    PROVE  HexDecodes(t)
<1> DEFINE n == Len(t)
           read == DecodeHex(t)
           printed == EncodeHex(read.data)
           half == n \div 2
<1>1. read.ok <=> n % 2 = 0
  BY DEF DecodeHex, Ok, Invalid
<1>2. ASSUME read.ok, \A i \in 1..n : UnhexTable(t[i]) # 255
      PROVE  Len(printed) = n /\ \A i \in 1..n : UnhexTable(printed[i]) = UnhexTable(t[i])
  <2>1. read.data = [i \in 1..half |-> DecodeHexByte(t[2 * i - 1], t[2 * i])]
    BY <1>1, <1>2 DEF DecodeHex, Ok
  <2>2. half \in Nat /\ n = 2 * half
    BY <1>1, <1>2
  <2> HIDE DEF read, half
  <2>3. Len(read.data) = half
    BY <2>1, <2>2
  <2>4. printed = [k \in 1..n |->
                     HexDigit(IF k % 2 = 1 THEN read.data[(k + 1) \div 2] \div 16
                              ELSE read.data[(k + 1) \div 2] % 16)]
    BY <2>2, <2>3 DEF EncodeHex
  <2> HIDE DEF printed, n
  <2>5. ASSUME NEW i \in 1..half
        PROVE  /\ read.data[i] \div 16 = UnhexTable(t[2 * i - 1])
               /\ read.data[i] % 16 = UnhexTable(t[2 * i])
    <3> DEFINE high == UnhexTable(t[2 * i - 1])
               low == UnhexTable(t[2 * i])
    <3>1. 2 * i - 1 \in 1..n /\ 2 * i \in 1..n
      BY <2>2
    <3>2. high # 255 /\ low # 255
      BY <1>2, <3>1 DEF n
    <3>3. high \in 0..15 /\ low \in 0..15 /\ UnhexTable4(t[2 * i - 1]) = high * 16
      BY <3>2, DigitIs
    <3>4. read.data[i] = DecodeHexByte(t[2 * i - 1], t[2 * i])
      BY <2>1
    <3> HIDE DEF high, low
    <3>5. high * 16 # 255
      BY <3>3
    <3>6. read.data[i] = high * 16 + low
      BY <3>2, <3>3, <3>4, <3>5 DEF DecodeHexByte, high, low
    <3>7. (high * 16 + low) \div 16 = high /\ (high * 16 + low) % 16 = low
      BY <3>3
    <3> QED
      BY <3>6, <3>7 DEF high, low
  <2>6. ASSUME NEW k \in 1..n
        PROVE  UnhexTable(printed[k]) = UnhexTable(t[k])
    <3> DEFINE i == (k + 1) \div 2
    <3>1. i \in 1..half /\ ((k = 2 * i - 1 /\ k % 2 = 1) \/ (k = 2 * i /\ k % 2 # 1))
      BY <2>2, PairOf
    <3>2. printed[k] = HexDigit(IF k % 2 = 1 THEN read.data[i] \div 16 ELSE read.data[i] % 16)
      BY <2>4
    <3> HIDE DEF i
    <3>3. printed[k] = HexDigit(UnhexTable(t[k]))
      BY <2>5, <3>1, <3>2
    <3>4. UnhexTable(t[k]) # 255
      BY <1>2 DEF n
    <3> QED
      BY <3>3, <3>4, DigitIs
  <2>7. Len(printed) = n
    BY <2>2, <2>4
  <2> QED
    BY <2>6, <2>7
<1> QED
  BY <1>1, <1>2 DEF HexDecodes

-----------------------------------------------------------------------------
(***************************************************************************)
(* The bits of what a text stands for.  BitsOf and BytesOf define them     *)
(* independently of groups, tables and shifts; a byte of them is named     *)
(* here by the values that its eight bits are taken from.                  *)
(***************************************************************************)
(* The weights of the bits of a byte.                                      *)
LEMMA PowersOfTwo ==
    2^0 = 1 /\ 2^1 = 2 /\ 2^2 = 4 /\ 2^3 = 8 /\ 2^4 = 16 /\ 2^5 = 32 /\ 2^6 = 64 /\ 2^7 = 128
OBVIOUS

(* So a power of two that selects a bit of a byte is one of eight.         *)
IsPower(p) == p \in {1, 2, 4, 8, 16, 32, 64, 128}

LEMMA PowerIsOneOf ==
    ASSUME NEW k \in 0..7
    PROVE  IsPower(2^k)
<1>1. k = 0 \/ k = 1 \/ k = 2 \/ k = 3 \/ k = 4 \/ k = 5 \/ k = 6 \/ k = 7
  OBVIOUS
<1>2. /\ IsPower(2^0) /\ IsPower(2^1) /\ IsPower(2^2) /\ IsPower(2^3)
      /\ IsPower(2^4) /\ IsPower(2^5) /\ IsPower(2^6) /\ IsPower(2^7)
  BY PowersOfTwo, SMT DEF IsPower
<1> QED
  BY <1>1, <1>2, Zenon

(* The k-th bit of a value of some width, and where it stands.             *)
LEMMA SixBitPlaces ==
    ASSUME NEW n \in Nat, NEW q \in 1..n, NEW k \in 1..6
    PROVE  LET i == 6 * (q - 1) + k IN
           i \in 1..(6 * n) /\ 1 + (i - 1) \div 6 = q /\ 6 - 1 - ((i - 1) % 6) = 6 - k
OBVIOUS

LEMMA FiveBitPlaces ==
    ASSUME NEW n \in Nat, NEW q \in 1..n, NEW k \in 1..5
    PROVE  LET i == 5 * (q - 1) + k IN
           i \in 1..(5 * n) /\ 1 + (i - 1) \div 5 = q /\ 5 - 1 - ((i - 1) % 5) = 5 - k
OBVIOUS

LEMMA EightBitPlaces ==
    ASSUME NEW n \in Nat, NEW q \in 1..n, NEW k \in 1..8
    PROVE  LET i == 8 * (q - 1) + k IN
           i \in 1..(8 * n) /\ 1 + (i - 1) \div 8 = q /\ 8 - 1 - ((i - 1) % 8) = 8 - k
OBVIOUS

(* The bits of a value of six, of five and of eight bits.                  *)
LEMMA SixBits ==
    ASSUME NEW values, Len(values) \in Nat, NEW q \in 1..Len(values)
    PROVE  LET bits == BitsOf(values, 6)  v == values[q]  i == 6 * (q - 1) IN
           /\ bits[i + 1] = (v \div 32) % 2 /\ bits[i + 2] = (v \div 16) % 2
           /\ bits[i + 3] = (v \div 8) % 2 /\ bits[i + 4] = (v \div 4) % 2
           /\ bits[i + 5] = (v \div 2) % 2 /\ bits[i + 6] = (v \div 1) % 2
<1> DEFINE n == Len(values)
           i == 6 * (q - 1)
           bits == BitsOf(values, 6)
<1>1. bits = [j \in 1..(6 * n) |-> (values[1 + (j - 1) \div 6] \div 2^(6 - 1 - ((j - 1) % 6))) % 2]
  BY DEF BitsOf
<1>2. ASSUME NEW k \in 1..6
      PROVE  bits[i + k] = (values[q] \div 2^(6 - k)) % 2
  <2>1. /\ i + k \in 1..(6 * n) /\ 1 + ((i + k) - 1) \div 6 = q
        /\ 6 - 1 - (((i + k) - 1) % 6) = 6 - k
    BY SixBitPlaces
  <2> HIDE DEF bits, i, n
  <2> QED
    BY <1>1, <2>1
<1> HIDE DEF bits, i
<1>3. \A k \in 1..6 : bits[i + k] = (values[q] \div 2^(6 - k)) % 2
  BY <1>2
<1>4. /\ bits[i + 1] = (values[q] \div 2^5) % 2 /\ bits[i + 2] = (values[q] \div 2^4) % 2
      /\ bits[i + 3] = (values[q] \div 2^3) % 2 /\ bits[i + 4] = (values[q] \div 2^2) % 2
      /\ bits[i + 5] = (values[q] \div 2^1) % 2 /\ bits[i + 6] = (values[q] \div 2^0) % 2
  <2>1. 6 - 1 = 5 /\ 6 - 2 = 4 /\ 6 - 3 = 3 /\ 6 - 4 = 2 /\ 6 - 5 = 1 /\ 6 - 6 = 0
    OBVIOUS
  <2> QED
    BY <1>3, <2>1
<1>5. /\ bits[i + 1] = (values[q] \div 32) % 2 /\ bits[i + 2] = (values[q] \div 16) % 2
      /\ bits[i + 3] = (values[q] \div 8) % 2 /\ bits[i + 4] = (values[q] \div 4) % 2
      /\ bits[i + 5] = (values[q] \div 2) % 2 /\ bits[i + 6] = (values[q] \div 1) % 2
  BY <1>4, PowersOfTwo, Zenon
<1> QED
  BY <1>5 DEF bits, i

LEMMA FiveBits ==
    ASSUME NEW values, Len(values) \in Nat, NEW q \in 1..Len(values)
    PROVE  LET bits == BitsOf(values, 5)  v == values[q]  i == 5 * (q - 1) IN
           /\ bits[i + 1] = (v \div 16) % 2 /\ bits[i + 2] = (v \div 8) % 2
           /\ bits[i + 3] = (v \div 4) % 2 /\ bits[i + 4] = (v \div 2) % 2
           /\ bits[i + 5] = (v \div 1) % 2
<1> DEFINE n == Len(values)
           i == 5 * (q - 1)
           bits == BitsOf(values, 5)
<1>1. bits = [j \in 1..(5 * n) |-> (values[1 + (j - 1) \div 5] \div 2^(5 - 1 - ((j - 1) % 5))) % 2]
  BY DEF BitsOf
<1>2. ASSUME NEW k \in 1..5
      PROVE  bits[i + k] = (values[q] \div 2^(5 - k)) % 2
  <2>1. /\ i + k \in 1..(5 * n) /\ 1 + ((i + k) - 1) \div 5 = q
        /\ 5 - 1 - (((i + k) - 1) % 5) = 5 - k
    BY FiveBitPlaces
  <2> HIDE DEF bits, i, n
  <2> QED
    BY <1>1, <2>1
<1> HIDE DEF bits, i
<1>3. \A k \in 1..5 : bits[i + k] = (values[q] \div 2^(5 - k)) % 2
  BY <1>2
<1>4. /\ bits[i + 1] = (values[q] \div 2^4) % 2 /\ bits[i + 2] = (values[q] \div 2^3) % 2
      /\ bits[i + 3] = (values[q] \div 2^2) % 2 /\ bits[i + 4] = (values[q] \div 2^1) % 2
      /\ bits[i + 5] = (values[q] \div 2^0) % 2
  <2>1. 5 - 1 = 4 /\ 5 - 2 = 3 /\ 5 - 3 = 2 /\ 5 - 4 = 1 /\ 5 - 5 = 0
    OBVIOUS
  <2> QED
    BY <1>3, <2>1
<1>5. /\ bits[i + 1] = (values[q] \div 16) % 2 /\ bits[i + 2] = (values[q] \div 8) % 2
      /\ bits[i + 3] = (values[q] \div 4) % 2 /\ bits[i + 4] = (values[q] \div 2) % 2
      /\ bits[i + 5] = (values[q] \div 1) % 2
  BY <1>4, PowersOfTwo, Zenon
<1> QED
  BY <1>5 DEF bits, i

LEMMA EightBits ==
    ASSUME NEW values, Len(values) \in Nat, NEW q \in 1..Len(values)
    PROVE  LET bits == BitsOf(values, 8)  v == values[q]  i == 8 * (q - 1) IN
           /\ bits[i + 1] = (v \div 128) % 2 /\ bits[i + 2] = (v \div 64) % 2
           /\ bits[i + 3] = (v \div 32) % 2 /\ bits[i + 4] = (v \div 16) % 2
           /\ bits[i + 5] = (v \div 8) % 2 /\ bits[i + 6] = (v \div 4) % 2
           /\ bits[i + 7] = (v \div 2) % 2 /\ bits[i + 8] = (v \div 1) % 2
<1> DEFINE n == Len(values)
           i == 8 * (q - 1)
           bits == BitsOf(values, 8)
<1>1. bits = [j \in 1..(8 * n) |-> (values[1 + (j - 1) \div 8] \div 2^(8 - 1 - ((j - 1) % 8))) % 2]
  BY DEF BitsOf
<1>2. ASSUME NEW k \in 1..8
      PROVE  bits[i + k] = (values[q] \div 2^(8 - k)) % 2
  <2>1. /\ i + k \in 1..(8 * n) /\ 1 + ((i + k) - 1) \div 8 = q
        /\ 8 - 1 - (((i + k) - 1) % 8) = 8 - k
    BY EightBitPlaces
  <2> HIDE DEF bits, i, n
  <2> QED
    BY <1>1, <2>1
<1> HIDE DEF bits, i
<1>3. \A k \in 1..8 : bits[i + k] = (values[q] \div 2^(8 - k)) % 2
  BY <1>2
<1>4. /\ bits[i + 1] = (values[q] \div 2^7) % 2 /\ bits[i + 2] = (values[q] \div 2^6) % 2
      /\ bits[i + 3] = (values[q] \div 2^5) % 2 /\ bits[i + 4] = (values[q] \div 2^4) % 2
      /\ bits[i + 5] = (values[q] \div 2^3) % 2 /\ bits[i + 6] = (values[q] \div 2^2) % 2
      /\ bits[i + 7] = (values[q] \div 2^1) % 2 /\ bits[i + 8] = (values[q] \div 2^0) % 2
  <2>1. 8 - 1 = 7 /\ 8 - 2 = 6 /\ 8 - 3 = 5 /\ 8 - 4 = 4 /\ 8 - 5 = 3 /\ 8 - 6 = 2 /\ 8 - 7 = 1 /\ 8 - 8 = 0
    OBVIOUS
  <2> QED
    BY <1>3, <2>1
<1>5. /\ bits[i + 1] = (values[q] \div 128) % 2 /\ bits[i + 2] = (values[q] \div 64) % 2
      /\ bits[i + 3] = (values[q] \div 32) % 2 /\ bits[i + 4] = (values[q] \div 16) % 2
      /\ bits[i + 5] = (values[q] \div 8) % 2 /\ bits[i + 6] = (values[q] \div 4) % 2
      /\ bits[i + 7] = (values[q] \div 2) % 2 /\ bits[i + 8] = (values[q] \div 1) % 2
  BY <1>4, PowersOfTwo, Zenon
<1> QED
  BY <1>5 DEF bits, i

(* The byte of eight bits, and of those behind the first i.                *)
Eight(b1, b2, b3, b4, b5, b6, b7, b8) ==
    128 * b1 + 64 * b2 + 32 * b3 + 16 * b4 + 8 * b5 + 4 * b6 + 2 * b7 + b8

ByteAt(bits, i) == Eight(bits[i + 1], bits[i + 2], bits[i + 3], bits[i + 4],
                         bits[i + 5], bits[i + 6], bits[i + 7], bits[i + 8])

(* A byte of BytesOf is one of these.                                      *)
LEMMA ByteOfBits ==
    ASSUME NEW bits, NEW j \in 1..(Len(bits) \div 8)
    PROVE  BytesOf(bits)[j] = ByteAt(bits, 8 * (j - 1))
BY DEF BytesOf, ByteAt, Eight

(* How many bits and bytes there are, for the widths that are used.        *)
LEMMA BitsAre ==
    ASSUME NEW values, Len(values) \in Nat, NEW width \in {5, 6, 8}
    PROVE  /\ Len(BitsOf(values, width)) = width * Len(values)
           /\ BytesOf(BitsOf(values, width))
                = [j \in 1..((width * Len(values)) \div 8) |-> BytesOf(BitsOf(values, width))[j]]
           /\ Len(BytesOf(BitsOf(values, width))) = (width * Len(values)) \div 8
<1>1. width * Len(values) \in Nat /\ (width * Len(values)) \div 8 \in Nat
  OBVIOUS
<1>2. Len(BitsOf(values, width)) = width * Len(values)
  BY <1>1 DEF BitsOf
<1>3. BytesOf(BitsOf(values, width))
                = [j \in 1..((width * Len(values)) \div 8) |-> BytesOf(BitsOf(values, width))[j]]
  BY <1>2 DEF BytesOf
<1>4. Len(BytesOf(BitsOf(values, width))) = (width * Len(values)) \div 8
  BY <1>1, <1>3
<1> QED
  BY <1>2, <1>3, <1>4

(* A value is twice its half and its last bit, and so is each half.        *)
LEMMA Halves ==
    ASSUME NEW v \in Nat
    PROVE  /\ v \div 1 = v
           /\ v \div 1 = 2 * (v \div 2) + ((v \div 1) % 2)
           /\ v \div 2 = 2 * (v \div 4) + ((v \div 2) % 2)
           /\ v \div 4 = 2 * (v \div 8) + ((v \div 4) % 2)
           /\ v \div 8 = 2 * (v \div 16) + ((v \div 8) % 2)
           /\ v \div 16 = 2 * (v \div 32) + ((v \div 16) % 2)
           /\ v \div 32 = 2 * (v \div 64) + ((v \div 32) % 2)
           /\ v \div 64 = 2 * (v \div 128) + ((v \div 64) % 2)
<1>1. v \div 1 = v
  OBVIOUS
<1>2. v \div 1 = 2 * (v \div 2) + ((v \div 1) % 2)
  OBVIOUS
<1>3. v \div 2 = 2 * (v \div 4) + ((v \div 2) % 2)
  OBVIOUS
<1>4. v \div 4 = 2 * (v \div 8) + ((v \div 4) % 2)
  OBVIOUS
<1>5. v \div 8 = 2 * (v \div 16) + ((v \div 8) % 2)
  OBVIOUS
<1>6. v \div 16 = 2 * (v \div 32) + ((v \div 16) % 2)
  OBVIOUS
<1>7. v \div 32 = 2 * (v \div 64) + ((v \div 32) % 2)
  OBVIOUS
<1>8. v \div 64 = 2 * (v \div 128) + ((v \div 64) % 2)
  OBVIOUS
<1> QED
  BY <1>1, <1>2, <1>3, <1>4, <1>5, <1>6, <1>7, <1>8

(* The remainders of a value of six bits.                                  *)
LEMMA Sextet ==
    ASSUME NEW v \in 0..63
    PROVE  /\ v \div 64 = 0 /\ v % 16 = v - 16 * (v \div 16) /\ v % 4 = v - 4 * (v \div 4)
           /\ v \div 4 \in Int /\ v \div 16 \in Int /\ v \div 8 \in Int /\ v \div 2 \in Int
           /\ v \div 32 \in Int
OBVIOUS

(* Three ways a byte spans two values of six bits.                         *)
LEMMA SextetsAddUp ==
    ASSUME NEW a \in 0..63, NEW b \in 0..63
    PROVE  /\ Eight((a \div 32) % 2, (a \div 16) % 2, (a \div 8) % 2, (a \div 4) % 2,
                    (a \div 2) % 2, (a \div 1) % 2, (b \div 32) % 2, (b \div 16) % 2) = 4 * a + b \div 16
           /\ Eight((a \div 8) % 2, (a \div 4) % 2, (a \div 2) % 2, (a \div 1) % 2,
                    (b \div 32) % 2, (b \div 16) % 2, (b \div 8) % 2, (b \div 4) % 2) = (a % 16) * 16 + b \div 4
           /\ Eight((a \div 2) % 2, (a \div 1) % 2, (b \div 32) % 2, (b \div 16) % 2,
                    (b \div 8) % 2, (b \div 4) % 2, (b \div 2) % 2, (b \div 1) % 2) = (a % 4) * 64 + b
<1> DEFINE Bit(v, p) == (v \div p) % 2
<1>1. ASSUME NEW v \in 0..63
      PROVE  /\ Bit(v, 32) = v \div 32
             /\ Bit(v, 16) = (v \div 16) - 2 * (v \div 32)
             /\ Bit(v, 8) = (v \div 8) - 2 * (v \div 16)
             /\ Bit(v, 4) = (v \div 4) - 2 * (v \div 8)
             /\ Bit(v, 2) = (v \div 2) - 2 * (v \div 4)
             /\ Bit(v, 1) = v - 2 * (v \div 2)
  BY Halves, Sextet
<1>2. ASSUME NEW v \in 0..63
      PROVE  /\ v \div 2 \in Int /\ v \div 4 \in Int /\ v \div 8 \in Int
             /\ v \div 16 \in Int /\ v \div 32 \in Int
             /\ v % 16 = v - 16 * (v \div 16) /\ v % 4 = v - 4 * (v \div 4)
  BY Sextet
<1> HIDE DEF Bit
<1>3. 128 * Bit(a, 32) + 64 * Bit(a, 16) + 32 * Bit(a, 8) + 16 * Bit(a, 4) + 8 * Bit(a, 2)
        + 4 * Bit(a, 1) + 2 * Bit(b, 32) + Bit(b, 16) = 4 * a + b \div 16
  <2> DEFINE p == 4 * a
             q == b \div 16
  <2>1. 128 * Bit(a, 32) + 64 * Bit(a, 16) + 32 * Bit(a, 8) + 16 * Bit(a, 4)
          + 8 * Bit(a, 2) + 4 * Bit(a, 1) = p
    BY <1>1, <1>2
  <2>2. 2 * Bit(b, 32) + Bit(b, 16) = q
    BY <1>1, <1>2
  <2>3. /\ Bit(a, 32) \in Int /\ Bit(a, 16) \in Int /\ Bit(a, 8) \in Int
        /\ Bit(a, 4) \in Int /\ Bit(a, 2) \in Int /\ Bit(a, 1) \in Int
        /\ Bit(b, 32) \in Int /\ Bit(b, 16) \in Int
    BY <1>1, <1>2
  <2>4. p \in Int /\ q \in Int
    BY <1>2
  <2>5. 128 * Bit(a, 32) + 64 * Bit(a, 16) + 32 * Bit(a, 8) + 16 * Bit(a, 4) + 8 * Bit(a, 2)
          + 4 * Bit(a, 1) + 2 * Bit(b, 32) + Bit(b, 16) = p + q
    <3> HIDE DEF p, q
    <3> QED
      BY <2>1, <2>2, <2>3, <2>4, SMT
  <2> QED
    BY <2>5
<1>4. 128 * Bit(a, 8) + 64 * Bit(a, 4) + 32 * Bit(a, 2) + 16 * Bit(a, 1) + 8 * Bit(b, 32)
        + 4 * Bit(b, 16) + 2 * Bit(b, 8) + Bit(b, 4) = (a % 16) * 16 + b \div 4
  <2> DEFINE p == (a % 16) * 16
             q == b \div 4
  <2>1. 128 * Bit(a, 8) + 64 * Bit(a, 4) + 32 * Bit(a, 2) + 16 * Bit(a, 1) = p
    BY <1>1, <1>2
  <2>2. 8 * Bit(b, 32) + 4 * Bit(b, 16) + 2 * Bit(b, 8) + Bit(b, 4) = q
    BY <1>1, <1>2
  <2>3. /\ Bit(a, 8) \in Int /\ Bit(a, 4) \in Int /\ Bit(a, 2) \in Int /\ Bit(a, 1) \in Int
        /\ Bit(b, 32) \in Int /\ Bit(b, 16) \in Int /\ Bit(b, 8) \in Int /\ Bit(b, 4) \in Int
    BY <1>1, <1>2
  <2>4. p \in Int /\ q \in Int
    BY <1>2
  <2>5. 128 * Bit(a, 8) + 64 * Bit(a, 4) + 32 * Bit(a, 2) + 16 * Bit(a, 1) + 8 * Bit(b, 32)
          + 4 * Bit(b, 16) + 2 * Bit(b, 8) + Bit(b, 4) = p + q
    <3> HIDE DEF p, q
    <3>1. p + 8 * Bit(b, 32) + 4 * Bit(b, 16) + 2 * Bit(b, 8) + Bit(b, 4) = p + q
      BY <2>2, <2>3, <2>4, SMT
    <3> QED
      BY <2>1, <3>1
  <2> QED
    BY <2>5
<1>5. 128 * Bit(a, 2) + 64 * Bit(a, 1) + 32 * Bit(b, 32) + 16 * Bit(b, 16) + 8 * Bit(b, 8)
        + 4 * Bit(b, 4) + 2 * Bit(b, 2) + Bit(b, 1) = (a % 4) * 64 + b
  <2> DEFINE p == (a % 4) * 64
             q == b
  <2>1. 128 * Bit(a, 2) + 64 * Bit(a, 1) = p
    BY <1>1, <1>2
  <2>2. 32 * Bit(b, 32) + 16 * Bit(b, 16) + 8 * Bit(b, 8)
          + 4 * Bit(b, 4) + 2 * Bit(b, 2) + Bit(b, 1) = q
    BY <1>1, <1>2
  <2>3. /\ Bit(a, 2) \in Int /\ Bit(a, 1) \in Int
        /\ Bit(b, 32) \in Int /\ Bit(b, 16) \in Int /\ Bit(b, 8) \in Int
        /\ Bit(b, 4) \in Int /\ Bit(b, 2) \in Int /\ Bit(b, 1) \in Int
    BY <1>1, <1>2
  <2>4. p \in Int /\ q \in Int
    BY <1>2
  <2>5. 128 * Bit(a, 2) + 64 * Bit(a, 1) + 32 * Bit(b, 32) + 16 * Bit(b, 16) + 8 * Bit(b, 8)
          + 4 * Bit(b, 4) + 2 * Bit(b, 2) + Bit(b, 1) = p + q
    <3> HIDE DEF p, q
    <3> QED
      BY <2>1, <2>2, <2>3, <2>4, SMT
  <2> QED
    BY <2>5
<1> QED
  BY <1>3, <1>4, <1>5 DEF Bit, Eight

-----------------------------------------------------------------------------
(***************************************************************************)
(* Base64: the groups of the decoder and the bits of its characters.       *)
(***************************************************************************)
(* The three bytes of group g, from its four characters.                   *)
SextetBytes(c, g) ==
    << 4 * c[4 * g - 3] + c[4 * g - 2] \div 16,
       (c[4 * g - 2] % 16) * 16 + c[4 * g - 1] \div 4,
       (c[4 * g - 1] % 4) * 64 + c[4 * g] >>

(* Where the bytes and the characters of group g start, in bits.           *)
LEMMA Base64BitPlaces ==
    ASSUME NEW n \in Nat, NEW g \in Nat \ {0}
    PROVE  /\ 4 * g - 2 <= n => /\ 4 * g - 3 \in 1..n /\ 4 * g - 2 \in 1..n
                                /\ 3 * g - 2 \in 1..((6 * n) \div 8)
                                /\ 8 * ((3 * g - 2) - 1) = 6 * ((4 * g - 3) - 1)
                                /\ 6 * ((4 * g - 2) - 1) = 6 * ((4 * g - 3) - 1) + 6
           /\ 4 * g - 1 <= n => /\ 4 * g - 2 \in 1..n /\ 4 * g - 1 \in 1..n
                                /\ 3 * g - 1 \in 1..((6 * n) \div 8)
                                /\ 8 * ((3 * g - 1) - 1) = 6 * ((4 * g - 2) - 1) + 2
                                /\ 6 * ((4 * g - 1) - 1) = 6 * ((4 * g - 2) - 1) + 6
           /\ 4 * g <= n => /\ 4 * g - 1 \in 1..n /\ 4 * g \in 1..n
                            /\ 3 * g \in 1..((6 * n) \div 8)
                            /\ 8 * (3 * g - 1) = 6 * ((4 * g - 1) - 1) + 4
                            /\ 6 * (4 * g - 1) = 6 * ((4 * g - 1) - 1) + 6
OBVIOUS

(* A byte of three spans two characters.                                   *)
LEMMA Base64BytesAre ==
    ASSUME NEW c, Len(c) \in Nat, \A i \in 1..Len(c) : c[i] \in 0..63, NEW g \in Nat \ {0}
    PROVE  LET data == BytesOf(BitsOf(c, 6)) IN
           /\ 4 * g - 2 <= Len(c) => data[3 * g - 2] = SextetBytes(c, g)[1]
           /\ 4 * g - 1 <= Len(c) => data[3 * g - 1] = SextetBytes(c, g)[2]
           /\ 4 * g <= Len(c) => data[3 * g] = SextetBytes(c, g)[3]
<1> DEFINE n == Len(c)
           bits == BitsOf(c, 6)
           data == BytesOf(bits)
<1>1. Len(bits) = 6 * n /\ n \in Nat
  BY BitsAre
<1>2. ASSUME NEW q \in 1..n
      PROVE  LET i == 6 * (q - 1)  v == c[q] IN
             /\ bits[i + 1] = (v \div 32) % 2 /\ bits[i + 2] = (v \div 16) % 2
             /\ bits[i + 3] = (v \div 8) % 2 /\ bits[i + 4] = (v \div 4) % 2
             /\ bits[i + 5] = (v \div 2) % 2 /\ bits[i + 6] = (v \div 1) % 2
  BY SixBits
<1>3. \A i \in 1..n : c[i] \in 0..63
  OBVIOUS
<1> HIDE DEF n, bits
<1>4. ASSUME 4 * g - 2 <= n
      PROVE  data[3 * g - 2] = SextetBytes(c, g)[1]
  <2> DEFINE p == 4 * g - 3
             q == 4 * g - 2
             j == 3 * g - 2
             h == 6 * (p - 1)
             i == 8 * (j - 1)
  <2>1. /\ p \in 1..n /\ q \in 1..n /\ j \in 1..(Len(bits) \div 8)
        /\ i = 8 * (j - 1) /\ i = h + 0 /\ 6 * (q - 1) = h + 6 /\ h \in Int
    BY <1>1, <1>4, Base64BitPlaces
  <2>2. c[p] \in 0..63 /\ c[q] \in 0..63
    BY <1>3, <2>1
  <2>3. /\ bits[h + 1] = (c[p] \div 32) % 2 /\ bits[h + 2] = (c[p] \div 16) % 2
        /\ bits[h + 3] = (c[p] \div 8) % 2 /\ bits[h + 4] = (c[p] \div 4) % 2
        /\ bits[h + 5] = (c[p] \div 2) % 2 /\ bits[h + 6] = (c[p] \div 1) % 2
    BY <1>2, <2>1
  <2>4. /\ bits[(h + 6) + 1] = (c[q] \div 32) % 2 /\ bits[(h + 6) + 2] = (c[q] \div 16) % 2
    BY <1>2, <2>1
  <2> HIDE DEF h, i, j, p, q
  <2>5. h + 1 = i + 1 /\ h + 2 = i + 2 /\ h + 3 = i + 3 /\ h + 4 = i + 4 /\ h + 5 = i + 5 /\ h + 6 = i + 6
    BY <2>1
  <2>6. (h + 6) + 1 = i + 7 /\ (h + 6) + 2 = i + 8
    BY <2>1
  <2>7. data[j] = ByteAt(bits, i)
    BY <2>1, ByteOfBits
  <2>8. /\ bits[i + 1] = (c[p] \div 32) % 2 /\ bits[i + 2] = (c[p] \div 16) % 2
        /\ bits[i + 3] = (c[p] \div 8) % 2 /\ bits[i + 4] = (c[p] \div 4) % 2
        /\ bits[i + 5] = (c[p] \div 2) % 2 /\ bits[i + 6] = (c[p] \div 1) % 2
        /\ bits[i + 7] = (c[q] \div 32) % 2 /\ bits[i + 8] = (c[q] \div 16) % 2
    BY <2>3, <2>4, <2>5, <2>6, Zenon
  <2>9. data[j] = Eight((c[p] \div 32) % 2, (c[p] \div 16) % 2, (c[p] \div 8) % 2, (c[p] \div 4) % 2,
                      (c[p] \div 2) % 2, (c[p] \div 1) % 2, (c[q] \div 32) % 2, (c[q] \div 16) % 2)
    BY <2>7, <2>8, Zenon DEF ByteAt
  <2>10. Eight((c[p] \div 32) % 2, (c[p] \div 16) % 2, (c[p] \div 8) % 2, (c[p] \div 4) % 2,
                      (c[p] \div 2) % 2, (c[p] \div 1) % 2, (c[q] \div 32) % 2, (c[q] \div 16) % 2) = 4 * c[p] + c[q] \div 16
    BY <2>2, SextetsAddUp
  <2> QED
    BY <2>9, <2>10, Zenon DEF SextetBytes, j, p, q
<1>5. ASSUME 4 * g - 1 <= n
      PROVE  data[3 * g - 1] = SextetBytes(c, g)[2]
  <2> DEFINE p == 4 * g - 2
             q == 4 * g - 1
             j == 3 * g - 1
             h == 6 * (p - 1)
             i == 8 * (j - 1)
  <2>1. /\ p \in 1..n /\ q \in 1..n /\ j \in 1..(Len(bits) \div 8)
        /\ i = 8 * (j - 1) /\ i = h + 2 /\ 6 * (q - 1) = h + 6 /\ h \in Int
    BY <1>1, <1>5, Base64BitPlaces
  <2>2. c[p] \in 0..63 /\ c[q] \in 0..63
    BY <1>3, <2>1
  <2>3. /\ bits[h + 3] = (c[p] \div 8) % 2 /\ bits[h + 4] = (c[p] \div 4) % 2
        /\ bits[h + 5] = (c[p] \div 2) % 2 /\ bits[h + 6] = (c[p] \div 1) % 2
    BY <1>2, <2>1
  <2>4. /\ bits[(h + 6) + 1] = (c[q] \div 32) % 2 /\ bits[(h + 6) + 2] = (c[q] \div 16) % 2
        /\ bits[(h + 6) + 3] = (c[q] \div 8) % 2 /\ bits[(h + 6) + 4] = (c[q] \div 4) % 2
    BY <1>2, <2>1
  <2> HIDE DEF h, i, j, p, q
  <2>5. h + 3 = i + 1 /\ h + 4 = i + 2 /\ h + 5 = i + 3 /\ h + 6 = i + 4
    BY <2>1
  <2>6. (h + 6) + 1 = i + 5 /\ (h + 6) + 2 = i + 6 /\ (h + 6) + 3 = i + 7 /\ (h + 6) + 4 = i + 8
    BY <2>1
  <2>7. data[j] = ByteAt(bits, i)
    BY <2>1, ByteOfBits
  <2>8. /\ bits[i + 1] = (c[p] \div 8) % 2 /\ bits[i + 2] = (c[p] \div 4) % 2
        /\ bits[i + 3] = (c[p] \div 2) % 2 /\ bits[i + 4] = (c[p] \div 1) % 2
        /\ bits[i + 5] = (c[q] \div 32) % 2 /\ bits[i + 6] = (c[q] \div 16) % 2
        /\ bits[i + 7] = (c[q] \div 8) % 2 /\ bits[i + 8] = (c[q] \div 4) % 2
    BY <2>3, <2>4, <2>5, <2>6, Zenon
  <2>9. data[j] = Eight((c[p] \div 8) % 2, (c[p] \div 4) % 2, (c[p] \div 2) % 2, (c[p] \div 1) % 2,
                      (c[q] \div 32) % 2, (c[q] \div 16) % 2, (c[q] \div 8) % 2, (c[q] \div 4) % 2)
    BY <2>7, <2>8, Zenon DEF ByteAt
  <2>10. Eight((c[p] \div 8) % 2, (c[p] \div 4) % 2, (c[p] \div 2) % 2, (c[p] \div 1) % 2,
                      (c[q] \div 32) % 2, (c[q] \div 16) % 2, (c[q] \div 8) % 2, (c[q] \div 4) % 2) = (c[p] % 16) * 16 + c[q] \div 4
    BY <2>2, SextetsAddUp
  <2> QED
    BY <2>9, <2>10, Zenon DEF SextetBytes, j, p, q
<1>6. ASSUME 4 * g <= n
      PROVE  data[3 * g] = SextetBytes(c, g)[3]
  <2> DEFINE p == 4 * g - 1
             q == 4 * g
             j == 3 * g
             h == 6 * (p - 1)
             i == 8 * (j - 1)
  <2>1. /\ p \in 1..n /\ q \in 1..n /\ j \in 1..(Len(bits) \div 8)
        /\ i = 8 * (j - 1) /\ i = h + 4 /\ 6 * (q - 1) = h + 6 /\ h \in Int
    BY <1>1, <1>6, Base64BitPlaces
  <2>2. c[p] \in 0..63 /\ c[q] \in 0..63
    BY <1>3, <2>1
  <2>3. /\ bits[h + 5] = (c[p] \div 2) % 2 /\ bits[h + 6] = (c[p] \div 1) % 2
    BY <1>2, <2>1
  <2>4. /\ bits[(h + 6) + 1] = (c[q] \div 32) % 2 /\ bits[(h + 6) + 2] = (c[q] \div 16) % 2
        /\ bits[(h + 6) + 3] = (c[q] \div 8) % 2 /\ bits[(h + 6) + 4] = (c[q] \div 4) % 2
        /\ bits[(h + 6) + 5] = (c[q] \div 2) % 2 /\ bits[(h + 6) + 6] = (c[q] \div 1) % 2
    BY <1>2, <2>1
  <2> HIDE DEF h, i, j, p, q
  <2>5. h + 5 = i + 1 /\ h + 6 = i + 2
    BY <2>1
  <2>6. (h + 6) + 1 = i + 3 /\ (h + 6) + 2 = i + 4 /\ (h + 6) + 3 = i + 5 /\ (h + 6) + 4 = i + 6 /\ (h + 6) + 5 = i + 7 /\ (h + 6) + 6 = i + 8
    BY <2>1
  <2>7. data[j] = ByteAt(bits, i)
    BY <2>1, ByteOfBits
  <2>8. /\ bits[i + 1] = (c[p] \div 2) % 2 /\ bits[i + 2] = (c[p] \div 1) % 2
        /\ bits[i + 3] = (c[q] \div 32) % 2 /\ bits[i + 4] = (c[q] \div 16) % 2
        /\ bits[i + 5] = (c[q] \div 8) % 2 /\ bits[i + 6] = (c[q] \div 4) % 2
        /\ bits[i + 7] = (c[q] \div 2) % 2 /\ bits[i + 8] = (c[q] \div 1) % 2
    BY <2>3, <2>4, <2>5, <2>6, Zenon
  <2>9. data[j] = Eight((c[p] \div 2) % 2, (c[p] \div 1) % 2, (c[q] \div 32) % 2, (c[q] \div 16) % 2,
                      (c[q] \div 8) % 2, (c[q] \div 4) % 2, (c[q] \div 2) % 2, (c[q] \div 1) % 2)
    BY <2>7, <2>8, Zenon DEF ByteAt
  <2>10. Eight((c[p] \div 2) % 2, (c[p] \div 1) % 2, (c[q] \div 32) % 2, (c[q] \div 16) % 2,
                      (c[q] \div 8) % 2, (c[q] \div 4) % 2, (c[q] \div 2) % 2, (c[q] \div 1) % 2) = (c[p] % 4) * 64 + c[q]
    BY <2>2, SextetsAddUp
  <2> QED
    BY <2>9, <2>10, Zenon DEF SextetBytes, j, p, q
<1> QED
  BY <1>4, <1>5, <1>6 DEF n, bits

(* Four characters as three bytes.                                         *)
LEMMA Splits ==
    ASSUME NEW c \in Sextets
    PROVE  /\ c = 16 * (c \div 16) + (c % 16) /\ c \div 16 \in 0..3 /\ c % 16 \in 0..15
           /\ c = 4 * (c \div 4) + (c % 4) /\ c \div 4 \in 0..15 /\ c % 4 \in 0..3
<1>1. c \in 0..63 /\ c \in Nat
  BY DEF Sextets
<1>0. \A n \in Nat : n = 16 * (n \div 16) + (n % 16)
  OBVIOUS
<1>a. \A n \in Nat : n = 4 * (n \div 4) + (n % 4)
  OBVIOUS
<1>2. c = 16 * (c \div 16) + (c % 16)
  BY <1>0, <1>1
<1>3. c = 4 * (c \div 4) + (c % 4)
  BY <1>a, <1>1
<1>4. c \div 16 \in 0..3 /\ c % 16 \in 0..15
  BY <1>1
<1>5. c \div 4 \in 0..15 /\ c % 4 \in 0..3
  BY <1>1
<1> QED
  BY <1>2, <1>3, <1>4, <1>5

(* What the entries of a group add up to, and its bytes as the bits have   *)
(* them.                                                                   *)
GroupSum(c1, c2, c3, c4) == c1 * 262144 + c2 * 4096 + c3 * 64 + c4

GroupOfSextets(c1, c2, c3, c4) ==
    <<4 * c1 + c2 \div 16, (c2 % 16) * 16 + c3 \div 4, (c3 % 4) * 64 + c4>>

(* The middle characters in the parts that go to different bytes.          *)
AreParts(c2, h2, l2, c3, h3, l3) ==
    /\ c2 = 16 * h2 + l2 /\ h2 \in 0..3 /\ l2 \in 0..15
    /\ c3 = 4 * h3 + l3 /\ h3 \in 0..15 /\ l3 \in 0..3

FromParts(c1, h2, l2, h3, l3, c4) == <<4 * c1 + h2, l2 * 16 + h3, l3 * 64 + c4>>

(* The bytes of the sum are put together from those parts.                 *)
LEMMA GroupAddsUp ==
    ASSUME NEW c1 \in Sextets, NEW c4 \in Sextets, NEW c2, NEW c3,
           NEW h2, NEW l2, NEW h3, NEW l3, AreParts(c2, h2, l2, c3, h3, l3)
    PROVE  GroupBytes(GroupSum(c1, c2, c3, c4)) = FromParts(c1, h2, l2, h3, l3, c4)
<1> DEFINE b1 == 4 * c1 + h2
           b2 == l2 * 16 + h3
           b3 == l3 * 64 + c4
<1>0. /\ c1 \in 0..63 /\ c4 \in 0..63 /\ c2 = 16 * h2 + l2 /\ h2 \in 0..3 /\ l2 \in 0..15
      /\ c3 = 4 * h3 + l3 /\ h3 \in 0..15 /\ l3 \in 0..3
  BY DEF Sextets, AreParts
<1>1. b1 \in Byte /\ b2 \in Byte /\ b3 \in Byte
  BY <1>0 DEF Byte
<1>2. c2 * 4096 = 65536 * h2 + 4096 * l2
  BY <1>0, SMT
<1>3. c3 * 64 = 256 * h3 + 64 * l3
  BY <1>0, SMT
<1>4. b1 * 65536 = 262144 * c1 + 65536 * h2
  BY <1>0, SMT
<1>5. b2 * 256 = 4096 * l2 + 256 * h3
  BY <1>0, SMT
<1>6. c1 * 262144 = 262144 * c1
  BY <1>0, SMT
<1>7. GroupSum(c1, c2, c3, c4) = b1 * 65536 + b2 * 256 + b3
  BY <1>0, <1>1, <1>2, <1>3, <1>4, <1>5, <1>6, SMT DEF GroupSum
<1> HIDE DEF b1, b2, b3
<1>8. GroupBytes(b1 * 65536 + b2 * 256 + b3) = <<b1, b2, b3>>
  BY <1>1, GroupBytesAre, SMT
<1> QED
  BY <1>7, <1>8, SMT DEF FromParts, b1, b2, b3

(* So the bytes of the sum are the bytes of the bits.                      *)
LEMMA GroupBytesOf ==
    ASSUME NEW c1 \in Sextets, NEW c2 \in Sextets, NEW c3 \in Sextets, NEW c4 \in Sextets
    PROVE  GroupBytes(GroupSum(c1, c2, c3, c4)) = GroupOfSextets(c1, c2, c3, c4)
<1> DEFINE h2 == c2 \div 16
           l2 == c2 % 16
           h3 == c3 \div 4
           l3 == c3 % 4
<1>1. AreParts(c2, h2, l2, c3, h3, l3)
  BY Splits DEF AreParts
<1> HIDE DEF h2, l2, h3, l3
<1>2. GroupBytes(GroupSum(c1, c2, c3, c4)) = FromParts(c1, h2, l2, h3, l3, c4)
  BY <1>1, GroupAddsUp
<1> QED
  BY <1>2 DEF FromParts, GroupOfSextets, h2, l2, h3, l3

(* And so are those of the decoder's group.                                *)
LEMMA GoodGroup ==
    ASSUME NEW c1 \in Sextets, NEW c2 \in Sextets, NEW c3 \in Sextets, NEW c4 \in Sextets
    PROVE  GroupBytes(DecodeGroup(c1, c2, c3, c4)) = GroupOfSextets(c1, c2, c3, c4)
<1>1. c1 \in Sextets /\ c2 \in Sextets /\ c3 \in Sextets /\ c4 \in Sextets
  BY DEF Sextets
<1>2. DecodeGroup(c1, c2, c3, c4) = GroupSum(c1, c2, c3, c4)
  BY <1>1, EntriesAddUp, SMT DEF GroupSum
<1> QED
  BY <1>2, GroupBytesOf

(* The last group, with a character or two less, is one filled with zeros. *)
LEMMA GoodTail ==
    ASSUME NEW c1 \in Sextets, NEW c2 \in Sextets, NEW c3 \in Sextets, NEW x
    PROVE  /\ DecodeTail(c1, c2, c3, 1) = DecodeGroup(c1, c2, c3, 0)
           /\ DecodeTail(c1, c2, x, 2) = DecodeGroup(c1, c2, 0, 0)
<1>1. c1 \in Sextets /\ c2 \in Sextets /\ c3 \in Sextets /\ 0 \in Sextets
  BY DEF Sextets
<1>2. DecodeGroup(c1, c2, c3, 0) = c1 * 262144 + c2 * 4096 + c3 * 64 + 0
  BY <1>1, EntriesAddUp, SMT
<1>3. DecodeGroup(c1, c2, 0, 0) = c1 * 262144 + c2 * 4096 + 0 * 64 + 0
  BY <1>1, EntriesAddUp, SMT
<1>4. DecodeTail(c1, c2, c3, 1) = c1 * 262144 + c2 * 4096 + c3 * 64
  BY <1>1, EntriesAddUp, SMT
<1>5. DecodeTail(c1, c2, x, 2) = c1 * 262144 + c2 * 4096
  BY <1>1, EntriesAddUp, SMT
<1> QED
  BY <1>2, <1>3, <1>4, <1>5, SMT DEF Sextets

(* Where the padding starts is determined.                                 *)
LEMMA OnePadding ==
    ASSUME NEW t, Len(t) \in Nat, NEW digits, Pad \notin digits,
           NEW n \in 0..Len(t), NEW m \in 0..Len(t),
           IsPadded(t, n, digits), IsPadded(t, m, digits)
    PROVE  n = m
<1>1. ASSUME NEW a \in 0..Len(t), NEW b \in 0..Len(t), a < b,
             IsPadded(t, a, digits), IsPadded(t, b, digits)
      PROVE  FALSE
  <2>1. b \in 1..Len(t) /\ ~(b <= a) /\ b <= b
    BY <1>1
  <2>2. t[b] = Pad /\ t[b] \in digits
    BY <1>1, <2>1 DEF IsPadded
  <2> QED
    BY <2>2
<1>2. n < m \/ m < n \/ n = m
  OBVIOUS
<1> QED
  BY <1>1, <1>2

(* And it is what the decoder counts.                                      *)
LEMMA PaddingOf ==
    ASSUME NEW t, Len(t) \in Nat, Len(t) >= 4, NEW p \in 0..2, IsPadded(t, Len(t) - p, Sextets)
    PROVE  NumPadding(t) = p
<1>1. ASSUME NEW i \in 1..4
      PROVE  t[Len(t) - 4 + i] = Pad <=> i > 4 - p
  <2> DEFINE j == Len(t) - 4 + i
  <2>1. j \in 1..Len(t) /\ (j <= Len(t) - p <=> ~(i > 4 - p))
    OBVIOUS
  <2> HIDE DEF j
  <2>2. IF j <= Len(t) - p THEN t[j] \in Sextets ELSE t[j] = Pad
    BY <2>1 DEF IsPadded
  <2>3. Pad \notin Sextets
    BY DEF Pad, Sextets
  <2>4. t[j] = Pad <=> i > 4 - p
    BY <2>1, <2>2, <2>3
  <2> QED
    BY <2>4 DEF j
<1> QED
  BY <1>1, NoPadding

(* The first n characters of a text.                                       *)
LEMMA CutIs ==
    ASSUME NEW t, NEW S, NEW n \in Nat, \A i \in 1..n : t[i] \in S
    PROVE  /\ SubSeq(t, 1, n) \in Seq(S) /\ Len(SubSeq(t, 1, n)) = n
           /\ \A i \in 1..n : SubSeq(t, 1, n)[i] = t[i]
<1>1. 1 \in Int /\ n \in Int
  OBVIOUS
<1> QED
  BY <1>1, SubSeqProperties

(* Where the characters of group g stand.                                  *)
LEMMA SextetPlaces ==
    ASSUME NEW n \in Nat, NEW g \in Nat, g >= 1
    PROVE  /\ 4 * g - 3 >= 1 /\ 4 * g - 2 >= 1 /\ 4 * g - 1 >= 1 /\ 4 * g >= 1
           /\ 4 * g <= n => /\ 4 * g - 3 \in 1..n /\ 4 * g - 2 \in 1..n
                            /\ 4 * g - 1 \in 1..n /\ 4 * g \in 1..n
OBVIOUS

(* The bytes of the full groups.                                           *)
BodyByte(t, k) ==
    GroupBytes(DecodeGroup(t[4 * ((k + 2) \div 3) - 3], t[4 * ((k + 2) \div 3) - 2],
                           t[4 * ((k + 2) \div 3) - 1], t[4 * ((k + 2) \div 3)]))[1 + ((k - 1) % 3)]

(* The text starts with these characters, full groups of them at least.    *)
AreChars(t, c, full) ==
    /\ Len(c) \in Nat /\ full \in Nat /\ 4 * full <= Len(c)
    /\ \A i \in 1..Len(c) : c[i] \in Sextets /\ t[i] = c[i]

(* They are the bytes of the bits.                                         *)
LEMMA BodyIs ==
    ASSUME NEW t, NEW c, NEW full, AreChars(t, c, full), NEW k \in 1..(3 * full)
    PROVE  BodyByte(t, k) = BytesOf(BitsOf(c, 6))[k]
<1> DEFINE g == (k + 2) \div 3
<1>0. /\ Len(c) \in Nat /\ full \in Nat /\ 4 * full <= Len(c)
      /\ \A i \in 1..Len(c) : c[i] \in Sextets /\ t[i] = c[i]
  BY DEF AreChars
<1> DEFINE data == BytesOf(BitsOf(c, 6))
           n == Len(c)
<1>1. /\ g \in 1..full
      /\ \/ (k - 1) % 3 = 0 /\ k = 3 * g - 2
         \/ (k - 1) % 3 = 1 /\ k = 3 * g - 1
         \/ (k - 1) % 3 = 2 /\ k = 3 * g
  BY <1>0, ThreePlaces
<1> HIDE DEF g
<1>2. g \in Nat \ {0} /\ 4 * g <= n /\ 4 * g - 1 <= n /\ 4 * g - 2 <= n /\ g >= 1
  BY <1>0, <1>1
<1>3. \A i \in 1..n : c[i] \in 0..63
  BY <1>0 DEF Sextets
<1>4. /\ data[3 * g - 2] = SextetBytes(c, g)[1] /\ data[3 * g - 1] = SextetBytes(c, g)[2]
      /\ data[3 * g] = SextetBytes(c, g)[3]
  <2>1. Len(c) \in Nat
    BY <1>0
  <2> QED
    BY <1>2, <1>3, <2>1, Base64BytesAre
<1>5. /\ 4 * g - 3 \in 1..n /\ 4 * g - 2 \in 1..n /\ 4 * g - 1 \in 1..n /\ 4 * g \in 1..n
  BY <1>0, <1>2, SextetPlaces
<1>6. GroupBytes(DecodeGroup(t[4 * g - 3], t[4 * g - 2], t[4 * g - 1], t[4 * g]))
        = SextetBytes(c, g)
  <2>1. /\ t[4 * g - 3] = c[4 * g - 3] /\ t[4 * g - 2] = c[4 * g - 2]
        /\ t[4 * g - 1] = c[4 * g - 1] /\ t[4 * g] = c[4 * g]
        /\ c[4 * g - 3] \in Sextets /\ c[4 * g - 2] \in Sextets
        /\ c[4 * g - 1] \in Sextets /\ c[4 * g] \in Sextets
    BY <1>0, <1>5
  <2>2. GroupBytes(DecodeGroup(c[4 * g - 3], c[4 * g - 2], c[4 * g - 1], c[4 * g]))
          = GroupOfSextets(c[4 * g - 3], c[4 * g - 2], c[4 * g - 1], c[4 * g])
    BY <2>1, GoodGroup
  <2> QED
    BY <2>1, <2>2 DEF GroupOfSextets, SextetBytes
<1> HIDE DEF data
<1>7. SextetBytes(c, g)[1 + ((k - 1) % 3)] = data[k]
  <2>1. CASE (k - 1) % 3 = 0 /\ k = 3 * g - 2
    <3>1. 1 + ((k - 1) % 3) = 1
      BY <2>1
    <3> QED
      BY <1>4, <2>1, <3>1, Zenon
  <2>2. CASE (k - 1) % 3 = 1 /\ k = 3 * g - 1
    <3>1. 1 + ((k - 1) % 3) = 2
      BY <2>2
    <3> QED
      BY <1>4, <2>2, <3>1, Zenon
  <2>3. CASE (k - 1) % 3 = 2 /\ k = 3 * g
    <3>1. 1 + ((k - 1) % 3) = 3
      BY <2>3
    <3> QED
      BY <1>4, <2>3, <3>1, Zenon
  <2> QED
    BY <1>1, <2>1, <2>2, <2>3
<1> QED
  BY <1>6, <1>7, Zenon DEF BodyByte, g, data

(* The bytes of the last group, of two or of three characters.             *)
EndsIn(c, y, full, p) ==
    /\ Len(c) \in Nat /\ full \in Nat /\ p \in 1..2 /\ Len(c) = 4 * full + 4 - p
    /\ \A i \in 1..Len(c) : c[i] \in Sextets
    /\ p = 1 => y = c[4 * full + 3]

(* The bytes the decoder makes of the last group.                          *)
RestBytes(c, y, full, p) ==
    SubSeq(GroupBytes(DecodeTail(c[4 * full + 1], c[4 * full + 2], y, p)), 1, 3 - p)

(* These bytes are those of the bits.                                      *)
IsRest(rest, data, full, p) ==
    /\ Len(rest) = 3 - p /\ rest \in Seq(Int)
    /\ rest[1] = data[3 * full + 1]
    /\ p = 1 => rest[2] = data[3 * full + 2]

(* Which the last group has.                                               *)
LEMMA RestIs ==
    ASSUME NEW c, NEW y, NEW full, NEW p, EndsIn(c, y, full, p)
    PROVE  IsRest(RestBytes(c, y, full, p), BytesOf(BitsOf(c, 6)), full, p)
<1>0. /\ Len(c) \in Nat /\ full \in Nat /\ p \in 1..2 /\ Len(c) = 4 * full + 4 - p
      /\ \A i \in 1..Len(c) : c[i] \in Sextets
      /\ p = 1 => y = c[4 * full + 3]
  BY DEF EndsIn
<1> DEFINE n == Len(c)
           g == full + 1
           data == BytesOf(BitsOf(c, 6))
           c1 == c[4 * full + 1]
           c2 == c[4 * full + 2]
           c3 == c[4 * full + 3]
<1>1. /\ g \in Nat \ {0} /\ 4 * g - 3 = 4 * full + 1 /\ 4 * g - 2 = 4 * full + 2
      /\ 4 * g - 1 = 4 * full + 3 /\ 4 * g - 2 <= n /\ (p = 1 => 4 * g - 1 <= n)
      /\ 3 * g - 2 = 3 * full + 1 /\ 3 * g - 1 = 3 * full + 2
      /\ 4 * full + 1 \in 1..n /\ 4 * full + 2 \in 1..n /\ (p = 1 => 4 * full + 3 \in 1..n)
  BY <1>0
<1>2. c1 \in Sextets /\ c2 \in Sextets /\ (p = 1 => c3 \in Sextets)
  BY <1>0, <1>1
<1>3. /\ data[3 * full + 1] = 4 * c1 + c2 \div 16
      /\ p = 1 => data[3 * full + 2] = (c2 % 16) * 16 + c3 \div 4
  <2>1. Len(c) \in Nat /\ \A i \in 1..Len(c) : c[i] \in 0..63
    BY <1>0 DEF Sextets
  <2>2. /\ data[3 * g - 2] = SextetBytes(c, g)[1]
        /\ p = 1 => data[3 * g - 1] = SextetBytes(c, g)[2]
    BY <1>1, <2>1, Base64BytesAre
  <2> QED
    BY <1>1, <2>2 DEF SextetBytes
<1> HIDE DEF data, g, n
<1>4. 0 \in Sextets
  BY DEF Sextets
<1>5. CASE p = 1
  <2>1. y = c3 /\ c3 \in Sextets
    BY <1>0, <1>2, <1>5
  <2> HIDE DEF c1, c2, c3
  <2>2. GroupBytes(DecodeTail(c1, c2, y, 1)) = GroupOfSextets(c1, c2, c3, 0)
    <3>1. DecodeTail(c1, c2, c3, 1) = DecodeGroup(c1, c2, c3, 0)
      BY <1>2, <2>1, GoodTail
    <3>2. GroupBytes(DecodeGroup(c1, c2, c3, 0)) = GroupOfSextets(c1, c2, c3, 0)
      BY <1>2, <1>4, <2>1, GoodGroup
    <3> QED
      BY <2>1, <3>1, <3>2
  <2> DEFINE a == 4 * c1 + c2 \div 16
             b == (c2 % 16) * 16 + c3 \div 4
             d == (c3 % 4) * 64 + 0
  <2>3. a \in Int /\ b \in Int /\ d \in Int
    BY <1>2, <2>1 DEF Sextets
  <2>4. GroupOfSextets(c1, c2, c3, 0) = <<a, b, d>>
    BY DEF GroupOfSextets
  <2> HIDE DEF a, b, d
  <2>5. SubSeq(<<a, b, d>>, 1, 2) = <<a, b>>
    BY <2>3, FirstOfThree
  <2>6. 3 - p = 2
    BY <1>5
  <2>7. RestBytes(c, y, full, p) = <<a, b>>
    BY <1>5, <2>2, <2>4, <2>5, <2>6 DEF RestBytes, c1, c2
  <2>8. data[3 * full + 1] = a /\ data[3 * full + 2] = b
    BY <1>3, <1>5 DEF a, b
  <2>9. Len(<<a, b>>) = 2 /\ <<a, b>> \in Seq(Int) /\ <<a, b>>[1] = a /\ <<a, b>>[2] = b
    BY <2>3
  <2> QED
    BY <2>6, <2>7, <2>8, <2>9, Zenon DEF IsRest, data
<1>6. CASE p = 2
  <2> HIDE DEF c1, c2, c3
  <2>2. GroupBytes(DecodeTail(c1, c2, y, 2)) = GroupOfSextets(c1, c2, 0, 0)
    <3>1. DecodeTail(c1, c2, y, 2) = DecodeGroup(c1, c2, 0, 0)
      BY <1>2, <1>4, GoodTail
    <3>2. GroupBytes(DecodeGroup(c1, c2, 0, 0)) = GroupOfSextets(c1, c2, 0, 0)
      BY <1>2, <1>4, GoodGroup
    <3> QED
      BY <3>1, <3>2
  <2> DEFINE a == 4 * c1 + c2 \div 16
             b == (c2 % 16) * 16 + 0 \div 4
             d == (0 % 4) * 64 + 0
  <2>3. a \in Int /\ b \in Int /\ d \in Int
    BY <1>2 DEF Sextets
  <2>4. GroupOfSextets(c1, c2, 0, 0) = <<a, b, d>>
    BY DEF GroupOfSextets
  <2> HIDE DEF a, b, d
  <2>5. SubSeq(<<a, b, d>>, 1, 1) = <<a>>
    BY <2>3, FirstOfThree
  <2>6. 3 - p = 1 /\ p # 1
    BY <1>6
  <2>7. RestBytes(c, y, full, p) = <<a>>
    BY <1>6, <2>2, <2>4, <2>5, <2>6 DEF RestBytes, c1, c2
  <2>8. data[3 * full + 1] = a
    BY <1>3, <1>6 DEF a
  <2>9. Len(<<a>>) = 1 /\ <<a>> \in Seq(Int) /\ <<a>>[1] = a
    BY <2>3
  <2> QED
    BY <2>6, <2>7, <2>8, <2>9, Zenon DEF IsRest, data
<1> QED
  BY <1>0, <1>5, <1>6

(* A sequence in two parts.                                                *)
ArePartsOf(a, b, q, m, r) ==
    /\ m \in Nat /\ r \in Nat /\ q = [j \in 1..(m + r) |-> q[j]]
    /\ a = [k \in 1..m |-> q[k]]
    /\ b = [i \in 1..r |-> b[i]] /\ \A i \in 1..r : b[i] = q[m + i]

(* Its parts joined are the sequence.                                      *)
LEMMA TwoParts ==
    ASSUME NEW a, NEW b, NEW q, NEW m, NEW r, ArePartsOf(a, b, q, m, r)
    PROVE  a \o b = q
<1>a. /\ m \in Nat /\ r \in Nat /\ q = [j \in 1..(m + r) |-> q[j]]
      /\ a = [k \in 1..m |-> q[k]]
      /\ b = [i \in 1..r |-> b[i]] /\ \A i \in 1..r : b[i] = q[m + i]
  BY DEF ArePartsOf
<1>b. m \in Nat /\ r \in Nat /\ a = [k \in 1..m |-> q[k]]
  BY <1>a
<1> DEFINE T == {q[j] : j \in 1..(m + r)}
<1>0. \A j \in 1..(m + r) : q[j] \in T
  OBVIOUS
<1> HIDE DEF T
<1>1. q \in Seq(T) /\ Len(q) = m + r
  <2>1. m + r \in Nat /\ q \in [1..(m + r) -> T]
    BY <1>a, <1>0
  <2> QED
    BY <2>1
<1>2. a \in Seq(T) /\ Len(a) = m /\ \A k \in 1..m : a[k] = q[k]
  <2>1. \A k \in 1..m : k \in 1..(m + r)
    BY <1>a
  <2>2. a \in [1..m -> T]
    BY <1>a, <1>0, <2>1
  <2>3. \A k \in 1..m : a[k] = q[k]
    BY <1>a
  <2>4. a \in Seq(T) /\ Len(a) = m
    <3>1. m \in Nat
      BY <1>a
    <3> QED
      BY <2>2, <3>1
  <2> QED
    BY <2>3, <2>4
<1>3. \A i \in 1..r : m + i \in 1..(m + r) /\ b[i] = q[m + i]
  <2>1. \A i \in 1..r : m + i \in 1..(m + r)
    BY <1>b
  <2> QED
    BY <1>a, <2>1
<1>4. \A i \in 1..r : b[i] \in T
  BY <1>0, <1>3
<1>6. b \in Seq(T) /\ Len(b) = r
  <2>1. b \in [1..r -> T]
    BY <1>a, <1>4
  <2> QED
    BY <1>b, <2>1
<1>7. /\ a \o b \in Seq(T) /\ Len(a \o b) = m + r
      /\ \A j \in 1..m : (a \o b)[j] = a[j]
      /\ \A j \in 1..r : (a \o b)[m + j] = b[j]
  <2>1. /\ a \o b \in Seq(T) /\ Len(a \o b) = Len(a) + Len(b)
        /\ \A j \in 1..Len(a) : (a \o b)[j] = a[j]
        /\ \A j \in 1..Len(b) : (a \o b)[Len(a) + j] = b[j]
    <3>1. a \in Seq(T) /\ b \in Seq(T)
      BY <1>2, <1>6
    <3> QED
      BY <3>1
  <2> QED
    BY <1>2, <1>6, <2>1
<1>8. ASSUME NEW j \in 1..(m + r) PROVE (a \o b)[j] = q[j]
  <2>1. CASE j <= m
    BY <1>a, <1>2, <1>7, <2>1
  <2>2. CASE j > m
    <3>1. j - m \in 1..r /\ m + (j - m) = j
      BY <1>a, <2>2
    <3>2. (a \o b)[m + (j - m)] = b[j - m] /\ b[j - m] = q[m + (j - m)]
      BY <1>3, <1>7, <3>1
    <3> QED
      BY <3>1, <3>2
  <2> QED
    BY <1>a, <2>1, <2>2
<1> QED
  BY <1>1, <1>7, <1>8, SeqEqual

(* An accepted text gives the bytes of the bits of its characters, those   *)
(* before the padding.                                                     *)
LEMMA Base64DataIs ==
    ASSUME NEW t, Len(t) \in Nat, DecodeInto(t).ok, IsBase64(t),
           NEW n \in 0..Len(t), IsPadded(t, n, Sextets)
    PROVE  DecodeInto(t).data = BytesOf(BitsOf(SubSeq(t, 1, n), 6))
<1> DEFINE N == Len(t)
           c == SubSeq(t, 1, n)
           B == BytesOf(BitsOf(c, 6))
<1>0. n \in Nat
  OBVIOUS
<1>1. /\ c \in Seq(Sextets) /\ Len(c) = n /\ \A i \in 1..n : c[i] = t[i] /\ t[i] \in Sextets
  <2>1. \A i \in 1..n : t[i] \in Sextets
    <3> TAKE i \in 1..n
    <3>1. i \in 1..Len(t) /\ i <= n
      OBVIOUS
    <3> QED
      BY <3>1 DEF IsPadded
  <2> QED
    BY <1>0, <2>1, CutIs
<1>2. PICK p \in 0..2 : IsPadded(t, N - p, Sextets)
  BY DEF IsBase64
<1>3. N % 4 = 0 /\ N \in Nat
  BY DEF IsBase64
<1> HIDE DEF c
<1>4. B = [j \in 1..((6 * n) \div 8) |-> B[j]]
  BY <1>0, <1>1, BitsAre
<1>5. CASE N = 0
  <2>1. n = 0 /\ (6 * n) \div 8 = 0
    BY <1>5
  <2>2. DecodeInto(t) = Ok(<<>>)
    BY <1>5 DEF DecodeInto
  <2>3. DecodeInto(t).data = <<>>
    BY <2>2 DEF Ok
  <2> HIDE DEF B
  <2>4. B = <<>>
    BY <1>4, <2>1
  <2> QED
    BY <2>3, <2>4 DEF B, c
<1>6. CASE N # 0
  <2>1. N >= 4
    BY <1>3, <1>6
  <2>2. n = N - p
    <3>1. N - p \in 0..Len(t) /\ Pad \notin Sextets
      BY <2>1 DEF Pad, Sextets
    <3> QED
      BY <1>2, <3>1, OnePadding
  <2>3. NumPadding(t) = p
    BY <1>2, <2>1, PaddingOf
  <2> DEFINE full == (N \div 4) - (IF p # 0 THEN 1 ELSE 0)
             Temp(i) == DecodeGroup(t[4 * i - 3], t[4 * i - 2], t[4 * i - 1], t[4 * i])
             tail == DecodeTail(t[N - 3], t[N - 2], t[N - 1], p)
             body == [k \in 1..(3 * full) |-> GroupBytes(Temp((k + 2) \div 3))[1 + ((k - 1) % 3)]]
             rest == IF p = 0 THEN <<>> ELSE SubSeq(GroupBytes(tail), 1, 3 - p)
  <2>4. DecodeInto(t).data = body \o rest
    <3>1. DecodeInto(t) = IF \/ p > 2
                             \/ \E i \in 1..full : Temp(i) >= BadChar
                             \/ p # 0 /\ tail >= BadChar
                            THEN Invalid ELSE Ok(body \o rest)
      BY <1>3, <1>6, <2>3 DEF DecodeInto
    <3>2. DecodeInto(t) = Ok(body \o rest)
      <4> HIDE DEF body, rest, tail, full, Temp
      <4>1. ~Invalid.ok
        BY DEF Invalid
      <4> QED
        BY <3>1, <4>1
    <3> HIDE DEF body, rest
    <3> QED
      BY <3>2 DEF Ok
  <2>5. /\ full \in Nat /\ 4 * full <= n
        /\ p = 0 => n = 4 * full /\ N = n /\ (6 * n) \div 8 = 3 * full
        /\ p = 1 => n = 4 * full + 3 /\ N = n + 1 /\ (6 * n) \div 8 = 3 * full + 2
        /\ p = 2 => n = 4 * full + 2 /\ N = n + 2 /\ (6 * n) \div 8 = 3 * full + 1
    <3>1. CASE p = 0
      BY <1>3, <2>1, <2>2, <3>1
    <3>2. CASE p = 1
      BY <1>3, <2>1, <2>2, <3>2
    <3>3. CASE p = 2
      BY <1>3, <2>1, <2>2, <3>3
    <3> QED
      BY <3>1, <3>2, <3>3
  <2> HIDE DEF full, N, B
  <2>6. body = [k \in 1..(3 * full) |-> B[k]]
    <3>1. AreChars(t, c, full)
      BY <1>0, <1>1, <2>5 DEF AreChars
    <3>2. ASSUME NEW k \in 1..(3 * full)
          PROVE  GroupBytes(Temp((k + 2) \div 3))[1 + ((k - 1) % 3)] = B[k]
      <4>1. BodyByte(t, k) = BytesOf(BitsOf(c, 6))[k]
        BY <3>1, BodyIs
      <4> QED
        BY <4>1 DEF BodyByte, B
    <3> QED
      BY <3>2
  <2> HIDE DEF Temp, body
  <2>7. CASE p = 0
    <3>1. rest = <<>> /\ 3 * full \in Nat
      BY <2>5, <2>7
    <3>2. B = [j \in 1..(3 * full) |-> B[j]]
      BY <1>4, <2>5, <2>7
    <3> HIDE DEF rest
    <3>3. body \o rest = body
      BY <2>6, <3>1
    <3> QED
      BY <2>4, <2>6, <3>2, <3>3 DEF B, c
  <2>8. CASE p \in 1..2
    <3> DEFINE r == 3 - p
    <3>1. rest = SubSeq(GroupBytes(tail), 1, 3 - p) /\ r \in Nat /\ (p = 1 \/ p = 2)
      BY <2>8
    <3>2. /\ n = 4 * full + 4 - p /\ (6 * n) \div 8 = 3 * full + r
          /\ N - 3 = 4 * full + 1 /\ N - 2 = 4 * full + 2 /\ N - 1 = 4 * full + 3
          /\ 4 * full + 1 \in 1..n /\ 4 * full + 2 \in 1..n /\ (p = 1 => 4 * full + 3 \in 1..n)
      <4>1. CASE p = 1
        BY <2>5, <4>1
      <4>2. CASE p = 2
        BY <2>5, <4>2
      <4> QED
        BY <2>8, <4>1, <4>2
    <3>3. tail = DecodeTail(c[4 * full + 1], c[4 * full + 2], t[N - 1], p)
      BY <1>1, <3>2
    <3>4. p = 1 => t[N - 1] = c[4 * full + 3]
      BY <1>1, <3>2
    <3>5. /\ Len(rest) = r /\ rest \in Seq(Int) /\ rest[1] = B[3 * full + 1]
          /\ p = 1 => rest[2] = B[3 * full + 2]
      <4> DEFINE y == t[N - 1]
      <4>1. EndsIn(c, y, full, p)
        BY <1>0, <1>1, <2>5, <2>8, <3>2, <3>4 DEF EndsIn
      <4>2. rest = RestBytes(c, y, full, p)
        <5> HIDE DEF tail
        <5> QED
          BY <3>1, <3>3 DEF RestBytes
      <4> HIDE DEF rest, tail, y
      <4>3. IsRest(rest, B, full, p)
        BY <4>1, <4>2, RestIs DEF B
      <4> QED
        BY <4>3 DEF IsRest
    <3> HIDE DEF rest
    <3>6. \A i \in 1..r : rest[i] = B[3 * full + i]
      <4>1. CASE p = 1
        BY <3>5, <4>1
      <4>2. CASE p = 2
        BY <3>5, <4>2
      <4> QED
        BY <2>8, <4>1, <4>2
    <3>7. 3 * full \in Nat /\ r \in Nat
      BY <2>5, <2>8
    <3>8. B = [j \in 1..(3 * full + r) |-> B[j]]
      BY <1>4, <3>2
    <3>9. body \o rest = B
      <4>1. rest = [i \in 1..r |-> rest[i]]
        BY <3>5
      <4>2. ArePartsOf(body, rest, B, 3 * full, r)
        BY <2>6, <3>6, <3>7, <3>8, <4>1 DEF ArePartsOf
      <4> HIDE DEF r
      <4> QED
        BY <4>2, TwoParts
    <3> QED
      BY <2>4, <3>9 DEF B, c
  <2> QED
    BY <2>7, <2>8
<1> QED
  BY <1>5, <1>6

-----------------------------------------------------------------------------
(***************************************************************************)
(* Loops.  The reader of Base32 and that of identifiers are recursive      *)
(* functions.  Such a function is a CHOOSE: a run of the loop, which exists*)
(* because its steps stay in a set of states, is the witness that the      *)
(* function satisfies its own equation.  What holds after every step       *)
(* follows from that: a set of numbers that has 0 and with each number the *)
(* next has all, or the least one it lacks would contradict it.            *)
(***************************************************************************)
(* A set that has 0, and with each number the next, has all.               *)
LEMMA Reaches ==
    ASSUME NEW T, 0 \in T, \A n \in Nat : n \in T => n + 1 \in T
    PROVE  \A n \in Nat : n \in T
<1> SUFFICES ASSUME Nat \ T # {} PROVE FALSE
  OBVIOUS
<1>1. PICK x \in Nat \ T : \A y \in Nat \ T : x <= y
  BY Smallest
<1>2. x # 0 /\ x - 1 \in Nat /\ ~(x <= x - 1)
  BY <1>1
<1>3. x - 1 \in T
  BY <1>1, <1>2
<1>4. (x - 1) + 1 \in T
  BY <1>2, <1>3
<1> QED
  BY <1>1, <1>4

(* A loop of n steps has a state after each of them.                       *)
IsRun(f, start, step, n) ==
    f = [i \in 0..n |-> IF i = 0 THEN start ELSE step[<<f[i - 1], i>>]]

(* If the steps stay in A, there is a run of any length, and it stays in A.*)
LEMMA LoopRuns ==
    ASSUME NEW A, NEW start \in A, NEW step \in [A \X Nat -> A], NEW n \in Nat
    PROVE  \E f : IsRun(f, start, step, n) /\ \A i \in 0..n : f[i] \in A
<1> DEFINE Runs(m, f) == f \in [0..m -> A] /\ f[0] = start /\ \A i \in 1..m : f[i] = step[<<f[i - 1], i>>]
           T == {m \in Nat : \E f : Runs(m, f)}
<1>1. 0 \in T
  <2>1. Runs(0, [i \in 0..0 |-> start])
    OBVIOUS
  <2> QED
    BY <2>1
<1>2. ASSUME NEW m \in Nat, m \in T
      PROVE  m + 1 \in T
  <2>1. PICK f : Runs(m, f)
    BY <1>2
  <2> DEFINE g == [i \in 0..(m + 1) |-> IF i <= m THEN f[i] ELSE step[<<f[m], m + 1>>]]
  <2>2. f[m] \in A /\ step[<<f[m], m + 1>>] \in A
    BY <2>1
  <2>3. g \in [0..(m + 1) -> A]
    BY <2>1, <2>2
  <2>4. g[0] = start
    BY <2>1
  <2>5. ASSUME NEW i \in 1..(m + 1) PROVE g[i] = step[<<g[i - 1], i>>]
    <3>1. CASE i <= m
      BY <2>1, <3>1
    <3>2. CASE i = m + 1
      <4>1. g[i] = step[<<f[m], m + 1>>] /\ g[i - 1] = f[m]
        BY <3>2
      <4> QED
        BY <3>2, <4>1
    <3> QED
      BY <3>1, <3>2
  <2>6. Runs(m + 1, g)
    BY <2>3, <2>4, <2>5
  <2> HIDE DEF Runs, g
  <2> QED
    BY <2>6
<1>3. n \in T
  <2> HIDE DEF T
  <2>1. \A m \in Nat : m \in T
    BY <1>1, <1>2, Reaches
  <2> QED
    BY <2>1
<1>4. PICK f : Runs(n, f)
  BY <1>3
<1>5. IsRun(f, start, step, n) /\ \A i \in 0..n : f[i] \in A
  BY <1>4 DEF IsRun
<1> QED
  BY <1>5

-----------------------------------------------------------------------------
(***************************************************************************)
(* Base32: the loop keeps the bits that wait for a byte in a buffer of     *)
(* thirteen, which are those of the last three characters.                 *)
(***************************************************************************)
(* The state of the Base32 loop.                                           *)
Base32State == [buffer : Nat, bits : 0..7, data : Seq(Nat)]

(* What a character stands for.                                            *)
Quintet == 0..31

(* What is shifted out of the buffer is a number.                          *)
LEMMA ShiftIs ==
    ASSUME NEW s \in 0..4, NEW x \in Nat
    PROVE  (x \div 2^s) % 256 \in Nat
<1>1. IsPower(2^s)
  BY s \in 0..7, PowerIsOneOf, Zenon
<1>2. \A d : IsPower(d) => x \div d \in Nat
  BY DEF IsPower
<1>3. \A y \in Nat : y % 256 \in Nat
  OBVIOUS
<1> QED
  BY <1>1, <1>2, <1>3

(* A step stays in the states.                                             *)
LEMMA Base32StepFits ==
    ASSUME NEW acc \in Base32State, NEW c, Base32Value(c) \in Quintet
    PROVE  Base32Step(acc, c) \in Base32State
<1> DEFINE buffer == (acc.buffer * 32 + Base32Value(c)) % 2^13
           bits == acc.bits + 5
<1>1. acc.buffer \in Nat /\ acc.bits \in 0..7 /\ acc.data \in Seq(Nat)
  BY DEF Base32State
<1>2. buffer \in Nat
  <2>1. 2^13 = 8192
    BY SMT
  <2>2. acc.buffer * 32 + Base32Value(c) \in Nat
    <3>1. Base32Value(c) \in Nat
      BY DEF Quintet
    <3>2. \A x, y \in Nat : x * 32 + y \in Nat
      OBVIOUS
    <3> QED
      BY <1>1, <3>1, <3>2
  <2> HIDE DEF buffer
  <2>3. \A x \in Nat : x % 8192 \in Nat
    BY SMT
  <2> QED
    BY <2>1, <2>2, <2>3, SMT DEF buffer
<1> HIDE DEF buffer
<1>3. CASE bits < 8
  <2>1. Base32Step(acc, c) = [buffer |-> buffer, bits |-> bits, data |-> acc.data]
    BY <1>3, Zenon DEF Base32Step, buffer
  <2>2. bits \in 0..7
    BY <1>1, <1>3
  <2> QED
    BY <1>1, <1>2, <2>1, <2>2 DEF Base32State
<1>4. CASE ~(bits < 8)
  <2> DEFINE byte == (buffer \div 2^(bits - 8)) % 256
  <2>1. Base32Step(acc, c) = [buffer |-> buffer, bits |-> bits - 8, data |-> Append(acc.data, byte)]
    BY <1>4, Zenon DEF Base32Step, buffer
  <2>2. bits - 8 \in 0..4 /\ bits - 8 \in 0..7
    BY <1>1, <1>4
  <2>3. byte \in Nat
    BY <1>2, <2>2, ShiftIs
  <2> HIDE DEF byte, bits
  <2>4. Append(acc.data, byte) \in Seq(Nat)
    BY <1>1, <2>3
  <2> QED
    BY <1>2, <2>1, <2>2, <2>4 DEF Base32State
<1> QED
  BY <1>3, <1>4

(* What the loop reads satisfies its equation.                             *)
Base32Start == [buffer |-> 0, bits |-> 0, data |-> <<>>]

(* The loop starts with nothing, stays in its states, and goes on by steps.*)
LEMMA Base32Reads ==
    ASSUME NEW t, NEW n \in Nat, \A i \in 1..n : Base32Value(t[i]) \in Quintet
    PROVE  /\ Base32Read(t, n)[0] = Base32Start
           /\ \A i \in 1..n : /\ Base32Read(t, n)[i - 1] \in Base32State
                              /\ Base32Read(t, n)[i] = Base32Step(Base32Read(t, n)[i - 1], t[i])
<1> DEFINE step == [p \in Base32State \X Nat |->
                      IF p[2] \in 1..n THEN Base32Step(p[1], t[p[2]]) ELSE p[1]]
           Eq(g) == g = [i \in 0..n |-> IF i = 0 THEN Base32Start ELSE Base32Step(g[i - 1], t[i])]
<1>1. step \in [Base32State \X Nat -> Base32State]
  <2>1. ASSUME NEW p \in Base32State \X Nat PROVE step[p] \in Base32State
    BY Base32StepFits
  <2> QED
    BY <2>1
<1>2. Base32Start \in Base32State
  BY DEF Base32Start, Base32State
<1>3. PICK f : IsRun(f, Base32Start, step, n) /\ \A i \in 0..n : f[i] \in Base32State
  <2> HIDE DEF step
  <2> QED
    BY <1>1, <1>2, LoopRuns
<1>4. Eq(f)
  <2>1. f = [i \in 0..n |-> IF i = 0 THEN Base32Start ELSE step[<<f[i - 1], i>>]]
    BY <1>3 DEF IsRun
  <2>2. ASSUME NEW i \in 1..n
        PROVE  step[<<f[i - 1], i>>] = Base32Step(f[i - 1], t[i])
    <3>1. i \in Nat /\ i - 1 \in 0..n
      OBVIOUS
    <3>2. <<f[i - 1], i>> \in Base32State \X Nat
      BY <1>3, <3>1
    <3> QED
      BY <3>2
  <2> HIDE DEF step
  <2>3. \A i \in 0..n : i = 0 \/ i \in 1..n
    OBVIOUS
  <2> QED
    BY <2>1, <2>2, <2>3
<1>5. Base32Read(t, n) = CHOOSE g : Eq(g)
  BY DEF Base32Read, Base32Start
<1> HIDE DEF step
<1>6. Eq(Base32Read(t, n))
  <2> HIDE DEF Eq
  <2> QED
    BY <1>4, <1>5
<1> DEFINE R == Base32Read(t, n)
<1> HIDE DEF R
<1>7. R = [i \in 0..n |-> IF i = 0 THEN Base32Start ELSE Base32Step(R[i - 1], t[i])]
  BY <1>6 DEF R
<1>8. R[0] = Base32Start /\ \A i \in 1..n : R[i] = Base32Step(R[i - 1], t[i])
  BY <1>7
<1>9. \A m \in Nat : m <= n => R[m] \in Base32State
  <2> DEFINE T == {m \in Nat : m <= n => R[m] \in Base32State}
  <2>1. 0 \in T
    BY <1>2, <1>8
  <2>2. ASSUME NEW m \in Nat, m \in T PROVE m + 1 \in T
    <3> SUFFICES ASSUME m + 1 <= n PROVE R[m + 1] \in Base32State
      OBVIOUS
    <3>1. m + 1 \in 1..n /\ (m + 1) - 1 = m /\ m <= n
      OBVIOUS
    <3>2. R[m] \in Base32State /\ R[m + 1] = Base32Step(R[m], t[m + 1])
      BY <1>8, <2>2, <3>1
    <3> QED
      BY <3>1, <3>2, Base32StepFits
  <2> HIDE DEF T
  <2>3. \A m \in Nat : m \in T
    BY <2>1, <2>2, Reaches
  <2> QED
    BY <2>3 DEF T
<1>10. \A i \in 1..n : i - 1 \in Nat /\ i - 1 <= n
  OBVIOUS
<1> QED
  BY <1>8, <1>9, <1>10 DEF R

(* The bits of two or three values of five bits, as a byte.                *)
ByteFrom(s, a, b, c) ==
    CASE s = 0 -> (b % 8) * 32 + c
      [] s = 1 -> (b % 16) * 16 + c \div 2
      [] s = 2 -> b * 8 + c \div 4
      [] s = 3 -> (a % 2) * 128 + b * 4 + c \div 8
      [] s = 4 -> (a % 4) * 64 + b * 2 + c \div 16

(* The remainders of a value of five bits.                                 *)
LEMMA QuintetSplits ==
    ASSUME NEW v \in Quintet
    PROVE  /\ v \div 32 = 0 /\ v \in Int
           /\ v \div 2 \in Int /\ v \div 4 \in Int /\ v \div 8 \in Int /\ v \div 16 \in Int
           /\ v % 2 = v - 2 * (v \div 2) /\ v % 4 = v - 4 * (v \div 4)
           /\ v % 8 = v - 8 * (v \div 8) /\ v % 16 = v - 16 * (v \div 16)
<1>1. v \in 0..31 /\ v \in Nat
  BY DEF Quintet
<1>2. \A n \in Nat : n % 2 = n - 2 * (n \div 2) /\ n % 4 = n - 4 * (n \div 4)
  OBVIOUS
<1>3. \A n \in Nat : n % 8 = n - 8 * (n \div 8) /\ n % 16 = n - 16 * (n \div 16)
  OBVIOUS
<1>4. v \div 32 = 0 /\ v \in Int
  BY <1>1
<1>5. v \div 2 \in Int /\ v \div 4 \in Int /\ v \div 8 \in Int /\ v \div 16 \in Int
  BY <1>1
<1> QED
  BY <1>1, <1>2, <1>3, <1>4, <1>5

(* Five ways a byte spans two or three values of five bits.                *)
LEMMA QuintetsAddUp ==
    ASSUME NEW a \in Quintet, NEW b \in Quintet, NEW c \in Quintet
    PROVE  /\ Eight((b \div 4) % 2, (b \div 2) % 2, (b \div 1) % 2, (c \div 16) % 2,
                    (c \div 8) % 2, (c \div 4) % 2, (c \div 2) % 2, (c \div 1) % 2) = ByteFrom(0, a, b, c)
           /\ Eight((b \div 8) % 2, (b \div 4) % 2, (b \div 2) % 2, (b \div 1) % 2,
                    (c \div 16) % 2, (c \div 8) % 2, (c \div 4) % 2, (c \div 2) % 2) = ByteFrom(1, a, b, c)
           /\ Eight((b \div 16) % 2, (b \div 8) % 2, (b \div 4) % 2, (b \div 2) % 2,
                    (b \div 1) % 2, (c \div 16) % 2, (c \div 8) % 2, (c \div 4) % 2) = ByteFrom(2, a, b, c)
           /\ Eight((a \div 1) % 2, (b \div 16) % 2, (b \div 8) % 2, (b \div 4) % 2,
                    (b \div 2) % 2, (b \div 1) % 2, (c \div 16) % 2, (c \div 8) % 2) = ByteFrom(3, a, b, c)
           /\ Eight((a \div 2) % 2, (a \div 1) % 2, (b \div 16) % 2, (b \div 8) % 2,
                    (b \div 4) % 2, (b \div 2) % 2, (b \div 1) % 2, (c \div 16) % 2) = ByteFrom(4, a, b, c)
<1> DEFINE Bit(v, d) == (v \div d) % 2
<1>1. ASSUME NEW v \in Quintet
      PROVE  /\ Bit(v, 16) = v \div 16
             /\ Bit(v, 8) = (v \div 8) - 2 * (v \div 16)
             /\ Bit(v, 4) = (v \div 4) - 2 * (v \div 8)
             /\ Bit(v, 2) = (v \div 2) - 2 * (v \div 4)
             /\ Bit(v, 1) = v - 2 * (v \div 2)
  <2>1. v \in Nat
    BY DEF Quintet
  <2> QED
    BY <2>1, Halves, QuintetSplits
<1> HIDE DEF Bit
<1>2. Eight(Bit(b, 4), Bit(b, 2), Bit(b, 1), Bit(c, 16), Bit(c, 8), Bit(c, 4), Bit(c, 2), Bit(c, 1)) = ByteFrom(0, a, b, c)
  <2>1. ByteFrom(0, a, b, c) = (b % 8) * 32 + c
    BY DEF ByteFrom
  <2> QED
    BY <1>1, <2>1, QuintetSplits DEF Eight
<1>3. Eight(Bit(b, 8), Bit(b, 4), Bit(b, 2), Bit(b, 1), Bit(c, 16), Bit(c, 8), Bit(c, 4), Bit(c, 2)) = ByteFrom(1, a, b, c)
  <2>1. ByteFrom(1, a, b, c) = (b % 16) * 16 + c \div 2
    BY DEF ByteFrom
  <2> QED
    BY <1>1, <2>1, QuintetSplits DEF Eight
<1>4. Eight(Bit(b, 16), Bit(b, 8), Bit(b, 4), Bit(b, 2), Bit(b, 1), Bit(c, 16), Bit(c, 8), Bit(c, 4)) = ByteFrom(2, a, b, c)
  <2>1. ByteFrom(2, a, b, c) = b * 8 + c \div 4
    BY DEF ByteFrom
  <2> QED
    BY <1>1, <2>1, QuintetSplits DEF Eight
<1>5. Eight(Bit(a, 1), Bit(b, 16), Bit(b, 8), Bit(b, 4), Bit(b, 2), Bit(b, 1), Bit(c, 16), Bit(c, 8)) = ByteFrom(3, a, b, c)
  <2>1. ByteFrom(3, a, b, c) = (a % 2) * 128 + b * 4 + c \div 8
    BY DEF ByteFrom
  <2> QED
    BY <1>1, <2>1, QuintetSplits DEF Eight
<1>6. Eight(Bit(a, 2), Bit(a, 1), Bit(b, 16), Bit(b, 8), Bit(b, 4), Bit(b, 2), Bit(b, 1), Bit(c, 16)) = ByteFrom(4, a, b, c)
  <2>1. ByteFrom(4, a, b, c) = (a % 4) * 64 + b * 2 + c \div 16
    BY DEF ByteFrom
  <2> QED
    BY <1>1, <2>1, QuintetSplits DEF Eight
<1> QED
  BY <1>2, <1>3, <1>4, <1>5, <1>6 DEF Bit

(* The window of bits the loop keeps: those of the last three values.      *)
Window(a, b, c) == (1024 * a + 32 * b + c) % 8192

(* Of the oldest value three bits are left.                                *)
LEMMA WindowIs ==
    ASSUME NEW a \in Quintet, NEW b \in Quintet, NEW c \in Quintet
    PROVE  Window(a, b, c) = 1024 * (a % 8) + 32 * b + c
<1> DEFINE h == a \div 8
           l == a % 8
<1>1. a \in Nat /\ b \in Nat /\ c \in Nat /\ b <= 31 /\ c <= 31
  BY DEF Quintet
<1>2. a = 8 * h + l /\ h \in Nat /\ l \in Nat /\ l <= 7
  <2>1. \A n \in Nat : n = 8 * (n \div 8) + (n % 8) /\ n \div 8 \in Nat /\ n % 8 \in 0..7
    OBVIOUS
  <2> QED
    BY <1>1, <2>1
<1> HIDE DEF h, l
<1> DEFINE r == 1024 * l + 32 * b + c
           x == 1024 * a + 32 * b + c
<1>3. r \in Nat /\ r <= 8191
  BY <1>1, <1>2, SMT
<1>4. x = 8192 * h + r
  <2>1. \A y \in Nat : \A z \in Nat : 1024 * (8 * y + z) = 8192 * y + 1024 * z
    OBVIOUS
  <2>2. 1024 * a = 8192 * h + 1024 * l
    BY <1>2, <2>1
  <2> QED
    BY <1>1, <1>2, <2>2, SMT
<1> HIDE DEF r, x
<1>5. x % 8192 = r
  BY <1>2, <1>3, <1>4, SMT
<1> QED
  BY <1>5, SMT DEF Window, l, r, x

(* The next value pushes the oldest out.                                   *)
LEMMA WindowStep ==
    ASSUME NEW a \in Quintet, NEW b \in Quintet, NEW c \in Quintet, NEW d \in Quintet
    PROVE  (Window(a, b, c) * 32 + d) % 2^13 = Window(b, c, d)
<1> DEFINE l == a % 8
           y == 1024 * b + 32 * c + d
<1>1. a \in Nat /\ b \in 0..31 /\ c \in 0..31 /\ d \in 0..31
  BY DEF Quintet
<1>2. l \in Nat
  BY <1>1
<1>3. y \in Nat
  BY <1>1, SMT
<1>4. Window(a, b, c) = 1024 * l + 32 * b + c
  BY WindowIs, SMT
<1> HIDE DEF l
<1>5. Window(a, b, c) * 32 + d = 8192 * (4 * l) + y
  BY <1>1, <1>2, <1>4, SMT
<1>6. \A p, q \in Nat : (8192 * (4 * p) + q) % 8192 = q % 8192
  BY SMT
<1>7. 2^13 = 8192
  BY SMT
<1> HIDE DEF y
<1>8. (Window(a, b, c) * 32 + d) % 2^13 = y % 8192
  BY <1>2, <1>3, <1>5, <1>6, <1>7, SMT
<1> QED
  BY <1>8, SMT DEF Window, y

(* Eight bits cut out of a number.                                         *)
Cuts(w, d, k, y, r) == k \in Nat /\ y \in 0..255 /\ r \in 0..(d - 1) /\ w = 256 * d * k + (d * y + r)

(* A shift and a remainder cut them out.                                   *)
LEMMA CutOut ==
    ASSUME NEW w, NEW k, NEW y, NEW r, NEW d \in {1, 2, 4, 8, 16}, Cuts(w, d, k, y, r)
    PROVE  (w \div d) % 256 = y
<1>1. CASE d = 1
  <2>1. k \in Nat /\ y \in 0..255 /\ y \in Nat /\ r \in 0..0 /\ w = 256 * k + (1 * y + r)
    BY <1>1, SMT DEF Cuts
  <2>2. 256 * k + y \in Nat /\ w = 1 * (256 * k + y) + r
    BY <2>1, SMT
  <2>3. w \div 1 = 256 * k + y
    <3> DEFINE q == 256 * k + y
    <3> HIDE DEF q
    <3>1. q \in Nat /\ w = 1 * q + r
      BY <2>2, SMT DEF q
    <3>2. w \div 1 = q
      BY <2>1, <3>1, SMT
    <3> QED
      BY <3>2, SMT DEF q
  <2>4. (256 * k + y) % 256 = y
    BY <2>1, SMT
  <2> QED
    BY <1>1, <2>3, <2>4, SMT
<1>2. CASE d = 2
  <2>1. k \in Nat /\ y \in 0..255 /\ y \in Nat /\ r \in 0..1 /\ w = 512 * k + (2 * y + r)
    BY <1>2, SMT DEF Cuts
  <2>2. 256 * k + y \in Nat /\ w = 2 * (256 * k + y) + r
    BY <2>1, SMT
  <2>3. w \div 2 = 256 * k + y
    <3> DEFINE q == 256 * k + y
    <3> HIDE DEF q
    <3>1. q \in Nat /\ w = 2 * q + r
      BY <2>2, SMT DEF q
    <3>2. w \div 2 = q
      BY <2>1, <3>1, SMT
    <3> QED
      BY <3>2, SMT DEF q
  <2>4. (256 * k + y) % 256 = y
    BY <2>1, SMT
  <2> QED
    BY <1>2, <2>3, <2>4, SMT
<1>3. CASE d = 4
  <2>1. k \in Nat /\ y \in 0..255 /\ y \in Nat /\ r \in 0..3 /\ w = 1024 * k + (4 * y + r)
    BY <1>3, SMT DEF Cuts
  <2>2. 256 * k + y \in Nat /\ w = 4 * (256 * k + y) + r
    BY <2>1, SMT
  <2>3. w \div 4 = 256 * k + y
    <3> DEFINE q == 256 * k + y
    <3> HIDE DEF q
    <3>1. q \in Nat /\ w = 4 * q + r
      BY <2>2, SMT DEF q
    <3>2. w \div 4 = q
      BY <2>1, <3>1, SMT
    <3> QED
      BY <3>2, SMT DEF q
  <2>4. (256 * k + y) % 256 = y
    BY <2>1, SMT
  <2> QED
    BY <1>3, <2>3, <2>4, SMT
<1>4. CASE d = 8
  <2>1. k \in Nat /\ y \in 0..255 /\ y \in Nat /\ r \in 0..7 /\ w = 2048 * k + (8 * y + r)
    BY <1>4, SMT DEF Cuts
  <2>2. 256 * k + y \in Nat /\ w = 8 * (256 * k + y) + r
    BY <2>1, SMT
  <2>3. w \div 8 = 256 * k + y
    <3> DEFINE q == 256 * k + y
    <3> HIDE DEF q
    <3>1. q \in Nat /\ w = 8 * q + r
      BY <2>2, SMT DEF q
    <3>2. w \div 8 = q
      BY <2>1, <3>1, SMT
    <3> QED
      BY <3>2, SMT DEF q
  <2>4. (256 * k + y) % 256 = y
    BY <2>1, SMT
  <2> QED
    BY <1>4, <2>3, <2>4, SMT
<1>5. CASE d = 16
  <2>1. k \in Nat /\ y \in 0..255 /\ y \in Nat /\ r \in 0..15 /\ w = 4096 * k + (16 * y + r)
    BY <1>5, SMT DEF Cuts
  <2>2. 256 * k + y \in Nat /\ w = 16 * (256 * k + y) + r
    BY <2>1, SMT
  <2>3. w \div 16 = 256 * k + y
    <3> DEFINE q == 256 * k + y
    <3> HIDE DEF q
    <3>1. q \in Nat /\ w = 16 * q + r
      BY <2>2, SMT DEF q
    <3>2. w \div 16 = q
      BY <2>1, <3>1, SMT
    <3> QED
      BY <3>2, SMT DEF q
  <2>4. (256 * k + y) % 256 = y
    BY <2>1, SMT
  <2> QED
    BY <1>5, <2>3, <2>4, SMT
<1> QED
  BY <1>1, <1>2, <1>3, <1>4, <1>5

(* What the loop takes out of the buffer as a byte.                        *)
LowByte(w, s) == (w \div 2^s) % 256

(* It is the byte the last values' bits stand for.                         *)
LEMMA WindowByte ==
    ASSUME NEW a \in Quintet, NEW b \in Quintet, NEW c \in Quintet, NEW s \in 0..4
    PROVE  LowByte(Window(a, b, c), s) = ByteFrom(s, a, b, c)
<1> DEFINE w == 1024 * (a % 8) + 32 * b + c
<1>1. Window(a, b, c) = w
  BY WindowIs, SMT
<1>2. a \in Nat /\ b \in Nat /\ c \in Nat /\ a \in 0..31 /\ b \in 0..31 /\ c \in 0..31
  BY DEF Quintet
<1>3. CASE s = 0
  <2> DEFINE p == a % 8
             e == b \div 8
             f == b % 8
             y == f * 32 + c
  <2>1. /\ p \in 0..7 /\ e \in 0..3 /\ f \in 0..7
        /\ b = 8 * e + f
    <3>1. p \in 0..7
      BY <1>2
    <3>2. e \in 0..3
      BY <1>2
    <3>3. f \in 0..7
      BY <1>2
    <3>4. b = 8 * e + f
      BY <1>2
    <3> QED
      BY <3>1, <3>2, <3>3, <3>4
  <2>2. ByteFrom(0, a, b, c) = y
    BY DEF ByteFrom
  <2>3. w = 1024 * p + 32 * b + c
    OBVIOUS
  <2> HIDE DEF w, p, e, f
  <2>4. y \in 0..255
    BY <1>2, <2>1
  <2>5. w = 256 * (4 * p + e) + (1 * y)
    BY <1>2, <2>1, <2>3, SMT
  <2>6. 4 * p + e \in Nat
    BY <2>1
  <2>7. Cuts(w, 1, 4 * p + e, y, 0)
    BY <2>1, <2>4, <2>5, <2>6, SMT DEF Cuts
  <2> HIDE DEF y
  <2>8. (w \div 1) % 256 = y
    BY <2>7, CutOut
  <2> QED
    BY <1>1, <1>3, <2>2, <2>8, PowersOfTwo DEF LowByte
<1>4. CASE s = 1
  <2> DEFINE p == a % 8
             e == b \div 16
             f == b % 16
             g == c \div 2
             r == c % 2
             y == f * 16 + g
  <2>1. /\ p \in 0..7 /\ e \in 0..1 /\ f \in 0..15 /\ g \in 0..15 /\ r \in 0..1
        /\ b = 16 * e + f /\ c = 2 * g + r
    <3>1. p \in 0..7
      BY <1>2
    <3>2. e \in 0..1
      BY <1>2
    <3>3. f \in 0..15
      BY <1>2
    <3>4. g \in 0..15
      BY <1>2
    <3>5. r \in 0..1
      BY <1>2
    <3>6. b = 16 * e + f
      BY <1>2
    <3>7. c = 2 * g + r
      BY <1>2
    <3> QED
      BY <3>1, <3>2, <3>3, <3>4, <3>5, <3>6, <3>7
  <2>2. ByteFrom(1, a, b, c) = y
    BY DEF ByteFrom
  <2>3. w = 1024 * p + 32 * b + c
    OBVIOUS
  <2> HIDE DEF w, p, e, f, g, r
  <2>4. y \in 0..255
    BY <1>2, <2>1
  <2>5. w = 512 * (2 * p + e) + (2 * y + r)
    BY <1>2, <2>1, <2>3, SMT
  <2>6. 2 * p + e \in Nat
    BY <2>1
  <2>7. Cuts(w, 2, 2 * p + e, y, r)
    BY <2>1, <2>4, <2>5, <2>6, SMT DEF Cuts
  <2> HIDE DEF y
  <2>8. (w \div 2) % 256 = y
    BY <2>7, CutOut
  <2> QED
    BY <1>1, <1>4, <2>2, <2>8, PowersOfTwo DEF LowByte
<1>5. CASE s = 2
  <2> DEFINE p == a % 8
             g == c \div 4
             r == c % 4
             y == b * 8 + g
  <2>1. /\ p \in 0..7 /\ g \in 0..7 /\ r \in 0..3
        /\ c = 4 * g + r
    <3>1. p \in 0..7
      BY <1>2
    <3>2. g \in 0..7
      BY <1>2
    <3>3. r \in 0..3
      BY <1>2
    <3>4. c = 4 * g + r
      BY <1>2
    <3> QED
      BY <3>1, <3>2, <3>3, <3>4
  <2>2. ByteFrom(2, a, b, c) = y
    BY DEF ByteFrom
  <2>3. w = 1024 * p + 32 * b + c
    OBVIOUS
  <2> HIDE DEF w, p, g, r
  <2>4. y \in 0..255
    BY <1>2, <2>1
  <2>5. w = 1024 * (p) + (4 * y + r)
    BY <1>2, <2>1, <2>3, SMT
  <2>6. p \in Nat
    BY <2>1
  <2>7. Cuts(w, 4, p, y, r)
    BY <2>1, <2>4, <2>5, <2>6, SMT DEF Cuts
  <2> HIDE DEF y
  <2>8. (w \div 4) % 256 = y
    BY <2>7, CutOut
  <2> QED
    BY <1>1, <1>5, <2>2, <2>8, PowersOfTwo DEF LowByte
<1>6. CASE s = 3
  <2> DEFINE p == a % 8
             e == (a % 8) \div 2
             f == a % 2
             g == c \div 8
             r == c % 8
             y == f * 128 + b * 4 + g
  <2>1. /\ p \in 0..7 /\ e \in 0..3 /\ f \in 0..1 /\ g \in 0..3 /\ r \in 0..7
        /\ p = 2 * e + f /\ c = 8 * g + r
    <3>1. p \in 0..7
      BY <1>2
    <3>2. e \in 0..3
      BY <1>2
    <3>3. f \in 0..1
      BY <1>2
    <3>4. g \in 0..3
      BY <1>2
    <3>5. r \in 0..7
      BY <1>2
    <3>6. p = 2 * e + f
      BY <1>2
    <3>7. c = 8 * g + r
      BY <1>2
    <3> QED
      BY <3>1, <3>2, <3>3, <3>4, <3>5, <3>6, <3>7
  <2>2. ByteFrom(3, a, b, c) = y
    BY DEF ByteFrom
  <2>3. w = 1024 * p + 32 * b + c
    OBVIOUS
  <2> HIDE DEF w, p, e, f, g, r
  <2>4. y \in 0..255
    BY <1>2, <2>1
  <2>5. w = 2048 * (e) + (8 * y + r)
    BY <1>2, <2>1, <2>3, SMT
  <2>6. e \in Nat
    BY <2>1
  <2>7. Cuts(w, 8, e, y, r)
    BY <2>1, <2>4, <2>5, <2>6, SMT DEF Cuts
  <2> HIDE DEF y
  <2>8. (w \div 8) % 256 = y
    BY <2>7, CutOut
  <2> QED
    BY <1>1, <1>6, <2>2, <2>8, PowersOfTwo DEF LowByte
<1>7. CASE s = 4
  <2> DEFINE p == a % 8
             e == (a % 8) \div 4
             f == a % 4
             g == c \div 16
             r == c % 16
             y == f * 64 + b * 2 + g
  <2>1. /\ p \in 0..7 /\ e \in 0..1 /\ f \in 0..3 /\ g \in 0..1 /\ r \in 0..15
        /\ p = 4 * e + f /\ c = 16 * g + r
    <3>1. p \in 0..7
      BY <1>2
    <3>2. e \in 0..1
      BY <1>2
    <3>3. f \in 0..3
      BY <1>2
    <3>4. g \in 0..1
      BY <1>2
    <3>5. r \in 0..15
      BY <1>2
    <3>6. p = 4 * e + f
      BY <1>2
    <3>7. c = 16 * g + r
      BY <1>2
    <3> QED
      BY <3>1, <3>2, <3>3, <3>4, <3>5, <3>6, <3>7
  <2>2. ByteFrom(4, a, b, c) = y
    BY DEF ByteFrom
  <2>3. w = 1024 * p + 32 * b + c
    OBVIOUS
  <2> HIDE DEF w, p, e, f, g, r
  <2>4. y \in 0..255
    BY <1>2, <2>1
  <2>5. w = 4096 * (e) + (16 * y + r)
    BY <1>2, <2>1, <2>3, SMT
  <2>6. e \in Nat
    BY <2>1
  <2>7. Cuts(w, 16, e, y, r)
    BY <2>1, <2>4, <2>5, <2>6, SMT DEF Cuts
  <2> HIDE DEF y
  <2>8. (w \div 16) % 256 = y
    BY <2>7, CutOut
  <2> QED
    BY <1>1, <1>7, <2>2, <2>8, PowersOfTwo DEF LowByte
<1> QED
  BY <1>3, <1>4, <1>5, <1>6, <1>7

(* A value of a sequence, and zero before it.                              *)
ValueAt(vs, i) == IF i >= 1 THEN vs[i] ELSE 0

(* A sequence of values of five bits.                                      *)
Quintets(vs) == Len(vs) \in Nat /\ \A i \in 1..Len(vs) : vs[i] \in Quintet

(* Value i completes byte j, and s of its bits are left.                   *)
EndsByte(vs, i, s, j) ==
    Quintets(vs) /\ i \in 1..Len(vs) /\ s \in 0..4 /\ j \in Nat \ {0} /\ 8 * j = 5 * i - s

(* Every value is one of five bits.                                        *)
LEMMA ValuesAre ==
    ASSUME NEW vs, Quintets(vs), NEW i \in Int, i <= Len(vs)
    PROVE  ValueAt(vs, i) \in Quintet
<1>1. CASE i >= 1
  <2>1. i \in 1..Len(vs)
    BY <1>1 DEF Quintets
  <2> QED
    BY <1>1, <2>1 DEF ValueAt, Quintets
<1>2. CASE ~(i >= 1)
  BY <1>2 DEF ValueAt, Quintet
<1> QED
  BY <1>1, <1>2

(* Where byte j and the values it spans start, in bits.                    *)
LEMMA EndsBytePlaces ==
    ASSUME NEW n \in Nat, NEW i \in 1..n, NEW s \in 0..4, NEW j \in Nat \ {0}, 8 * j = 5 * i - s
    PROVE  /\ j \in 1..((5 * n) \div 8)
           /\ i - 1 >= 1 /\ i - 1 \in 1..n /\ (s > 2 => i - 2 >= 1 /\ i - 2 \in 1..n)
           /\ 5 * (i - 1) = 8 * (j - 1) + s + 3
           /\ 5 * ((i - 1) - 1) = 8 * (j - 1) + s - 2
           /\ 5 * ((i - 2) - 1) = 8 * (j - 1) + s - 7
<1>1. j \in 1..((5 * n) \div 8)
  OBVIOUS
<1>2. i - 1 >= 1 /\ i - 1 \in 1..n /\ (s > 2 => i - 2 >= 1 /\ i - 2 \in 1..n)
  OBVIOUS
<1>3. /\ 5 * (i - 1) = 8 * (j - 1) + s + 3
      /\ 5 * ((i - 1) - 1) = 8 * (j - 1) + s - 2
      /\ 5 * ((i - 2) - 1) = 8 * (j - 1) + s - 7
  OBVIOUS
<1> QED
  BY <1>1, <1>2, <1>3

(* Byte j of the bits, by the values it spans.                             *)
LEMMA ByteOfQuintets ==
    ASSUME NEW vs, NEW i, NEW s, NEW j, EndsByte(vs, i, s, j)
    PROVE  BytesOf(BitsOf(vs, 5))[j]
             = ByteFrom(s, ValueAt(vs, i - 2), ValueAt(vs, i - 1), ValueAt(vs, i))
<1> DEFINE n == Len(vs)
           bits == BitsOf(vs, 5)
           a == ValueAt(vs, i - 2)
           b == ValueAt(vs, i - 1)
           c == ValueAt(vs, i)
           h == 8 * (j - 1)
<1>0. n \in Nat /\ i \in 1..n /\ s \in 0..4 /\ j \in Nat \ {0} /\ 8 * j = 5 * i - s /\ Quintets(vs)
  BY DEF EndsByte, Quintets
<1>1. /\ j \in 1..((5 * n) \div 8)
      /\ i - 1 >= 1 /\ i - 1 \in 1..n /\ (s > 2 => i - 2 >= 1 /\ i - 2 \in 1..n)
      /\ 5 * (i - 1) = h + s + 3 /\ 5 * ((i - 1) - 1) = h + s - 2
      /\ 5 * ((i - 2) - 1) = h + s - 7
  BY <1>0, EndsBytePlaces
<1>2. a \in Quintet /\ b \in Quintet /\ c \in Quintet
  <2>1. i - 2 \in Int /\ i - 1 \in Int /\ i \in Int /\ i - 2 <= n /\ i - 1 <= n /\ i <= n
    BY <1>0
  <2> QED
    BY <1>0, <2>1, ValuesAre
<1>3. c = vs[i] /\ b = vs[i - 1] /\ (s > 2 => a = vs[i - 2])
  <2>1. i >= 1
    BY <1>0
  <2> QED
    BY <1>1, <2>1 DEF ValueAt
<1>4. ASSUME NEW q \in 1..n, NEW k, k = 5 * (q - 1)
      PROVE  /\ bits[k + 1] = (vs[q] \div 16) % 2 /\ bits[k + 2] = (vs[q] \div 8) % 2
             /\ bits[k + 3] = (vs[q] \div 4) % 2 /\ bits[k + 4] = (vs[q] \div 2) % 2
             /\ bits[k + 5] = (vs[q] \div 1) % 2
  BY <1>0, <1>4, FiveBits
<1>5. BytesOf(bits)[j] = ByteAt(bits, h)
  <2>1. Len(bits) = 5 * n
    BY <1>0, BitsAre
  <2> HIDE DEF bits, n, h
  <2>2. j \in 1..(Len(bits) \div 8)
    BY <1>1, <2>1
  <2> QED
    BY <2>2, ByteOfBits DEF h
<1>6. h \in Int
  BY <1>0
<1> HIDE DEF a, b, c, h, n, bits
<1>7. CASE s = 0
  <2>1. 5 * ((i - 1) - 1) = h + (0 - 2) /\ 5 * (i - 1) = h + 3
    BY <1>1, <1>6, <1>7
  <2>2. b = vs[i - 1] /\ i - 1 \in 1..n /\ c = vs[i] /\ i \in 1..n
    BY <1>0, <1>1, <1>3, <1>7
  <2>3. /\ bits[(h + (0 - 2)) + 3] = (b \div 4) % 2 /\ bits[(h + (0 - 2)) + 4] = (b \div 2) % 2
        /\ bits[(h + (0 - 2)) + 5] = (b \div 1) % 2 /\ bits[(h + (3)) + 1] = (c \div 16) % 2
        /\ bits[(h + (3)) + 2] = (c \div 8) % 2 /\ bits[(h + (3)) + 3] = (c \div 4) % 2
        /\ bits[(h + (3)) + 4] = (c \div 2) % 2 /\ bits[(h + (3)) + 5] = (c \div 1) % 2
    BY <1>4, <2>1, <2>2
  <2>4. /\ (h + (0 - 2)) + 3 = h + 1 /\ (h + (0 - 2)) + 4 = h + 2
        /\ (h + (0 - 2)) + 5 = h + 3 /\ (h + (3)) + 1 = h + 4
        /\ (h + (3)) + 2 = h + 5 /\ (h + (3)) + 3 = h + 6
        /\ (h + (3)) + 4 = h + 7 /\ (h + (3)) + 5 = h + 8
    BY <1>6
  <2>5. /\ bits[h + 1] = (b \div 4) % 2 /\ bits[h + 2] = (b \div 2) % 2
        /\ bits[h + 3] = (b \div 1) % 2 /\ bits[h + 4] = (c \div 16) % 2
        /\ bits[h + 5] = (c \div 8) % 2 /\ bits[h + 6] = (c \div 4) % 2
        /\ bits[h + 7] = (c \div 2) % 2 /\ bits[h + 8] = (c \div 1) % 2
    BY <2>3, <2>4, Zenon
  <2>6. ByteAt(bits, h) = Eight((b \div 4) % 2, (b \div 2) % 2, (b \div 1) % 2, (c \div 16) % 2,
                                 (c \div 8) % 2, (c \div 4) % 2, (c \div 2) % 2, (c \div 1) % 2)
    BY <2>5, Zenon DEF ByteAt
  <2>7. Eight((b \div 4) % 2, (b \div 2) % 2, (b \div 1) % 2, (c \div 16) % 2,
                                 (c \div 8) % 2, (c \div 4) % 2, (c \div 2) % 2, (c \div 1) % 2) = ByteFrom(0, a, b, c)
    BY <1>2, QuintetsAddUp
  <2> QED
    BY <1>5, <1>7, <2>6, <2>7, Zenon DEF bits, a, b, c
<1>8. CASE s = 1
  <2>1. 5 * ((i - 1) - 1) = h + (0 - 1) /\ 5 * (i - 1) = h + 4
    BY <1>1, <1>6, <1>8
  <2>2. b = vs[i - 1] /\ i - 1 \in 1..n /\ c = vs[i] /\ i \in 1..n
    BY <1>0, <1>1, <1>3, <1>8
  <2>3. /\ bits[(h + (0 - 1)) + 2] = (b \div 8) % 2 /\ bits[(h + (0 - 1)) + 3] = (b \div 4) % 2
        /\ bits[(h + (0 - 1)) + 4] = (b \div 2) % 2 /\ bits[(h + (0 - 1)) + 5] = (b \div 1) % 2
        /\ bits[(h + (4)) + 1] = (c \div 16) % 2 /\ bits[(h + (4)) + 2] = (c \div 8) % 2
        /\ bits[(h + (4)) + 3] = (c \div 4) % 2 /\ bits[(h + (4)) + 4] = (c \div 2) % 2
    BY <1>4, <2>1, <2>2
  <2>4. /\ (h + (0 - 1)) + 2 = h + 1 /\ (h + (0 - 1)) + 3 = h + 2
        /\ (h + (0 - 1)) + 4 = h + 3 /\ (h + (0 - 1)) + 5 = h + 4
        /\ (h + (4)) + 1 = h + 5 /\ (h + (4)) + 2 = h + 6
        /\ (h + (4)) + 3 = h + 7 /\ (h + (4)) + 4 = h + 8
    BY <1>6
  <2>5. /\ bits[h + 1] = (b \div 8) % 2 /\ bits[h + 2] = (b \div 4) % 2
        /\ bits[h + 3] = (b \div 2) % 2 /\ bits[h + 4] = (b \div 1) % 2
        /\ bits[h + 5] = (c \div 16) % 2 /\ bits[h + 6] = (c \div 8) % 2
        /\ bits[h + 7] = (c \div 4) % 2 /\ bits[h + 8] = (c \div 2) % 2
    BY <2>3, <2>4, Zenon
  <2>6. ByteAt(bits, h) = Eight((b \div 8) % 2, (b \div 4) % 2, (b \div 2) % 2, (b \div 1) % 2,
                                 (c \div 16) % 2, (c \div 8) % 2, (c \div 4) % 2, (c \div 2) % 2)
    BY <2>5, Zenon DEF ByteAt
  <2>7. Eight((b \div 8) % 2, (b \div 4) % 2, (b \div 2) % 2, (b \div 1) % 2,
                                 (c \div 16) % 2, (c \div 8) % 2, (c \div 4) % 2, (c \div 2) % 2) = ByteFrom(1, a, b, c)
    BY <1>2, QuintetsAddUp
  <2> QED
    BY <1>5, <1>8, <2>6, <2>7, Zenon DEF bits, a, b, c
<1>9. CASE s = 2
  <2>1. 5 * ((i - 1) - 1) = h + (0) /\ 5 * (i - 1) = h + 5
    BY <1>1, <1>6, <1>9
  <2>2. b = vs[i - 1] /\ i - 1 \in 1..n /\ c = vs[i] /\ i \in 1..n
    BY <1>0, <1>1, <1>3, <1>9
  <2>3. /\ bits[(h + (0)) + 1] = (b \div 16) % 2 /\ bits[(h + (0)) + 2] = (b \div 8) % 2
        /\ bits[(h + (0)) + 3] = (b \div 4) % 2 /\ bits[(h + (0)) + 4] = (b \div 2) % 2
        /\ bits[(h + (0)) + 5] = (b \div 1) % 2 /\ bits[(h + (5)) + 1] = (c \div 16) % 2
        /\ bits[(h + (5)) + 2] = (c \div 8) % 2 /\ bits[(h + (5)) + 3] = (c \div 4) % 2
    BY <1>4, <2>1, <2>2
  <2>4. /\ (h + (0)) + 1 = h + 1 /\ (h + (0)) + 2 = h + 2
        /\ (h + (0)) + 3 = h + 3 /\ (h + (0)) + 4 = h + 4
        /\ (h + (0)) + 5 = h + 5 /\ (h + (5)) + 1 = h + 6
        /\ (h + (5)) + 2 = h + 7 /\ (h + (5)) + 3 = h + 8
    BY <1>6
  <2>5. /\ bits[h + 1] = (b \div 16) % 2 /\ bits[h + 2] = (b \div 8) % 2
        /\ bits[h + 3] = (b \div 4) % 2 /\ bits[h + 4] = (b \div 2) % 2
        /\ bits[h + 5] = (b \div 1) % 2 /\ bits[h + 6] = (c \div 16) % 2
        /\ bits[h + 7] = (c \div 8) % 2 /\ bits[h + 8] = (c \div 4) % 2
    BY <2>3, <2>4, Zenon
  <2>6. ByteAt(bits, h) = Eight((b \div 16) % 2, (b \div 8) % 2, (b \div 4) % 2, (b \div 2) % 2,
                                 (b \div 1) % 2, (c \div 16) % 2, (c \div 8) % 2, (c \div 4) % 2)
    BY <2>5, Zenon DEF ByteAt
  <2>7. Eight((b \div 16) % 2, (b \div 8) % 2, (b \div 4) % 2, (b \div 2) % 2,
                                 (b \div 1) % 2, (c \div 16) % 2, (c \div 8) % 2, (c \div 4) % 2) = ByteFrom(2, a, b, c)
    BY <1>2, QuintetsAddUp
  <2> QED
    BY <1>5, <1>9, <2>6, <2>7, Zenon DEF bits, a, b, c
<1>10. CASE s = 3
  <2>1. 5 * ((i - 2) - 1) = h + (0 - 4) /\ 5 * ((i - 1) - 1) = h + (1) /\ 5 * (i - 1) = h + 6
    BY <1>1, <1>6, <1>10
  <2>2. a = vs[i - 2] /\ i - 2 \in 1..n /\ b = vs[i - 1] /\ i - 1 \in 1..n /\ c = vs[i] /\ i \in 1..n
    BY <1>0, <1>1, <1>3, <1>10
  <2>3. /\ bits[(h + (0 - 4)) + 5] = (a \div 1) % 2 /\ bits[(h + (1)) + 1] = (b \div 16) % 2
        /\ bits[(h + (1)) + 2] = (b \div 8) % 2 /\ bits[(h + (1)) + 3] = (b \div 4) % 2
        /\ bits[(h + (1)) + 4] = (b \div 2) % 2 /\ bits[(h + (1)) + 5] = (b \div 1) % 2
        /\ bits[(h + (6)) + 1] = (c \div 16) % 2 /\ bits[(h + (6)) + 2] = (c \div 8) % 2
    BY <1>4, <2>1, <2>2
  <2>4. /\ (h + (0 - 4)) + 5 = h + 1 /\ (h + (1)) + 1 = h + 2
        /\ (h + (1)) + 2 = h + 3 /\ (h + (1)) + 3 = h + 4
        /\ (h + (1)) + 4 = h + 5 /\ (h + (1)) + 5 = h + 6
        /\ (h + (6)) + 1 = h + 7 /\ (h + (6)) + 2 = h + 8
    BY <1>6
  <2>5. /\ bits[h + 1] = (a \div 1) % 2 /\ bits[h + 2] = (b \div 16) % 2
        /\ bits[h + 3] = (b \div 8) % 2 /\ bits[h + 4] = (b \div 4) % 2
        /\ bits[h + 5] = (b \div 2) % 2 /\ bits[h + 6] = (b \div 1) % 2
        /\ bits[h + 7] = (c \div 16) % 2 /\ bits[h + 8] = (c \div 8) % 2
    BY <2>3, <2>4, Zenon
  <2>6. ByteAt(bits, h) = Eight((a \div 1) % 2, (b \div 16) % 2, (b \div 8) % 2, (b \div 4) % 2,
                                 (b \div 2) % 2, (b \div 1) % 2, (c \div 16) % 2, (c \div 8) % 2)
    BY <2>5, Zenon DEF ByteAt
  <2>7. Eight((a \div 1) % 2, (b \div 16) % 2, (b \div 8) % 2, (b \div 4) % 2,
                                 (b \div 2) % 2, (b \div 1) % 2, (c \div 16) % 2, (c \div 8) % 2) = ByteFrom(3, a, b, c)
    BY <1>2, QuintetsAddUp
  <2> QED
    BY <1>5, <1>10, <2>6, <2>7, Zenon DEF bits, a, b, c
<1>11. CASE s = 4
  <2>1. 5 * ((i - 2) - 1) = h + (0 - 3) /\ 5 * ((i - 1) - 1) = h + (2) /\ 5 * (i - 1) = h + 7
    BY <1>1, <1>6, <1>11
  <2>2. a = vs[i - 2] /\ i - 2 \in 1..n /\ b = vs[i - 1] /\ i - 1 \in 1..n /\ c = vs[i] /\ i \in 1..n
    BY <1>0, <1>1, <1>3, <1>11
  <2>3. /\ bits[(h + (0 - 3)) + 4] = (a \div 2) % 2 /\ bits[(h + (0 - 3)) + 5] = (a \div 1) % 2
        /\ bits[(h + (2)) + 1] = (b \div 16) % 2 /\ bits[(h + (2)) + 2] = (b \div 8) % 2
        /\ bits[(h + (2)) + 3] = (b \div 4) % 2 /\ bits[(h + (2)) + 4] = (b \div 2) % 2
        /\ bits[(h + (2)) + 5] = (b \div 1) % 2 /\ bits[(h + (7)) + 1] = (c \div 16) % 2
    BY <1>4, <2>1, <2>2
  <2>4. /\ (h + (0 - 3)) + 4 = h + 1 /\ (h + (0 - 3)) + 5 = h + 2
        /\ (h + (2)) + 1 = h + 3 /\ (h + (2)) + 2 = h + 4
        /\ (h + (2)) + 3 = h + 5 /\ (h + (2)) + 4 = h + 6
        /\ (h + (2)) + 5 = h + 7 /\ (h + (7)) + 1 = h + 8
    BY <1>6
  <2>5. /\ bits[h + 1] = (a \div 2) % 2 /\ bits[h + 2] = (a \div 1) % 2
        /\ bits[h + 3] = (b \div 16) % 2 /\ bits[h + 4] = (b \div 8) % 2
        /\ bits[h + 5] = (b \div 4) % 2 /\ bits[h + 6] = (b \div 2) % 2
        /\ bits[h + 7] = (b \div 1) % 2 /\ bits[h + 8] = (c \div 16) % 2
    BY <2>3, <2>4, Zenon
  <2>6. ByteAt(bits, h) = Eight((a \div 2) % 2, (a \div 1) % 2, (b \div 16) % 2, (b \div 8) % 2,
                                 (b \div 4) % 2, (b \div 2) % 2, (b \div 1) % 2, (c \div 16) % 2)
    BY <2>5, Zenon DEF ByteAt
  <2>7. Eight((a \div 2) % 2, (a \div 1) % 2, (b \div 16) % 2, (b \div 8) % 2,
                                 (b \div 4) % 2, (b \div 2) % 2, (b \div 1) % 2, (c \div 16) % 2) = ByteFrom(4, a, b, c)
    BY <1>2, QuintetsAddUp
  <2> QED
    BY <1>5, <1>11, <2>6, <2>7, Zenon DEF bits, a, b, c
<1> QED
  BY <1>0, <1>7, <1>8, <1>9, <1>10, <1>11

(* After m quintets b bits wait behind k bytes; and one quintet later.     *)
MovesFive(m, b, k) ==
    /\ b \in 0..7 /\ k \in Nat
    /\ b + 5 < 8 => (5 * (m + 1)) % 8 = b + 5 /\ (5 * (m + 1)) \div 8 = k
    /\ ~(b + 5 < 8) => /\ (5 * (m + 1)) % 8 = (b + 5) - 8 /\ (b + 5) - 8 \in 0..4
                       /\ (5 * (m + 1)) \div 8 = k + 1
                       /\ 8 * (k + 1) = 5 * (m + 1) - ((b + 5) - 8)

(* Five bits more than 5 * m complete a byte, or they wait.                *)
LEMMA FiveMore ==
    ASSUME NEW m \in Nat, NEW b, b = (5 * m) % 8, NEW k, k = (5 * m) \div 8
    PROVE  MovesFive(m, b, k)
<1>1. 5 * m = 8 * k + b /\ b \in 0..7 /\ k \in Nat
  <2>1. 5 * m \in Nat
    OBVIOUS
  <2>2. \A x \in Nat : x = 8 * (x \div 8) + (x % 8) /\ x % 8 \in 0..7 /\ x \div 8 \in Nat
    OBVIOUS
  <2> QED
    BY <2>1, <2>2
<1>2. \A x \in Nat : \A y \in 0..7 : (8 * x + y) % 8 = y /\ (8 * x + y) \div 8 = x
  OBVIOUS
<1>3. ASSUME b + 5 < 8
      PROVE  (5 * (m + 1)) % 8 = b + 5 /\ (5 * (m + 1)) \div 8 = k
  <2>1. b + 5 \in 0..7 /\ 5 * (m + 1) = 8 * k + (b + 5)
    BY <1>1, <1>3
  <2> QED
    BY <1>1, <1>2, <2>1
<1>4. ASSUME ~(b + 5 < 8)
      PROVE  /\ (5 * (m + 1)) % 8 = (b + 5) - 8 /\ (b + 5) - 8 \in 0..4
             /\ (5 * (m + 1)) \div 8 = k + 1
             /\ 8 * (k + 1) = 5 * (m + 1) - ((b + 5) - 8)
  <2>1. /\ (b + 5) - 8 \in 0..7 /\ (b + 5) - 8 \in 0..4 /\ k + 1 \in Nat
        /\ 5 * (m + 1) = 8 * (k + 1) + ((b + 5) - 8)
    BY <1>1, <1>4
  <2> QED
    BY <1>1, <1>2, <2>1
<1> QED
  BY <1>1, <1>3, <1>4 DEF MovesFive

(* A sequence and its next element.                                        *)
LEMMA OneMore ==
    ASSUME NEW k \in Nat, NEW B, \A j \in 1..(k + 1) : B[j] \in Nat
    PROVE  Append([j \in 1..k |-> B[j]], B[k + 1]) = [j \in 1..(k + 1) |-> B[j]]
<1> DEFINE q == [j \in 1..k |-> B[j]]
           p == [j \in 1..(k + 1) |-> B[j]]
<1>1. q \in Seq(Nat) /\ Len(q) = k /\ B[k + 1] \in Nat
  OBVIOUS
<1>2. p \in Seq(Nat) /\ Len(p) = k + 1
  OBVIOUS
<1> DEFINE a == Append(q, B[k + 1])
<1>3. a \in Seq(Nat) /\ Len(a) = k + 1
  BY <1>1
<1>4. \A j \in 1..(k + 1) : a[j] = p[j]
  OBVIOUS
<1> HIDE DEF a, p
<1>5. a = p
  BY <1>2, <1>3, <1>4, SeqEqual
<1> QED
  BY <1>5 DEF a, p

(* What the loop has read after m characters.                              *)
HasRead(acc, vs, m) ==
    /\ acc.bits = (5 * m) % 8
    /\ acc.buffer = Window(ValueAt(vs, m - 2), ValueAt(vs, m - 1), ValueAt(vs, m))
    /\ acc.data = [j \in 1..((5 * m) \div 8) |-> BytesOf(BitsOf(vs, 5))[j]]

(* One character more, and this still holds.                               *)
LEMMA ReadsNext ==
    ASSUME NEW vs, Quintets(vs), NEW m \in Nat, m + 1 <= Len(vs),
           NEW acc \in Base32State, HasRead(acc, vs, m),
           NEW c, Base32Value(c) = vs[m + 1]
    PROVE  HasRead(Base32Step(acc, c), vs, m + 1)
<1> DEFINE n == Len(vs)
           B == BytesOf(BitsOf(vs, 5))
           bits == acc.bits + 5
           buffer == (acc.buffer * 32 + Base32Value(c)) % 2^13
           k == (5 * m) \div 8
           i == m + 1
           after == Base32Step(acc, c)
<1>1. /\ n \in Nat /\ i \in 1..n /\ m - 2 \in Int /\ m - 1 \in Int /\ m \in Int /\ m - 2 <= n
      /\ m - 1 <= n /\ m <= n /\ i >= 1 /\ i - 2 = m - 1 /\ i - 1 = m
  BY DEF Quintets
<1>2. acc.bits = (5 * m) % 8 /\ acc.data = [j \in 1..k |-> B[j]]
      /\ acc.buffer = Window(ValueAt(vs, m - 2), ValueAt(vs, m - 1), ValueAt(vs, m))
  BY DEF HasRead
<1>3. Base32Value(c) = ValueAt(vs, i) /\ ValueAt(vs, i) \in Quintet
  <2>1. Base32Value(c) = ValueAt(vs, i)
    BY <1>1 DEF ValueAt
  <2>2. vs[i] \in Quintet
    BY <1>1 DEF Quintets
  <2> QED
    BY <2>1, <2>2
<1>4. /\ ValueAt(vs, m - 2) \in Quintet /\ ValueAt(vs, m - 1) \in Quintet
      /\ ValueAt(vs, m) \in Quintet
  BY <1>1, ValuesAre
<1>5. buffer = Window(ValueAt(vs, i - 2), ValueAt(vs, i - 1), ValueAt(vs, i))
  <2> DEFINE d == ValueAt(vs, i)
  <2>1. (Window(ValueAt(vs, m - 2), ValueAt(vs, m - 1), ValueAt(vs, m)) * 32 + d) % 2^13
          = Window(ValueAt(vs, m - 1), ValueAt(vs, m), d)
    <3> HIDE DEF d
    <3>1. d \in Quintet
      BY <1>3 DEF d
    <3> QED
      BY <1>4, <3>1, WindowStep
  <2> QED
    BY <1>1, <1>2, <1>3, <2>1
<1>6. /\ acc.bits \in 0..7 /\ k \in Nat
      /\ bits < 8 => (5 * i) % 8 = bits /\ (5 * i) \div 8 = k
      /\ ~(bits < 8) => /\ (5 * i) % 8 = bits - 8 /\ bits - 8 \in 0..4
                        /\ (5 * i) \div 8 = k + 1 /\ 8 * (k + 1) = 5 * i - (bits - 8)
  <2> DEFINE b == acc.bits
  <2>1. b = (5 * m) % 8
    BY <1>2
  <2> HIDE DEF b
  <2>2. MovesFive(m, b, k)
    BY <2>1, FiveMore
  <2> QED
    BY <2>2 DEF b, MovesFive
<1> HIDE DEF buffer, k, i, B
<1>7. CASE bits < 8
  <2>1. after = [buffer |-> buffer, bits |-> bits, data |-> acc.data]
    BY <1>7, Zenon DEF Base32Step, buffer
  <2> HIDE DEF after
  <2>2. after.bits = (5 * i) % 8 /\ after.buffer = buffer /\ after.data = [j \in 1..((5 * i) \div 8) |-> B[j]]
    BY <1>2, <1>6, <1>7, <2>1
  <2>3. HasRead(after, vs, i)
    BY <1>5, <2>2, Zenon DEF HasRead, B
  <2> QED
    BY <2>3 DEF after, i
<1>8. CASE ~(bits < 8)
  <2> DEFINE s == bits - 8
             byte == (buffer \div 2^s) % 256
  <2>1. after = [buffer |-> buffer, bits |-> s, data |-> Append(acc.data, byte)]
    BY <1>8, Zenon DEF Base32Step, buffer
  <2>2. s \in 0..4 /\ (5 * i) % 8 = s /\ (5 * i) \div 8 = k + 1 /\ 8 * (k + 1) = 5 * i - s
    BY <1>6, <1>8
  <2> HIDE DEF s, after
  <2>3. byte = ByteFrom(s, ValueAt(vs, i - 2), ValueAt(vs, i - 1), ValueAt(vs, i))
    <3>1. ValueAt(vs, i - 2) \in Quintet /\ ValueAt(vs, i - 1) \in Quintet
      BY <1>1, <1>4
    <3>2. LowByte(Window(ValueAt(vs, i - 2), ValueAt(vs, i - 1), ValueAt(vs, i)), s)
            = ByteFrom(s, ValueAt(vs, i - 2), ValueAt(vs, i - 1), ValueAt(vs, i))
      <4> DEFINE a == ValueAt(vs, i - 2)
                 b == ValueAt(vs, i - 1)
                 d == ValueAt(vs, i)
      <4>1. a \in Quintet /\ b \in Quintet /\ d \in Quintet
        BY <1>3, <3>1
      <4>3. s \in 0..4
        BY <2>2
      <4> HIDE DEF a, b, d
      <4>2. LowByte(Window(a, b, d), s) = ByteFrom(s, a, b, d)
        BY <4>1, <4>3, WindowByte
      <4> QED
        BY <4>2 DEF a, b, d
    <3> QED
      BY <1>5, <3>2, Zenon DEF LowByte
  <2>4. B[k + 1] = ByteFrom(s, ValueAt(vs, i - 2), ValueAt(vs, i - 1), ValueAt(vs, i))
    <3>1. EndsByte(vs, i, s, k + 1)
      BY <1>1, <1>6, <2>2 DEF EndsByte
    <3> QED
      BY <3>1, ByteOfQuintets DEF B
  <2>5. Append(acc.data, byte) = [j \in 1..(k + 1) |-> B[j]]
    <3>1. byte = B[k + 1]
      BY <2>3, <2>4, Zenon
    <3>2. byte \in Nat
      <4>1. acc.buffer \in Nat
        BY DEF Base32State
      <4>2. buffer \in Nat
        <5>1. after \in Base32State
          BY <1>3, Base32StepFits DEF after
        <5> QED
          BY <2>1, <5>1 DEF Base32State
      <4> QED
        BY <2>2, <4>2, ShiftIs
    <3>3. \A j \in 1..(k + 1) : B[j] \in Nat
      <4>1. acc.data \in Seq(Nat)
        BY DEF Base32State
      <4>2. \A j \in 1..k : B[j] \in Nat
        <5>1. \A j \in 1..k : acc.data[j] = B[j] /\ j \in 1..Len(acc.data)
          BY <1>2, <1>6
        <5> QED
          BY <4>1, <5>1
      <4>3. \A j \in 1..(k + 1) : j \in 1..k \/ j = k + 1
        BY <1>6
      <4> QED
        BY <3>1, <3>2, <4>2, <4>3
    <3> HIDE DEF byte
    <3>4. Append([j \in 1..k |-> B[j]], B[k + 1]) = [j \in 1..(k + 1) |-> B[j]]
      BY <1>6, <3>3, OneMore
    <3> QED
      BY <1>2, <3>1, <3>4
  <2> HIDE DEF byte
  <2>6. after.bits = (5 * i) % 8 /\ after.buffer = buffer /\ after.data = [j \in 1..((5 * i) \div 8) |-> B[j]]
    BY <2>1, <2>2, <2>5
  <2>7. HasRead(after, vs, i)
    BY <1>5, <2>6, Zenon DEF HasRead, B
  <2> QED
    BY <2>7 DEF after, i
<1> QED
  BY <1>7, <1>8

(* What the loop has read at the end: the bytes of the values' bits.       *)
LEMMA Base32ReadIs ==
    ASSUME NEW t, NEW n \in Nat, \A i \in 1..n : Base32Value(t[i]) \in Quintet
    PROVE  Base32Read(t, n)[n].data = BytesOf(BitsOf([i \in 1..n |-> Base32Value(t[i])], 5))
<1> DEFINE vs == [i \in 1..n |-> Base32Value(t[i])]
           R == Base32Read(t, n)
           T == {m \in Nat : m <= n => HasRead(R[m], vs, m)}
<1>1. Len(vs) = n /\ Quintets(vs) /\ \A i \in 1..n : vs[i] = Base32Value(t[i])
  BY DEF Quintets
<1>2. /\ R[0] = Base32Start
      /\ \A i \in 1..n : R[i - 1] \in Base32State /\ R[i] = Base32Step(R[i - 1], t[i])
  BY Base32Reads
<1> HIDE DEF vs, R
<1>3. 0 \in T
  <2>1. /\ Window(0, 0, 0) = 0 /\ (5 * 0) % 8 = 0 /\ (5 * 0) \div 8 = 0
        /\ ValueAt(vs, 0 - 2) = 0 /\ ValueAt(vs, 0 - 1) = 0 /\ ValueAt(vs, 0) = 0
    <3>1. Window(0, 0, 0) = 0
      BY SMT DEF Window
    <3>2. (5 * 0) % 8 = 0 /\ (5 * 0) \div 8 = 0
      OBVIOUS
    <3>3. ValueAt(vs, 0 - 2) = 0 /\ ValueAt(vs, 0 - 1) = 0 /\ ValueAt(vs, 0) = 0
      BY SMT DEF ValueAt
    <3> QED
      BY <3>1, <3>2, <3>3
  <2>2. R[0].buffer = 0 /\ R[0].bits = 0 /\ R[0].data = <<>>
    BY <1>2 DEF Base32Start
  <2>3. [j \in 1..0 |-> BytesOf(BitsOf(vs, 5))[j]] = <<>>
    OBVIOUS
  <2>4. HasRead(R[0], vs, 0)
    BY <2>1, <2>2, <2>3, Zenon DEF HasRead
  <2> QED
    BY <2>4
<1>4. ASSUME NEW m \in Nat, m \in T PROVE m + 1 \in T
  <2> SUFFICES ASSUME m + 1 <= n PROVE HasRead(R[m + 1], vs, m + 1)
    OBVIOUS
  <2>1. m + 1 \in 1..n /\ (m + 1) - 1 = m /\ m <= n
    OBVIOUS
  <2>2. R[m] \in Base32State /\ R[m + 1] = Base32Step(R[m], t[m + 1])
    BY <1>2, <2>1
  <2>3. HasRead(R[m], vs, m)
    BY <1>4, <2>1
  <2>4. Base32Value(t[m + 1]) = vs[m + 1] /\ m + 1 <= Len(vs)
    BY <1>1, <2>1
  <2>5. HasRead(Base32Step(R[m], t[m + 1]), vs, m + 1)
    BY <1>1, <2>2, <2>3, <2>4, ReadsNext
  <2> QED
    BY <2>2, <2>5
<1> HIDE DEF T
<1>5. \A m \in Nat : m \in T
  BY <1>3, <1>4, Reaches
<1>6. HasRead(R[n], vs, n)
  BY <1>5 DEF T
<1>7. BytesOf(BitsOf(vs, 5)) = [j \in 1..((5 * n) \div 8) |-> BytesOf(BitsOf(vs, 5))[j]]
  BY <1>1, BitsAre
<1> QED
  BY <1>6, <1>7, Zenon DEF HasRead, vs, R

(* Where the padding starts, as the decoder finds it.                      *)
IsLast(t, n) == n \in 0..Len(t) /\ (\A i \in (n + 1)..Len(t) : t[i] = Pad) /\ (n > 0 => t[n] # Pad)

(* There is such a place.                                                  *)
LEMMA LastIs ==
    ASSUME NEW t, Len(t) \in Nat
    PROVE  \E n : IsLast(t, n)
<1> DEFINE S == {n \in 0..Len(t) : \A i \in (n + 1)..Len(t) : t[i] = Pad}
<1>1. Len(t) \in S /\ S \in SUBSET Nat
  OBVIOUS
<1>2. PICK n \in S : \A m \in S : n <= m
  <2> HIDE DEF S
  <2> QED
    BY <1>1, Smallest
<1>3. n > 0 => t[n] # Pad
  <2> SUFFICES ASSUME n > 0, t[n] = Pad PROVE FALSE
    OBVIOUS
  <2>1. n \in 1..Len(t) /\ n - 1 \in 0..Len(t) /\ ~(n <= n - 1)
    BY <1>2
  <2>2. \A i \in ((n - 1) + 1)..Len(t) : i = n \/ i \in (n + 1)..Len(t)
    BY <2>1
  <2>3. n - 1 \in S
    BY <1>2, <2>1, <2>2
  <2> QED
    BY <1>2, <2>1, <2>3
<1>4. IsLast(t, n)
  BY <1>2, <1>3 DEF IsLast
<1> QED
  BY <1>4

(* It is the only one at which the padding of a text can start.            *)
LEMMA LastIsPadded ==
    ASSUME NEW t, Len(t) \in Nat, NEW last, IsLast(t, last), NEW digits, Pad \notin digits
    PROVE  /\ \A n \in 0..Len(t) : IsPadded(t, n, digits) => n = last
           /\ IsPadded(t, last, digits) <=> \A i \in 1..last : t[i] \in digits
<1>0. last \in 0..Len(t) /\ (\A i \in (last + 1)..Len(t) : t[i] = Pad) /\ (last > 0 => t[last] # Pad)
  BY DEF IsLast
<1>1. ASSUME NEW n \in 0..Len(t), IsPadded(t, n, digits)
      PROVE  n = last
  <2>1. CASE n > last
    <3>1. n \in 1..Len(t) /\ n \in (last + 1)..Len(t) /\ n <= n
      BY <1>0, <2>1
    <3> QED
      BY <1>0, <1>1, <3>1 DEF IsPadded
  <2>2. CASE n < last
    <3>1. last \in 1..Len(t) /\ ~(last <= n) /\ last > 0
      BY <1>0, <2>2
    <3> QED
      BY <1>0, <1>1, <3>1 DEF IsPadded
  <2> QED
    BY <1>0, <2>1, <2>2
<1>2. IsPadded(t, last, digits) <=> \A i \in 1..last : t[i] \in digits
  <2>1. ASSUME IsPadded(t, last, digits), NEW i \in 1..last PROVE t[i] \in digits
    <3>1. i \in 1..Len(t) /\ i <= last
      BY <1>0
    <3> QED
      BY <2>1, <3>1 DEF IsPadded
  <2>2. ASSUME \A i \in 1..last : t[i] \in digits PROVE IsPadded(t, last, digits)
    <3> SUFFICES ASSUME NEW i \in 1..Len(t)
                 PROVE  IF i <= last THEN t[i] \in digits ELSE t[i] = Pad
      BY DEF IsPadded
    <3>1. i \in 1..last \/ (i \in (last + 1)..Len(t) /\ ~(i <= last))
      BY <1>0
    <3>2. i \in 1..last => i <= last
      BY <1>0
    <3> QED
      BY <1>0, <2>2, <3>1, <3>2
  <2> QED
    BY <2>1, <2>2
<1> QED
  BY <1>1, <1>2

(* The characters of the alphabet have values, the others have none.       *)
LEMMA Base32Values ==
    ASSUME NEW c
    PROVE  /\ Base32Value(c) = -1 <=> c \notin Base32Digits
           /\ c \in Base32Digits => Base32Value(c) \in Quintet
BY DEF Base32Value, Base32Digits, Quintet

(* Exactly the padded Base32 texts are accepted, and what they give.       *)
LEMMA Base32TextDecodes ==
    ASSUME NEW t, Len(t) \in Nat
    PROVE  Base32Decodes(t)
<1>1. PICK some : IsLast(t, some)
  BY LastIs
<1> DEFINE P(n) == (\A i \in (n + 1)..Len(t) : t[i] = Pad) /\ (n > 0 => t[n] # Pad)
           last == CHOOSE n \in 0..Len(t) : P(n)
           read == DecodeBase32(t)
           Values(n) == [i \in 1..n |-> Base32Value(t[i])]
<1>2. IsLast(t, last)
  <2>1. some \in 0..Len(t) /\ P(some)
    BY <1>1 DEF IsLast
  <2> HIDE DEF P
  <2>2. last \in 0..Len(t) /\ P(last)
    BY <2>1
  <2> HIDE DEF last
  <2> QED
    BY <2>2 DEF IsLast, P
<1>3. read = IF \E i \in 1..last : Base32Value(t[i]) = -1 THEN Invalid
             ELSE Ok(Base32Read(t, last)[last].data)
  BY DEF DecodeBase32
<1> HIDE DEF last, read
<1>4. last \in Nat /\ last \in 0..Len(t)
  BY <1>2 DEF IsLast
<1>5. Pad \notin Base32Digits
  BY DEF Pad, Base32Digits
<1>6. /\ \A n \in 0..Len(t) : IsPadded(t, n, Base32Digits) => n = last
      /\ IsPadded(t, last, Base32Digits) <=> \A i \in 1..last : t[i] \in Base32Digits
  BY <1>2, <1>5, LastIsPadded
<1>7. CASE \A i \in 1..last : t[i] \in Base32Digits
  <2>1. \A i \in 1..last : Base32Value(t[i]) # -1 /\ Base32Value(t[i]) \in Quintet
    BY <1>7, Base32Values
  <2>2. read = Ok(Base32Read(t, last)[last].data)
    BY <1>3, <2>1
  <2>3. read.ok /\ read.data = BytesOf(BitsOf(Values(last), 5))
    <3>1. Base32Read(t, last)[last].data = BytesOf(BitsOf(Values(last), 5))
      BY <1>4, <2>1, Base32ReadIs
    <3> HIDE DEF Values
    <3> QED
      BY <2>2, <3>1 DEF Ok
  <2>4. \E n \in 0..Len(t) : IsPadded(t, n, Base32Digits)
    BY <1>4, <1>6, <1>7
  <2>5. \A n \in 0..Len(t) : IsPadded(t, n, Base32Digits) => read.data = BytesOf(BitsOf(Values(n), 5))
    <3> HIDE DEF Values
    <3> QED
      BY <1>6, <2>3
  <2> QED
    BY <2>3, <2>4, <2>5 DEF Base32Decodes, read
<1>8. CASE ~(\A i \in 1..last : t[i] \in Base32Digits)
  <2>1. \E i \in 1..last : Base32Value(t[i]) = -1
    BY <1>8, Base32Values
  <2>2. ~read.ok
    BY <1>3, <2>1 DEF Invalid
  <2>3. \A n \in 0..Len(t) : ~IsPadded(t, n, Base32Digits)
    BY <1>6, <1>8
  <2> QED
    BY <2>2, <2>3 DEF Base32Decodes, read
<1> QED
  BY <1>7, <1>8

-----------------------------------------------------------------------------
(***************************************************************************)
(* Identifiers.                                                            *)
(***************************************************************************)
(* A character has a value, that of a digit is the digit.                  *)
LEMMA HexValues ==
    /\ \A c : HexVal(c) \in Int
    /\ \A v \in 0..15 : /\ HexVal(HexDigit(v)) = v /\ HexVal(HexDigit(v)) \in Nat
                        /\ HexDigit(v) # Dash /\ HexDigit(v) \in Nat
<1>1. ASSUME NEW c PROVE HexVal(c) \in Int
  BY DEF HexVal, UnhexTable
<1>2. ASSUME NEW v \in 0..15
      PROVE  HexVal(HexDigit(v)) = v /\ HexDigit(v) # Dash /\ HexDigit(v) \in Nat /\ v \in Nat
  <2>1. UnhexTable(HexDigit(v)) = v /\ v # 255
    BY HexDigitReads
  <2>2. HexVal(HexDigit(v)) = v
    BY <2>1, Zenon DEF HexVal
  <2>3. HexDigit(v) # Dash /\ HexDigit(v) \in Nat
    BY DEF HexDigit, Dash
  <2> QED
    BY <2>2, <2>3
<1> QED
  BY <1>1, <1>2

(* The state of the loop of fromString.                                    *)
PairState == [bad : BOOLEAN, next : Nat, data : Seq(Int)]

(* The loop starts with nothing read.                                      *)
PairStart == [bad |-> FALSE, next |-> 1, data |-> <<>>]

(* A step stays in the states.                                             *)
LEMMA ReadPairFits ==
    ASSUME NEW s, NEW acc \in PairState, NEW i \in Nat
    PROVE  ReadPair(s, acc, i) \in PairState
<1> DEFINE low == IF i < Len(s) THEN s[i + 1] ELSE Junk
           v == HexVal(s[i]) * 16 + HexVal(low)
           bad == [bad |-> TRUE, next |-> acc.next, data |-> acc.data]
           good == [bad |-> FALSE, next |-> i + 2, data |-> Append(acc.data, v)]
<1>1. ReadPair(s, acc, i) = acc \/ ReadPair(s, acc, i) = bad \/ ReadPair(s, acc, i) = good
  BY Zenon DEF ReadPair
<1>2. v \in Int
  <2>1. HexVal(s[i]) \in Int /\ HexVal(low) \in Int
    BY HexValues
  <2> QED
    BY <2>1
<1>3. acc.next \in Nat /\ acc.data \in Seq(Int)
  BY DEF PairState
<1> HIDE DEF v
<1>4. bad \in PairState
  BY <1>3 DEF PairState
<1>5. good \in PairState
  <2>1. Append(acc.data, v) \in Seq(Int) /\ i + 2 \in Nat
    BY <1>2, <1>3
  <2> QED
    BY <2>1 DEF PairState
<1> HIDE DEF bad, good
<1> QED
  BY <1>1, <1>4, <1>5

(* What the loop reads satisfies its equation.                             *)
LEMMA PairsRead ==
    ASSUME NEW s, NEW n \in Nat, Len(s) = n
    PROVE  /\ ReadPairs(s)[0] = PairStart
           /\ \A i \in 1..n : ReadPairs(s)[i] = ReadPair(s, ReadPairs(s)[i - 1], i)
<1> DEFINE step == [p \in PairState \X Nat |-> ReadPair(s, p[1], p[2])]
           Eq(g) == g = [i \in 0..n |-> IF i = 0 THEN PairStart ELSE ReadPair(s, g[i - 1], i)]
<1>1. step \in [PairState \X Nat -> PairState]
  <2>1. ASSUME NEW p \in PairState \X Nat PROVE step[p] \in PairState
    BY ReadPairFits
  <2> QED
    BY <2>1
<1>2. PairStart \in PairState
  BY DEF PairStart, PairState
<1>3. PICK f : IsRun(f, PairStart, step, n) /\ \A i \in 0..n : f[i] \in PairState
  <2> HIDE DEF step
  <2> QED
    BY <1>1, <1>2, LoopRuns
<1>4. Eq(f)
  <2>1. f = [i \in 0..n |-> IF i = 0 THEN PairStart ELSE step[<<f[i - 1], i>>]]
    BY <1>3 DEF IsRun
  <2>2. ASSUME NEW i \in 1..n
        PROVE  step[<<f[i - 1], i>>] = ReadPair(s, f[i - 1], i)
    <3>1. i \in Nat /\ i - 1 \in 0..n
      OBVIOUS
    <3>2. <<f[i - 1], i>> \in PairState \X Nat
      BY <1>3, <3>1
    <3> QED
      BY <3>2
  <2> HIDE DEF step
  <2>3. \A i \in 0..n : i = 0 \/ i \in 1..n
    OBVIOUS
  <2> QED
    BY <2>1, <2>2, <2>3
<1>5. ReadPairs(s) = CHOOSE g : Eq(g)
  BY DEF ReadPairs, PairStart
<1> HIDE DEF step
<1>6. Eq(ReadPairs(s))
  <2> HIDE DEF Eq
  <2> QED
    BY <1>4, <1>5
<1> DEFINE R == ReadPairs(s)
<1> HIDE DEF R
<1>7. R = [i \in 0..n |-> IF i = 0 THEN PairStart ELSE ReadPair(s, R[i - 1], i)]
  BY <1>6 DEF R
<1>8. R[0] = PairStart /\ \A i \in 1..n : R[i] = ReadPair(s, R[i - 1], i)
  BY <1>7
<1> QED
  BY <1>8 DEF R

(* After i characters the first k bytes are read, and nothing beyond.      *)
PairsReadSo(acc, d, i, k) ==
    /\ acc.bad = FALSE /\ acc.next \in Nat /\ acc.next <= i + 1
    /\ acc.data = [j \in 1..k |-> d[j]]

(* The two characters from i + 1 on are the digits of a byte.              *)
DigitsAt(s, i, byte) ==
    s[i + 1] = HexDigit(byte \div 16) /\ s[i + 2] = HexDigit(byte % 16)

(* A dash changes nothing.                                                 *)
LEMMA DashSkipped ==
    ASSUME NEW s, NEW d, NEW i \in Nat, NEW k, NEW acc, PairsReadSo(acc, d, i, k), s[i + 1] = Dash
    PROVE  PairsReadSo(ReadPair(s, acc, i + 1), d, i + 1, k)
<1>1. ReadPair(s, acc, i + 1) = acc
  BY Zenon DEF ReadPair
<1>2. acc.next <= (i + 1) + 1
  BY DEF PairsReadSo
<1> QED
  BY <1>1, <1>2 DEF PairsReadSo

(* Two digits are read as their byte, and the second is not read twice.    *)
LEMMA PairTaken ==
    ASSUME NEW s, NEW n \in Nat, Len(s) = n, NEW i \in Nat, i + 2 <= n,
           NEW k \in Nat, NEW d, \A j \in 1..(k + 1) : d[j] \in Byte,
           NEW acc, PairsReadSo(acc, d, i, k), DigitsAt(s, i, d[k + 1])
    PROVE  PairsReadSo(ReadPair(s, ReadPair(s, acc, i + 1), i + 2), d, i + 2, k + 1)
<1> DEFINE high == d[k + 1] \div 16
           low == d[k + 1] % 16
           after == ReadPair(s, acc, i + 1)
           v == HexVal(s[i + 1]) * 16 + HexVal(s[i + 2])
<1>1. d[k + 1] \in Byte
  BY k + 1 \in 1..(k + 1)
<1>2. high \in 0..15 /\ low \in 0..15 /\ high * 16 + low = d[k + 1]
  BY <1>1, Digits
<1>3. s[i + 1] = HexDigit(high) /\ s[i + 2] = HexDigit(low)
  BY DEF DigitsAt
<1> HIDE DEF high, low
<1>4. /\ HexVal(s[i + 1]) = high /\ HexVal(s[i + 2]) = low /\ s[i + 1] # Dash
      /\ ~(high < 0) /\ ~(low < 0)
  <2>1. ~(high < 0) /\ ~(low < 0)
    BY <1>2
  <2>2. HexVal(HexDigit(high)) = high /\ HexVal(HexDigit(low)) = low /\ HexDigit(high) # Dash
    BY <1>2, HexValues
  <2> QED
    BY <1>3, <2>1, <2>2
<1>5. v = d[k + 1]
  BY <1>2, <1>4
<1>6. i + 1 < Len(s) /\ (i + 1) + 1 = i + 2 /\ (i + 1) + 2 = i + 3 /\ ~(i + 1 < acc.next)
  BY DEF PairsReadSo
<1>7. acc.bad = FALSE
  BY DEF PairsReadSo
<1>8. after = [bad |-> FALSE, next |-> i + 3, data |-> Append(acc.data, d[k + 1])]
  <2>1. after = [bad |-> FALSE, next |-> (i + 1) + 2, data |-> Append(acc.data, v)]
    BY <1>4, <1>6, <1>7, Zenon DEF ReadPair
  <2> QED
    BY <1>5, <1>6, <2>1
<1> HIDE DEF after, v
<1>9. ReadPair(s, after, i + 2) = after
  <2>1. after.next = i + 3
    BY <1>8
  <2>2. i + 2 < after.next
    BY <2>1
  <2> QED
    BY <2>2, Zenon DEF ReadPair
<1>10. Append(acc.data, d[k + 1]) = [j \in 1..(k + 1) |-> d[j]]
  <2>1. \A j \in 1..(k + 1) : d[j] \in Nat
    <3>1. \A b \in Byte : b \in Nat
      BY DEF Byte
    <3> QED
      BY <3>1
  <2>2. acc.data = [j \in 1..k |-> d[j]]
    BY DEF PairsReadSo
  <2>3. Append([j \in 1..k |-> d[j]], d[k + 1]) = [j \in 1..(k + 1) |-> d[j]]
    BY <2>1, OneMore
  <2> QED
    BY <2>2, <2>3
<1>11. PairsReadSo(after, d, i + 2, k + 1)
  <2>1. after.bad = FALSE /\ after.next = i + 3 /\ after.data = [j \in 1..(k + 1) |-> d[j]]
    BY <1>8, <1>10
  <2>2. i + 3 \in Nat /\ i + 3 <= (i + 2) + 1
    OBVIOUS
  <2> QED
    BY <2>1, <2>2 DEF PairsReadSo
<1> QED
  BY <1>9, <1>11 DEF after

(* The digits of sixteen bytes.                                            *)
Printed(h, d) ==
    /\ h \in ByteSeq /\ Len(h) = 32
    /\ \A j \in 1..16 : h[2 * j - 1] = HexDigit(d[j] \div 16) /\ h[2 * j] = HexDigit(d[j] % 16)

(* Which are those that are printed.                                       *)
LEMMA HexIsPrinted ==
    ASSUME NEW d \in [1..16 -> Byte]
    PROVE  Printed(EncodeHex(d), d)
<1> DEFINE h == EncodeHex(d)
           Char(k) == HexDigit(IF k % 2 = 1 THEN d[(k + 1) \div 2] \div 16 ELSE d[(k + 1) \div 2] % 16)
<1>1. Len(d) = 16
  OBVIOUS
<1>2. h = [k \in 1..32 |-> Char(k)]
  <2>1. 2 * 16 = 32
    OBVIOUS
  <2> QED
    BY <1>1, <2>1 DEF EncodeHex
<1> HIDE DEF h
<1>3. ASSUME NEW k \in 1..32 PROVE Char(k) \in Byte
  <2> DEFINE v == IF k % 2 = 1 THEN d[(k + 1) \div 2] \div 16 ELSE d[(k + 1) \div 2] % 16
  <2>1. (k + 1) \div 2 \in 1..16
    OBVIOUS
  <2>2. v \in 0..15
    BY <2>1, Digits
  <2> HIDE DEF v
  <2>3. HexDigit(v) \in Byte
    BY <2>2 DEF HexDigit, Byte
  <2> QED
    BY <2>3 DEF v
<1>4. ASSUME NEW j \in 1..16
      PROVE  h[2 * j - 1] = HexDigit(d[j] \div 16) /\ h[2 * j] = HexDigit(d[j] % 16)
  <2>1. /\ 2 * j - 1 \in 1..32 /\ (2 * j - 1) % 2 = 1 /\ ((2 * j - 1) + 1) \div 2 = j
        /\ 2 * j \in 1..32 /\ (2 * j) % 2 = 0 /\ (2 * j + 1) \div 2 = j
    OBVIOUS
  <2>2. Char(2 * j - 1) = HexDigit(d[j] \div 16) /\ Char(2 * j) = HexDigit(d[j] % 16)
    BY <2>1
  <2> HIDE DEF Char
  <2> QED
    BY <1>2, <2>1, <2>2
<1>5. h \in ByteSeq /\ Len(h) = 32
  <2> HIDE DEF Char
  <2>1. h \in [1..32 -> Byte]
    BY <1>2, <1>3
  <2>2. Len(h) = 32
    BY <1>2
  <2>3. h \in Seq(Byte)
    <3>1. \A n \in Nat : \A q \in [1..n -> Byte] : q \in Seq(Byte)
      OBVIOUS
    <3> QED
      BY <2>1, 32 \in Nat, <3>1, Zenon
  <2> QED
    BY <2>2, <2>3 DEF ByteSeq
<1> QED
  BY <1>4, <1>5 DEF Printed, h

(* n characters of s, behind the first at, are those of h behind from.     *)
Placed(s, at, h, from, n) == \A i \in 1..n : s[at + i] = h[from + i]

(* What the loop has read after i characters, for every i.                 *)
ReadAt(s, d, i, k) == PairsReadSo(ReadPairs(s)[i], d, i, k)

(* What the loop has read after one character more.                        *)
LEMMA NextPair ==
    ASSUME NEW s, Len(s) = 36, NEW i \in 0..35
    PROVE  ReadPairs(s)[i + 1] = ReadPair(s, ReadPairs(s)[i], i + 1)
<1>1. \A j \in 1..36 : ReadPairs(s)[j] = ReadPair(s, ReadPairs(s)[j - 1], j)
  BY 36 \in Nat, PairsRead, Zenon
<1>2. i + 1 \in 1..36 /\ (i + 1) - 1 = i
  OBVIOUS
<1> QED
  BY <1>1, <1>2, Zenon

(* A dash and a pair, as the loop meets them.                              *)
LEMMA DashRead ==
    ASSUME NEW s, Len(s) = 36, NEW d, NEW i \in 0..35, NEW k, ReadAt(s, d, i, k), s[i + 1] = Dash
    PROVE  ReadAt(s, d, i + 1, k)
<1>1. ReadPairs(s)[i + 1] = ReadPair(s, ReadPairs(s)[i], i + 1)
  BY NextPair, Zenon
<1>2. PairsReadSo(ReadPair(s, ReadPairs(s)[i], i + 1), d, i + 1, k)
  BY DashSkipped DEF ReadAt
<1> QED
  BY <1>1, <1>2 DEF ReadAt

(* A pair between them.                                                    *)
LEMMA PairRead ==
    ASSUME NEW s, Len(s) = 36, NEW d \in [1..16 -> Byte], NEW i \in 0..34, NEW k \in 0..15,
           ReadAt(s, d, i, k), DigitsAt(s, i, d[k + 1])
    PROVE  ReadAt(s, d, i + 2, k + 1)
<1>1. /\ ReadPairs(s)[i + 1] = ReadPair(s, ReadPairs(s)[i], i + 1)
      /\ ReadPairs(s)[i + 2] = ReadPair(s, ReadPairs(s)[i + 1], i + 2)
  <2>1. i \in 0..35 /\ i + 1 \in 0..35 /\ (i + 1) + 1 = i + 2
    OBVIOUS
  <2>2. ReadPairs(s)[(i + 1) + 1] = ReadPair(s, ReadPairs(s)[i + 1], (i + 1) + 1)
    BY <2>1, NextPair, Zenon
  <2> QED
    BY <2>1, <2>2, NextPair, Zenon
<1>2. PairsReadSo(ReadPair(s, ReadPair(s, ReadPairs(s)[i], i + 1), i + 2), d, i + 2, k + 1)
  <2>1. \A j \in 1..(k + 1) : d[j] \in Byte
    OBVIOUS
  <2>2. i \in Nat /\ k \in Nat /\ i + 2 <= 36 /\ 36 \in Nat
    OBVIOUS
  <2> QED
    BY <2>1, <2>2, PairTaken DEF ReadAt
<1> QED
  BY <1>1, <1>2 DEF ReadAt

(* A group of n pairs between two dashes.                                  *)
LEMMA GroupRead ==
    ASSUME NEW s, Len(s) = 36, NEW d \in [1..16 -> Byte], NEW h, Printed(h, d),
           NEW at \in 0..36, NEW k \in 0..16, NEW n \in 1..16, at + 2 * n <= 36, k + n <= 16,
           ReadAt(s, d, at, k), Placed(s, at, h, 2 * k, 2 * n)
    PROVE  ReadAt(s, d, at + 2 * n, k + n)
<1> DEFINE T == {m \in Nat : m <= n => ReadAt(s, d, at + 2 * m, k + m)}
<1>1. 0 \in T
  <2>1. at + 2 * 0 = at /\ k + 0 = k
    OBVIOUS
  <2> QED
    BY <2>1
<1>2. ASSUME NEW m \in Nat, m \in T PROVE m + 1 \in T
  <2> SUFFICES ASSUME m + 1 <= n PROVE ReadAt(s, d, at + 2 * (m + 1), k + (m + 1))
    OBVIOUS
  <2> DEFINE i == at + 2 * m
             j == k + m
  <2>1. ReadAt(s, d, i, j)
    BY <1>2
  <2>2. /\ i \in 0..34 /\ j \in 0..15 /\ i + 2 = at + 2 * (m + 1) /\ j + 1 = k + (m + 1)
        /\ i + 1 = at + (2 * m + 1) /\ i + 2 = at + (2 * m + 2)
        /\ 2 * m + 1 \in 1..(2 * n) /\ 2 * m + 2 \in 1..(2 * n)
        /\ 2 * k + (2 * m + 1) = 2 * (j + 1) - 1 /\ 2 * k + (2 * m + 2) = 2 * (j + 1)
        /\ j + 1 \in 1..16
    OBVIOUS
  <2>3. /\ s[at + (2 * m + 1)] = h[2 * k + (2 * m + 1)]
        /\ s[at + (2 * m + 2)] = h[2 * k + (2 * m + 2)]
    BY <2>2 DEF Placed
  <2> HIDE DEF i, j
  <2>4. h[2 * (j + 1) - 1] = HexDigit(d[j + 1] \div 16) /\ h[2 * (j + 1)] = HexDigit(d[j + 1] % 16)
    BY <2>2 DEF Printed
  <2>5. s[i + 1] = h[2 * (j + 1) - 1] /\ s[i + 2] = h[2 * (j + 1)]
    BY <2>2, <2>3
  <2>6. DigitsAt(s, i, d[j + 1])
    BY <2>4, <2>5, Zenon DEF DigitsAt
  <2>7. ReadAt(s, d, i + 2, j + 1)
    BY <2>1, <2>2, <2>6, PairRead
  <2> QED
    BY <2>2, <2>7
<1> HIDE DEF T
<1>3. \A m \in Nat : m \in T
  BY <1>1, <1>2, Reaches
<1> QED
  BY <1>3 DEF T

(* An identifier as it is printed, a piece after the other.                *)
IsPiece(q, h, from, n) ==
    q \in ByteSeq /\ Len(q) = n /\ \A i \in 1..n : q[i] = h[from + i]

(* A sequence of m characters, and n more behind it.                       *)
IsJoin(q, a, m, b, n) ==
    /\ q \in ByteSeq /\ Len(q) = m + n
    /\ \A i \in 1..m : q[i] = a[i]
    /\ \A i \in 1..n : q[m + i] = b[i]

(* Characters first to last are the n behind the first from.               *)
Spans(h, first, last, from, n) ==
    from \in Nat /\ n \in Nat /\ first = from + 1 /\ last = from + n /\ last <= Len(h)

(* A piece is a SubSeq.                                                    *)
LEMMA PieceOf ==
    ASSUME NEW h \in ByteSeq, NEW first, NEW last, NEW from, NEW n, Spans(h, first, last, from, n)
    PROVE  IsPiece(SubSeq(h, first, last), h, from, n)
<1>1. /\ first \in Nat /\ last \in Nat /\ 1 <= first /\ first <= last + 1 /\ last - first + 1 = n
      /\ from \in Nat /\ n \in Nat /\ first = from + 1 /\ last <= Len(h)
  BY DEF Spans
<1>2. /\ SubSeq(h, first, last) \in ByteSeq /\ Len(SubSeq(h, first, last)) = last - first + 1
      /\ \A i \in 1..(last - first + 1) : SubSeq(h, first, last)[i] = h[first + i - 1]
  BY <1>1, PieceIs
<1>3. \A i \in 1..n : first + i - 1 = from + i
  BY <1>1
<1> QED
  BY <1>1, <1>2, <1>3 DEF IsPiece

(* A longer text is a concatenation.                                       *)
LEMMA JoinOf ==
    ASSUME NEW m \in Nat, NEW n \in Nat,
           NEW a \in ByteSeq, NEW b \in ByteSeq, Len(a) = m, Len(b) = n
    PROVE  IsJoin(a \o b, a, m, b, n)
<1>1. /\ a \o b \in ByteSeq /\ Len(a \o b) = Len(a) + Len(b)
      /\ \A i \in 1..Len(a) : (a \o b)[i] = a[i]
      /\ \A i \in 1..Len(b) : (a \o b)[Len(a) + i] = b[i]
  BY Joined DEF ByteSeq
<1> QED
  BY <1>1 DEF IsJoin

(* An identifier as it is printed: the digits h with dashes between them.  *)
Dashed(h) ==
    SubSeq(h, 1, 8) \o <<Dash>> \o SubSeq(h, 9, 12) \o <<Dash>> \o
    SubSeq(h, 13, 16) \o <<Dash>> \o SubSeq(h, 17, 20) \o <<Dash>> \o SubSeq(h, 21, 32)

HasDashes(s, h) ==
    /\ Len(s) = 36
    /\ s[9] = Dash /\ s[14] = Dash /\ s[19] = Dash /\ s[24] = Dash
    /\ Placed(s, 0, h, 0, 8) /\ Placed(s, 9, h, 8, 4) /\ Placed(s, 14, h, 12, 4)
    /\ Placed(s, 19, h, 16, 4) /\ Placed(s, 24, h, 20, 12)

(* Where the digits and the dashes of an identifier stand.                 *)
LEMMA UuidIsPrinted ==
    ASSUME NEW h \in ByteSeq, Len(h) = 32, NEW s,
           s = Dashed(h)
    PROVE  HasDashes(s, h)
<1> DEFINE dash == <<Dash>>
           p1 == SubSeq(h, 1, 8)
           p2 == SubSeq(h, 9, 12)
           p3 == SubSeq(h, 13, 16)
           p4 == SubSeq(h, 17, 20)
           p5 == SubSeq(h, 21, 32)
<1>1. p1 \in ByteSeq /\ Len(p1) = 8 /\ \A i \in 1..8 : p1[i] = h[0 + i]
  <2>1. IsPiece(SubSeq(h, 1, 8), h, 0, 8)
    <3>1. Spans(h, 1, 8, 0, 8)
      BY DEF Spans
    <3> QED
      BY <3>1, PieceOf
  <2> QED
    BY <2>1 DEF IsPiece
<1>2. p2 \in ByteSeq /\ Len(p2) = 4 /\ \A i \in 1..4 : p2[i] = h[8 + i]
  <2>1. IsPiece(SubSeq(h, 9, 12), h, 8, 4)
    <3>1. Spans(h, 9, 12, 8, 4)
      BY DEF Spans
    <3> QED
      BY <3>1, PieceOf
  <2> QED
    BY <2>1 DEF IsPiece
<1>3. p3 \in ByteSeq /\ Len(p3) = 4 /\ \A i \in 1..4 : p3[i] = h[12 + i]
  <2>1. IsPiece(SubSeq(h, 13, 16), h, 12, 4)
    <3>1. Spans(h, 13, 16, 12, 4)
      BY DEF Spans
    <3> QED
      BY <3>1, PieceOf
  <2> QED
    BY <2>1 DEF IsPiece
<1>4. p4 \in ByteSeq /\ Len(p4) = 4 /\ \A i \in 1..4 : p4[i] = h[16 + i]
  <2>1. IsPiece(SubSeq(h, 17, 20), h, 16, 4)
    <3>1. Spans(h, 17, 20, 16, 4)
      BY DEF Spans
    <3> QED
      BY <3>1, PieceOf
  <2> QED
    BY <2>1 DEF IsPiece
<1>5. p5 \in ByteSeq /\ Len(p5) = 12 /\ \A i \in 1..12 : p5[i] = h[20 + i]
  <2>1. IsPiece(SubSeq(h, 21, 32), h, 20, 12)
    <3>1. Spans(h, 21, 32, 20, 12)
      BY DEF Spans
    <3> QED
      BY <3>1, PieceOf
  <2> QED
    BY <2>1 DEF IsPiece
<1>6. dash \in ByteSeq /\ Len(dash) = 1 /\ dash[1] = Dash
  BY DEF ByteSeq, Byte, Dash
<1> DEFINE q2 == p1 \o dash
           q3 == q2 \o p2
           q4 == q3 \o dash
           q5 == q4 \o p3
           q6 == q5 \o dash
           q7 == q6 \o p4
           q8 == q7 \o dash
           q9 == q8 \o p5
<1>7. s = q9
  BY DEF Dashed
<1> HIDE DEF q2, q3, q4, q5, q6, q7, q8, q9
<1> HIDE DEF dash, p1, p2, p3, p4, p5
<1>8. /\ q2 \in ByteSeq /\ Len(q2) = 9 /\ \A i \in 1..8 : q2[i] = p1[i]
      /\ \A i \in 1..1 : q2[8 + i] = dash[i]
  <2>1. IsJoin(p1 \o dash, p1, 8, dash, 1)
    BY <1>1, <1>6, JoinOf
  <2>2. IsJoin(q2, p1, 8, dash, 1)
    BY <2>1, Zenon DEF q2
  <2> QED
    BY <2>2 DEF IsJoin
<1>9. /\ q3 \in ByteSeq /\ Len(q3) = 13 /\ \A i \in 1..9 : q3[i] = q2[i]
      /\ \A i \in 1..4 : q3[9 + i] = p2[i]
  <2>1. IsJoin(q2 \o p2, q2, 9, p2, 4)
    BY <1>8, <1>2, JoinOf
  <2>2. IsJoin(q3, q2, 9, p2, 4)
    BY <2>1, Zenon DEF q3
  <2> QED
    BY <2>2 DEF IsJoin
<1>10. /\ q4 \in ByteSeq /\ Len(q4) = 14 /\ \A i \in 1..13 : q4[i] = q3[i]
      /\ \A i \in 1..1 : q4[13 + i] = dash[i]
  <2>1. IsJoin(q3 \o dash, q3, 13, dash, 1)
    BY <1>9, <1>6, JoinOf
  <2>2. IsJoin(q4, q3, 13, dash, 1)
    BY <2>1, Zenon DEF q4
  <2> QED
    BY <2>2 DEF IsJoin
<1>11. /\ q5 \in ByteSeq /\ Len(q5) = 18 /\ \A i \in 1..14 : q5[i] = q4[i]
      /\ \A i \in 1..4 : q5[14 + i] = p3[i]
  <2>1. IsJoin(q4 \o p3, q4, 14, p3, 4)
    BY <1>10, <1>3, JoinOf
  <2>2. IsJoin(q5, q4, 14, p3, 4)
    BY <2>1, Zenon DEF q5
  <2> QED
    BY <2>2 DEF IsJoin
<1>12. /\ q6 \in ByteSeq /\ Len(q6) = 19 /\ \A i \in 1..18 : q6[i] = q5[i]
      /\ \A i \in 1..1 : q6[18 + i] = dash[i]
  <2>1. IsJoin(q5 \o dash, q5, 18, dash, 1)
    BY <1>11, <1>6, JoinOf
  <2>2. IsJoin(q6, q5, 18, dash, 1)
    BY <2>1, Zenon DEF q6
  <2> QED
    BY <2>2 DEF IsJoin
<1>13. /\ q7 \in ByteSeq /\ Len(q7) = 23 /\ \A i \in 1..19 : q7[i] = q6[i]
      /\ \A i \in 1..4 : q7[19 + i] = p4[i]
  <2>1. IsJoin(q6 \o p4, q6, 19, p4, 4)
    BY <1>12, <1>4, JoinOf
  <2>2. IsJoin(q7, q6, 19, p4, 4)
    BY <2>1, Zenon DEF q7
  <2> QED
    BY <2>2 DEF IsJoin
<1>14. /\ q8 \in ByteSeq /\ Len(q8) = 24 /\ \A i \in 1..23 : q8[i] = q7[i]
      /\ \A i \in 1..1 : q8[23 + i] = dash[i]
  <2>1. IsJoin(q7 \o dash, q7, 23, dash, 1)
    BY <1>13, <1>6, JoinOf
  <2>2. IsJoin(q8, q7, 23, dash, 1)
    BY <2>1, Zenon DEF q8
  <2> QED
    BY <2>2 DEF IsJoin
<1>15. /\ q9 \in ByteSeq /\ Len(q9) = 36 /\ \A i \in 1..24 : q9[i] = q8[i]
      /\ \A i \in 1..12 : q9[24 + i] = p5[i]
  <2>1. IsJoin(q8 \o p5, q8, 24, p5, 12)
    BY <1>14, <1>5, JoinOf
  <2>2. IsJoin(q9, q8, 24, p5, 12)
    BY <2>1, Zenon DEF q9
  <2> QED
    BY <2>2 DEF IsJoin
<1>16. s[9] = Dash /\ s[14] = Dash /\ s[19] = Dash /\ s[24] = Dash
  <2>1. q2[9] = Dash /\ q4[14] = Dash /\ q6[19] = Dash /\ q8[24] = Dash
    BY <1>6, <1>8, <1>10, <1>12, <1>14
  <2>2. /\ q9[9] = q2[9] /\ q9[14] = q4[14] /\ q9[19] = q6[19] /\ q9[24] = q8[24]
    BY <1>9, <1>10, <1>11, <1>12, <1>13, <1>14, <1>15
  <2> QED
    BY <1>7, <2>1, <2>2
<1>17. \A i \in 1..8 : s[0 + i] = h[0 + i]
  BY <1>1, <1>7, <1>8, <1>9, <1>10, <1>11, <1>12, <1>13, <1>14, <1>15
<1>18. \A i \in 1..4 : s[9 + i] = h[8 + i]
  BY <1>2, <1>7, <1>9, <1>10, <1>11, <1>12, <1>13, <1>14, <1>15
<1>19. \A i \in 1..4 : s[14 + i] = h[12 + i]
  BY <1>3, <1>7, <1>11, <1>12, <1>13, <1>14, <1>15
<1>20. \A i \in 1..4 : s[19 + i] = h[16 + i]
  BY <1>4, <1>7, <1>13, <1>14, <1>15
<1>21. \A i \in 1..12 : s[24 + i] = h[20 + i]
  BY <1>5, <1>7, <1>15
<1> QED
  BY <1>7, <1>15, <1>16, <1>17, <1>18, <1>19, <1>20, <1>21 DEF Placed, HasDashes

(* The same with the places computed: n pairs from place at, byte k, whose *)
(* digits are the len behind from, lead to place at2 and byte k2.          *)
Moves(at, k, n, from, len, at2, k2) ==
    /\ at \in 0..36 /\ k \in 0..16 /\ n \in 1..16 /\ at + 2 * n <= 36 /\ k + n <= 16
    /\ from = 2 * k /\ len = 2 * n /\ at2 = at + 2 * n /\ k2 = k + n

LEMMA GroupMoves ==
    ASSUME NEW s, Len(s) = 36, NEW d \in [1..16 -> Byte], NEW h, Printed(h, d),
           NEW at, NEW k, NEW n, NEW from, NEW len, NEW at2, NEW k2,
           Moves(at, k, n, from, len, at2, k2), ReadAt(s, d, at, k), Placed(s, at, h, from, len)
    PROVE  ReadAt(s, d, at2, k2)
<1>1. ReadAt(s, d, at + 2 * n, k + n)
  BY GroupRead DEF Moves
<1> QED
  BY <1>1 DEF Moves

(* A valid identifier is read as it was printed.                           *)
LEMMA UuidReadsBack ==
    ASSUME NEW d \in [1..16 -> Byte], ValidV4(d)
    PROVE  UuidFromString(UuidToString(d)) = d
<1> DEFINE h == EncodeHex(d)
           s == UuidToString(d)
           read == ReadPairs(s)[36]
           data == [i \in 1..16 |-> IF i <= Len(read.data) THEN read.data[i] ELSE 0]
<1>1. Printed(h, d)
  BY HexIsPrinted
<1>2. s = Dashed(h)
  BY DEF UuidToString, Dashed
<1> HIDE DEF h, s
<1>3. h \in ByteSeq /\ Len(h) = 32
  BY <1>1 DEF Printed
<1>4. /\ Len(s) = 36
      /\ s[9] = Dash /\ s[14] = Dash /\ s[19] = Dash /\ s[24] = Dash
      /\ Placed(s, 0, h, 0, 8) /\ Placed(s, 9, h, 8, 4) /\ Placed(s, 14, h, 12, 4)
      /\ Placed(s, 19, h, 16, 4) /\ Placed(s, 24, h, 20, 12)
  BY <1>2, <1>3, UuidIsPrinted DEF HasDashes
<1>5. ReadAt(s, d, 0, 0)
  <2>1. ReadPairs(s)[0] = PairStart
    BY <1>4, 36 \in Nat, PairsRead
  <2>2. PairStart.bad = FALSE /\ PairStart.next = 1 /\ PairStart.data = [j \in 1..0 |-> d[j]]
    BY DEF PairStart
  <2> QED
    BY <2>1, <2>2 DEF ReadAt, PairsReadSo
<1>6. ReadAt(s, d, 8, 4)
  <2>1. Moves(0, 0, 4, 0, 8, 8, 4)
    BY DEF Moves
  <2> QED
    BY <1>1, <1>4, <1>5, <2>1, GroupMoves
<1>7. ReadAt(s, d, 9, 4)
  <2>1. ReadAt(s, d, 8 + 1, 4)
    BY <1>4, <1>6, 8 + 1 = 9, DashRead
  <2> QED
    BY <2>1
<1>8. ReadAt(s, d, 13, 6)
  <2>1. Moves(9, 4, 2, 8, 4, 13, 6)
    BY DEF Moves
  <2> QED
    BY <1>1, <1>4, <1>7, <2>1, GroupMoves
<1>9. ReadAt(s, d, 14, 6)
  <2>1. ReadAt(s, d, 13 + 1, 6)
    BY <1>4, <1>8, 13 + 1 = 14, DashRead
  <2> QED
    BY <2>1
<1>10. ReadAt(s, d, 18, 8)
  <2>1. Moves(14, 6, 2, 12, 4, 18, 8)
    BY DEF Moves
  <2> QED
    BY <1>1, <1>4, <1>9, <2>1, GroupMoves
<1>11. ReadAt(s, d, 19, 8)
  <2>1. ReadAt(s, d, 18 + 1, 8)
    BY <1>4, <1>10, 18 + 1 = 19, DashRead
  <2> QED
    BY <2>1
<1>12. ReadAt(s, d, 23, 10)
  <2>1. Moves(19, 8, 2, 16, 4, 23, 10)
    BY DEF Moves
  <2> QED
    BY <1>1, <1>4, <1>11, <2>1, GroupMoves
<1>13. ReadAt(s, d, 24, 10)
  <2>1. ReadAt(s, d, 23 + 1, 10)
    BY <1>4, <1>12, 23 + 1 = 24, DashRead
  <2> QED
    BY <2>1
<1>14. ReadAt(s, d, 36, 16)
  <2>1. Moves(24, 10, 6, 20, 12, 36, 16)
    BY DEF Moves
  <2> QED
    BY <1>1, <1>4, <1>13, <2>1, GroupMoves
<1>15. read.bad = FALSE /\ read.data = [j \in 1..16 |-> d[j]]
  BY <1>14 DEF ReadAt, PairsReadSo
<1> HIDE DEF read
<1>16. data = d
  <2>1. [j \in 1..16 |-> d[j]] = d
    OBVIOUS
  <2>2. read.data = d /\ Len(d) = 16
    BY <1>15, <2>1
  <2>3. data = [i \in 1..16 |-> d[i]]
    BY <2>2
  <2> QED
    BY <2>1, <2>3
<1>17. ~(\E i \in {9, 14, 19, 24} : s[i] # Dash)
  BY <1>4
<1> HIDE DEF data
<1>18. ValidV4(data)
  BY <1>16
<1>19. UuidFromString(s) = data
  BY <1>4, <1>15, <1>17, <1>18, Zenon DEF UuidFromString, read, data
<1> QED
  BY <1>16, <1>19 DEF s

(* A new identifier is valid, and not the null one.                        *)
LEMMA GeneratedIsValid ==
    ASSUME NEW random \in [1..16 -> Byte]
    PROVE  /\ Generate(random) \in [1..16 -> Byte] /\ ValidV4(Generate(random))
           /\ Generate(random) # NullUuid
<1> DEFINE seventh == (random[7] % 16) + 64
           ninth == (random[9] % 64) + 128
           id == Generate(random)
<1>1. seventh \in Byte /\ seventh \div 16 = 4 /\ seventh # 0
  <2>1. \A x \in Nat : x % 16 \in 0..15
    OBVIOUS
  <2>2. random[7] \in Nat
    BY DEF Byte
  <2>3. random[7] % 16 \in 0..15
    BY <2>1, <2>2
  <2> QED
    BY <2>3 DEF Byte
<1>2. ninth \in Byte /\ ninth \div 64 = 2
  <2>1. \A x \in Nat : x % 64 \in 0..63
    OBVIOUS
  <2>2. random[9] \in Nat
    BY DEF Byte
  <2>3. random[9] % 64 \in 0..63
    BY <2>1, <2>2
  <2> QED
    BY <2>3 DEF Byte
<1>3. id = [random EXCEPT ![7] = seventh, ![9] = ninth]
  BY DEF Generate
<1> HIDE DEF seventh, ninth, id
<1>4. id \in [1..16 -> Byte] /\ id[7] = seventh /\ id[9] = ninth
  BY <1>1, <1>2, <1>3
<1>5. id # NullUuid
  <2>1. NullUuid[7] = 0
    BY DEF NullUuid
  <2> QED
    BY <1>1, <1>4, <2>1
<1>6. ValidV4(id)
  BY <1>1, <1>2, <1>4, Zenon DEF ValidV4
<1> QED
  BY <1>4, <1>5, <1>6 DEF id

-----------------------------------------------------------------------------
(***************************************************************************)
(* One-time passwords.                                                     *)
(***************************************************************************)
(* A byte is the sum of its bits, its remainders of the last ones.         *)
LEMMA ByteSplits ==
    ASSUME NEW v \in Byte
    PROVE  /\ v \div 128 \in Int /\ v \div 64 \in Int /\ v \div 32 \in Int /\ v \div 16 \in Int
           /\ v \div 8 \in Int /\ v \div 4 \in Int /\ v \div 2 \in Int
           /\ (v \div 128) % 2 = v \div 128
           /\ v % 128 = v - 128 * (v \div 128) /\ v % 16 = v - 16 * (v \div 16)
<1>0. v \in Nat /\ v \in 0..255
  BY DEF Byte
<1>1. /\ v \div 128 \in Int /\ v \div 64 \in Int /\ v \div 32 \in Int /\ v \div 16 \in Int
      /\ v \div 8 \in Int /\ v \div 4 \in Int /\ v \div 2 \in Int
  BY <1>0
<1>2. (v \div 128) % 2 = v \div 128
  BY <1>0
<1>3. \A n \in Nat : n % 128 = n - 128 * (n \div 128)
  OBVIOUS
<1>4. \A n \in Nat : n % 16 = n - 16 * (n \div 16)
  OBVIOUS
<1> QED
  BY <1>0, <1>1, <1>2, <1>3, <1>4

(* The sums of its eight bits, of seven and of four.                       *)
LEMMA BitsAddUp ==
    ASSUME NEW v \in Byte
    PROVE  /\ Eight((v \div 128) % 2, (v \div 64) % 2, (v \div 32) % 2, (v \div 16) % 2,
                    (v \div 8) % 2, (v \div 4) % 2, (v \div 2) % 2, (v \div 1) % 2) = v
           /\ Eight(0, (v \div 64) % 2, (v \div 32) % 2, (v \div 16) % 2,
                    (v \div 8) % 2, (v \div 4) % 2, (v \div 2) % 2, (v \div 1) % 2) = v % 128
           /\ Eight(0, 0, 0, 0,
                    (v \div 8) % 2, (v \div 4) % 2, (v \div 2) % 2, (v \div 1) % 2) = v % 16
<1> DEFINE Bit(p) == (v \div p) % 2
<1>1. /\ v \div 128 \in Int /\ v \div 64 \in Int /\ v \div 32 \in Int /\ v \div 16 \in Int
      /\ v \div 8 \in Int /\ v \div 4 \in Int /\ v \div 2 \in Int /\ v \in Int
      /\ v % 128 = v - 128 * (v \div 128) /\ v % 16 = v - 16 * (v \div 16)
  <2>1. v \in Int
    BY DEF Byte
  <2> QED
    BY <2>1, ByteSplits
<1>2. /\ Bit(128) = v \div 128
      /\ Bit(64) = (v \div 64) - 2 * (v \div 128)
      /\ Bit(32) = (v \div 32) - 2 * (v \div 64)
      /\ Bit(16) = (v \div 16) - 2 * (v \div 32)
      /\ Bit(8) = (v \div 8) - 2 * (v \div 16)
      /\ Bit(4) = (v \div 4) - 2 * (v \div 8)
      /\ Bit(2) = (v \div 2) - 2 * (v \div 4)
      /\ Bit(1) = v - 2 * (v \div 2)
  <2>1. v \in Nat
    BY DEF Byte
  <2>2. (v \div 128) % 2 = v \div 128
    BY ByteSplits
  <2> QED
    BY <2>1, <2>2, Halves
<1> HIDE DEF Bit
<1>3. 128 * Bit(128) + 64 * Bit(64) + 32 * Bit(32) + 16 * Bit(16) + 8 * Bit(8) + 4 * Bit(4)
        + 2 * Bit(2) + Bit(1) = v
  BY <1>1, <1>2
<1>4. 128 * 0 + 64 * Bit(64) + 32 * Bit(32) + 16 * Bit(16) + 8 * Bit(8) + 4 * Bit(4)
        + 2 * Bit(2) + Bit(1) = v % 128
  <2>1. 128 * 0 + 64 * Bit(64) + 32 * Bit(32) + 16 * Bit(16) + 8 * Bit(8) + 4 * Bit(4)
          + 2 * Bit(2) + Bit(1) = v - 128 * (v \div 128)
    BY <1>1, <1>2
  <2> QED
    BY <1>1, <2>1
<1>5. 128 * 0 + 64 * 0 + 32 * 0 + 16 * 0 + 8 * Bit(8) + 4 * Bit(4)
        + 2 * Bit(2) + Bit(1) = v % 16
  <2>1. 128 * 0 + 64 * 0 + 32 * 0 + 16 * 0 + 8 * Bit(8) + 4 * Bit(4)
          + 2 * Bit(2) + Bit(1) = v - 16 * (v \div 16)
    BY <1>1, <1>2
  <2> QED
    BY <1>1, <2>1
<1> QED
  BY <1>3, <1>4, <1>5, Zenon DEF Bit, Eight

(* The bits of a hash, and its bytes from them.                            *)
LEMMA BitsAreBytes ==
    ASSUME NEW hash \in ByteSeq
    PROVE  BitsOf(hash, 8) \in ByteSeq /\ Len(BitsOf(hash, 8)) = 8 * Len(hash)
<1> DEFINE n == Len(hash)
           Bit(i) == (hash[1 + (i - 1) \div 8] \div 2^(8 - 1 - ((i - 1) % 8))) % 2
<1>1. n \in Nat /\ \A q \in 1..n : hash[q] \in Byte
  BY DEF ByteSeq
<1> HIDE DEF n
<1>2. ASSUME NEW i \in 1..(8 * n) PROVE Bit(i) \in Byte
  <2>1. 1 + (i - 1) \div 8 \in 1..n
    BY <1>1
  <2>2. 8 - 1 - ((i - 1) % 8) \in 0..7
    BY <1>1
  <2>3. \A k \in 0..7 : IsPower(2^k)
    BY PowerIsOneOf, Zenon
  <2>4. \A v \in Byte : \A p : IsPower(p) => (v \div p) % 2 \in Byte
    <3>1. \A m \in Nat : m % 2 \in Byte
      BY DEF Byte
    <3>2. \A v \in Nat : \A p : IsPower(p) => v \div p \in Nat
      BY DEF IsPower
    <3>3. \A v \in Byte : v \in Nat
      BY DEF Byte
    <3> QED
      BY <3>1, <3>2, <3>3
  <2> DEFINE k == 8 - 1 - ((i - 1) % 8)
             q == 1 + (i - 1) \div 8
  <2>5. hash[q] \in Byte /\ IsPower(2^k)
    <3>1. q \in 1..n /\ k \in 0..7
      BY <2>1, <2>2
    <3> HIDE DEF q, k
    <3> QED
      BY <1>1, <2>3, <3>1, Zenon
  <2> HIDE DEF q, k
  <2>6. (hash[q] \div 2^k) % 2 \in Byte
    BY <2>4, <2>5
  <2> QED
    BY <2>6, Zenon DEF q, k
<1>3. BitsOf(hash, 8) = [i \in 1..(8 * n) |-> Bit(i)]
  BY DEF BitsOf, n
<1> HIDE DEF Bit
<1>4. BitsOf(hash, 8) \in [1..(8 * n) -> Byte] /\ Len(BitsOf(hash, 8)) = 8 * n
  BY <1>1, <1>2, <1>3
<1>5. BitsOf(hash, 8) \in ByteSeq
  <2>1. \A m \in Nat : \A b \in [1..m -> Byte] : b \in Seq(Byte)
    OBVIOUS
  <2>2. 8 * n \in Nat
    BY <1>1
  <2> QED
    BY <1>4, <2>1, <2>2, Zenon DEF ByteSeq
<1> QED
  BY <1>4, <1>5 DEF n

(* Behind at stand the bits of a byte: itself, its last seven, its last    *)
(* four.                                                                   *)
HoldsByte(bits, at, v) ==
    /\ ByteAt(bits, at) = v
    /\ Eight(0, bits[at + 2], bits[at + 3], bits[at + 4],
             bits[at + 5], bits[at + 6], bits[at + 7], bits[at + 8]) = v % 128
    /\ Eight(0, 0, 0, 0,
             bits[at + 5], bits[at + 6], bits[at + 7], bits[at + 8]) = v % 16

(* Byte q of a hash stands behind the bits of those before it.             *)
IsPlaceOf(at, q, hash) == q \in 1..Len(hash) /\ at = 8 * (q - 1)

(* There its bits are.                                                     *)
LEMMA HashBits ==
    ASSUME NEW hash \in ByteSeq, NEW q, NEW at, IsPlaceOf(at, q, hash)
    PROVE  HoldsByte(BitsOf(hash, 8), at, hash[q])
<1> DEFINE v == hash[q]
           bits == BitsOf(hash, 8)
<1>0. q \in 1..Len(hash) /\ at = 8 * (q - 1)
  BY DEF IsPlaceOf
<1>1. v \in Byte /\ Len(hash) \in Nat
  BY <1>0 DEF ByteSeq
<1>2. /\ bits[at + 1] = (v \div 128) % 2 /\ bits[at + 2] = (v \div 64) % 2
      /\ bits[at + 3] = (v \div 32) % 2 /\ bits[at + 4] = (v \div 16) % 2
      /\ bits[at + 5] = (v \div 8) % 2 /\ bits[at + 6] = (v \div 4) % 2
      /\ bits[at + 7] = (v \div 2) % 2 /\ bits[at + 8] = (v \div 1) % 2
  <2>1. LET b == BitsOf(hash, 8)  w == hash[q]  i == 8 * (q - 1) IN
        /\ b[i + 1] = (w \div 128) % 2 /\ b[i + 2] = (w \div 64) % 2
        /\ b[i + 3] = (w \div 32) % 2 /\ b[i + 4] = (w \div 16) % 2
        /\ b[i + 5] = (w \div 8) % 2 /\ b[i + 6] = (w \div 4) % 2
        /\ b[i + 7] = (w \div 2) % 2 /\ b[i + 8] = (w \div 1) % 2
    BY <1>0, <1>1, EightBits, Zenon
  <2> QED
    BY <1>0, <2>1
<1> HIDE DEF v, bits
<1>3. /\ Eight((v \div 128) % 2, (v \div 64) % 2, (v \div 32) % 2, (v \div 16) % 2,
               (v \div 8) % 2, (v \div 4) % 2, (v \div 2) % 2, (v \div 1) % 2) = v
      /\ Eight(0, (v \div 64) % 2, (v \div 32) % 2, (v \div 16) % 2,
               (v \div 8) % 2, (v \div 4) % 2, (v \div 2) % 2, (v \div 1) % 2) = v % 128
      /\ Eight(0, 0, 0, 0,
               (v \div 8) % 2, (v \div 4) % 2, (v \div 2) % 2, (v \div 1) % 2) = v % 16
  BY <1>1, BitsAddUp
<1>4. ByteAt(bits, at) = v
  BY <1>2, <1>3, Zenon DEF ByteAt
<1>5. /\ Eight(0, bits[at + 2], bits[at + 3], bits[at + 4],
               bits[at + 5], bits[at + 6], bits[at + 7], bits[at + 8]) = v % 128
      /\ Eight(0, 0, 0, 0,
               bits[at + 5], bits[at + 6], bits[at + 7], bits[at + 8]) = v % 16
  BY <1>2, <1>3, Zenon
<1> QED
  BY <1>4, <1>5, Zenon DEF v, bits, HoldsByte

(* A byte of a text of bits behind which a piece of bits stands.           *)
IsByteOf(b, j, c, i) == b[j] = ByteAt(c, i)

(* The bytes of a text of bits.                                            *)
LEMMA ByteOfText ==
    ASSUME NEW c, NEW n \in Nat, Len(c) = 8 * n, NEW j \in 1..n, NEW i, i = 8 * (j - 1)
    PROVE  IsByteOf(BytesOf(c), j, c, i)
<1>1. j \in 1..(Len(c) \div 8)
  OBVIOUS
<1> QED
  BY <1>1, ByteOfBits DEF IsByteOf

(* The last four bits of the hash.                                         *)
LEMMA OffsetIs ==
    ASSUME NEW hash \in ByteSeq, Len(hash) = 20
    PROVE  BytesOf(<<0, 0, 0, 0>> \o SubSeq(BitsOf(hash, 8), 157, 160))[1] = hash[20] % 16
<1> DEFINE bits == BitsOf(hash, 8)
           zeros == <<0, 0, 0, 0>>
           last == SubSeq(bits, 157, 160)
           c == zeros \o last
<1>1. bits \in ByteSeq /\ Len(bits) = 160
  <2>1. bits \in ByteSeq /\ Len(bits) = 8 * Len(hash)
    BY BitsAreBytes, Zenon
  <2> QED
    BY <2>1
<1>2. zeros \in ByteSeq /\ Len(zeros) = 4 /\ \A i \in 1..4 : zeros[i] = 0
  BY DEF ByteSeq, Byte
<1> HIDE DEF bits, zeros
<1>3. IsPiece(last, bits, 156, 4)
  <2>1. Spans(bits, 157, 160, 156, 4)
    BY <1>1, SMT DEF Spans
  <2> QED
    BY <1>1, <2>1, PieceOf, SMT
<1> HIDE DEF last
<1>4. IsJoin(c, zeros, 4, last, 4)
  <2>1. last \in ByteSeq /\ Len(last) = 4
    BY <1>3 DEF IsPiece
  <2> QED
    BY <1>2, <2>1, JoinOf
<1> HIDE DEF c
<1>5. /\ Len(c) = 8 /\ c[1] = 0 /\ c[2] = 0 /\ c[3] = 0 /\ c[4] = 0
      /\ c[5] = bits[157] /\ c[6] = bits[158] /\ c[7] = bits[159] /\ c[8] = bits[160]
  BY <1>2, <1>3, <1>4 DEF IsPiece, IsJoin
<1>6. BytesOf(c)[1] = ByteAt(c, 0)
  <2>1. Len(c) = 8 * 1 /\ 1 \in Nat /\ 1 \in 1..1 /\ 0 = 8 * (1 - 1)
    BY <1>5
  <2>2. IsByteOf(BytesOf(c), 1, c, 0)
    BY <2>1, ByteOfText, Zenon
  <2> QED
    BY <2>2 DEF IsByteOf
<1>7. ByteAt(c, 0) = Eight(0, 0, 0, 0, bits[157], bits[158], bits[159], bits[160])
  <2>1. /\ c[0 + 1] = 0 /\ c[0 + 2] = 0 /\ c[0 + 3] = 0 /\ c[0 + 4] = 0
        /\ c[0 + 5] = bits[157] /\ c[0 + 6] = bits[158] /\ c[0 + 7] = bits[159] /\ c[0 + 8] = bits[160]
    BY <1>5
  <2> QED
    BY <2>1, Zenon DEF ByteAt
<1>8. Eight(0, 0, 0, 0, bits[157], bits[158], bits[159], bits[160]) = hash[20] % 16
  <2>1. IsPlaceOf(152, 20, hash)
    BY DEF IsPlaceOf
  <2>4. HoldsByte(bits, 152, hash[20])
    BY <2>1, HashBits DEF bits
  <2>2. Eight(0, 0, 0, 0, bits[152 + 5], bits[152 + 6], bits[152 + 7], bits[152 + 8]) = hash[20] % 16
    BY <2>4 DEF HoldsByte
  <2>3. 152 + 5 = 157 /\ 152 + 6 = 158 /\ 152 + 7 = 159 /\ 152 + 8 = 160
    OBVIOUS
  <2> QED
    BY <2>2, <2>3
<1> QED
  BY <1>6, <1>7, <1>8, Zenon DEF c, last, zeros, bits

(* The four bytes that start where those say, without the first bit.       *)
LEMMA CodeIs ==
    ASSUME NEW hash \in ByteSeq, Len(hash) = 20, NEW o \in 0..15, NEW code,
           code = BytesOf(<< 0 >> \o SubSeq(BitsOf(hash, 8), 8 * o + 2, 8 * o + 32))
    PROVE  /\ code[1] = hash[o + 1] % 128 /\ code[2] = hash[o + 2]
           /\ code[3] = hash[o + 3] /\ code[4] = hash[o + 4]
<1> DEFINE bits == BitsOf(hash, 8)
           zero == <<0>>
           rest == SubSeq(bits, 8 * o + 2, 8 * o + 32)
           c == zero \o rest
<1>1. bits \in ByteSeq /\ Len(bits) = 160
  <2>1. bits \in ByteSeq /\ Len(bits) = 8 * Len(hash)
    BY BitsAreBytes, Zenon
  <2> QED
    BY <2>1
<1>2. zero \in ByteSeq /\ Len(zero) = 1 /\ zero[1] = 0
  BY DEF ByteSeq, Byte
<1>3. code = BytesOf(c)
  OBVIOUS
<1> HIDE DEF bits, zero
<1>4. IsPiece(rest, bits, 8 * o + 1, 31)
  <2>1. Spans(bits, 8 * o + 2, 8 * o + 32, 8 * o + 1, 31)
    BY <1>1, SMT DEF Spans
  <2> QED
    BY <1>1, <2>1, PieceOf, SMT
<1> HIDE DEF rest
<1>5. IsJoin(c, zero, 1, rest, 31)
  <2>1. rest \in ByteSeq /\ Len(rest) = 31
    BY <1>4 DEF IsPiece
  <2> QED
    BY <1>2, <2>1, JoinOf
<1> HIDE DEF c
<1>6. Len(c) = 32 /\ c[1] = 0
  BY <1>2, <1>5 DEF IsJoin
<1>7. ASSUME NEW k \in 2..32 PROVE c[k] = bits[8 * o + k]
  <2>1. k - 1 \in 1..31 /\ 1 + (k - 1) = k /\ (8 * o + 1) + (k - 1) = 8 * o + k
    OBVIOUS
  <2>2. c[1 + (k - 1)] = rest[k - 1]
    BY <1>5, <2>1 DEF IsJoin
  <2>3. rest[k - 1] = bits[(8 * o + 1) + (k - 1)]
    BY <1>4, <2>1 DEF IsPiece
  <2> QED
    BY <2>1, <2>2, <2>3
<1>8. ASSUME NEW j \in 1..4 PROVE code[j] = ByteAt(c, 8 * (j - 1))
  <2>1. Len(c) = 8 * 4 /\ 4 \in Nat
    BY <1>6
  <2>2. IsByteOf(BytesOf(c), j, c, 8 * (j - 1))
    BY <2>1, ByteOfText, Zenon
  <2> QED
    BY <1>3, <2>2 DEF IsByteOf
<1>9. code[1] = hash[o + 1] % 128
  <2> DEFINE at == 8 * o
  <2>1. /\ c[0 + 1] = 0 /\ c[0 + 2] = bits[at + 2] /\ c[0 + 3] = bits[at + 3] /\ c[0 + 4] = bits[at + 4]
        /\ c[0 + 5] = bits[at + 5] /\ c[0 + 6] = bits[at + 6] /\ c[0 + 7] = bits[at + 7]
        /\ c[0 + 8] = bits[at + 8]
    BY <1>6, <1>7
  <2>2. IsPlaceOf(at, o + 1, hash) /\ 8 * (1 - 1) = 0 /\ 1 \in 1..4
    BY DEF IsPlaceOf
  <2> HIDE DEF at
  <2>0. HoldsByte(bits, at, hash[o + 1])
    BY <2>2, HashBits DEF bits
  <2>3. Eight(0, bits[at + 2], bits[at + 3], bits[at + 4],
              bits[at + 5], bits[at + 6], bits[at + 7], bits[at + 8]) = hash[o + 1] % 128
    BY <2>0, Zenon DEF HoldsByte
  <2>4. ByteAt(c, 0) = hash[o + 1] % 128
    BY <2>1, <2>3, Zenon DEF ByteAt
  <2> QED
    BY <1>8, <2>2, <2>4
<1>10. ASSUME NEW j \in 2..4 PROVE code[j] = hash[o + j]
  <2> DEFINE i == 8 * (j - 1)
             at == 8 * ((o + j) - 1)
  <2>1. /\ j \in 1..4 /\ o + j \in 1..Len(hash) /\ i \in Nat /\ i >= 8 /\ i <= 24 /\ at = 8 * o + i
    OBVIOUS
  <2>0. IsPlaceOf(at, o + j, hash)
    BY <2>1 DEF IsPlaceOf
  <2>6. HoldsByte(bits, at, hash[o + j])
    <3> HIDE DEF at
    <3> QED
      BY <2>0, HashBits DEF bits
  <2>2. ByteAt(bits, at) = hash[o + j]
    BY <2>6, Zenon DEF HoldsByte
  <2>3. code[j] = ByteAt(c, i)
    BY <1>8, <2>1
  <2> HIDE DEF i, at
  <2>4. ASSUME NEW k \in 1..8 PROVE c[i + k] = bits[at + k]
    <3>1. i + k \in 2..32 /\ 8 * o + (i + k) = at + k
      BY <2>1
    <3> QED
      BY <1>7, <3>1
  <2>5. ByteAt(c, i) = ByteAt(bits, at)
    <3>1. /\ c[i + 1] = bits[at + 1] /\ c[i + 2] = bits[at + 2] /\ c[i + 3] = bits[at + 3]
          /\ c[i + 4] = bits[at + 4] /\ c[i + 5] = bits[at + 5] /\ c[i + 6] = bits[at + 6]
          /\ c[i + 7] = bits[at + 7] /\ c[i + 8] = bits[at + 8]
      BY <2>4
    <3> QED
      BY <3>1, Zenon DEF ByteAt
  <2> QED
    BY <2>2, <2>3, <2>5
<1> QED
  BY <1>9, <1>10

(* So the digits are those of the bits.                                    *)
LEMMA TotpReads ==
    ASSUME NEW hash \in ByteSeq, Len(hash) = 20
    PROVE  TotpIsOfBits(hash)
<1> DEFINE offset == hash[20] % 16
           code == BytesOf(<<0>> \o SubSeq(BitsOf(hash, 8), 8 * offset + 2, 8 * offset + 32))
<1>1. BytesOf(<<0, 0, 0, 0>> \o SubSeq(BitsOf(hash, 8), 157, 160))[1] = offset
  BY OffsetIs
<1>2. offset \in 0..15
  <2>1. hash[20] \in Byte
    BY DEF ByteSeq
  <2> QED
    BY <2>1, Digits
<1> HIDE DEF offset
<1>3. /\ code[1] = hash[offset + 1] % 128 /\ code[2] = hash[offset + 2]
      /\ code[3] = hash[offset + 3] /\ code[4] = hash[offset + 4]
  BY <1>2, CodeIs
<1>4. GenerateTotp(hash) = ((hash[offset + 1] % 128) * 2^24 + hash[offset + 2] * 2^16
                              + hash[offset + 3] * 2^8 + hash[offset + 4]) % 1000000
  BY SMT DEF GenerateTotp, offset
<1>5. GenerateTotp(hash) = (code[1] * 2^24 + code[2] * 2^16 + code[3] * 2^8 + code[4]) % 1000000
  <2> HIDE DEF code
  <2> QED
    BY <1>3, <1>4, SMT
<1> QED
  BY <1>1, <1>5, SMT DEF TotpIsOfBits

-----------------------------------------------------------------------------
(***************************************************************************)
(* The codecs together.                                                    *)
(***************************************************************************)
(* What an input is: bytes, or a text.                                     *)
BytesInv == bytes \in ByteSeq
TextInv == text \in Seq(SampleChars)

(* No step leaves them: only bytes are appended, and only characters.      *)
LEMMA BytesStay ==
    CodecSpec => []BytesInv
<1>1. CodecInit => BytesInv
  BY DEF CodecInit, BytesInv, ByteSeq
<1>2. BytesInv /\ [CodecNext]_codecVars => BytesInv'
  <2> SUFFICES ASSUME BytesInv, [CodecNext]_codecVars
               PROVE  BytesInv'
    OBVIOUS
  <2>1. CASE MoreBytes
    <3>1. PICK b \in SampleBytes : bytes' = Append(bytes, b)
      BY <2>1 DEF MoreBytes
    <3>2. b \in Byte
      BY CodecAssumption DEF Byte
    <3> QED
      BY <3>1, <3>2 DEF BytesInv, ByteSeq
  <2>2. CASE MoreText
    BY <2>2 DEF MoreText, BytesInv
  <2>3. CASE UNCHANGED codecVars
    BY <2>3 DEF codecVars, BytesInv
  <2> QED
    BY <2>1, <2>2, <2>3 DEF CodecNext
<1> QED
  BY <1>1, <1>2, PTL DEF CodecSpec

(* A field of either format is read back, whether of bounded or fixed size.*)
LEMMA FieldsReadBack ==
    ASSUME NEW data \in ByteSeq
    PROVE  /\ DecodeFormat(Format(data)) = Ok(data)
           /\ DecodeFormat(FormatHex(data)) = Ok(data)
           /\ \A n \in Nat :
                /\ ReadBinArray(Format(data), n).ok <=> Len(data) = n
                /\ ReadBinVector(FormatHex(data), n, n + 1).ok <=> Len(data) \in {n, n + 1}
<1>1. DecodeFormat(Format(data)) = Ok(data)
  <2> DEFINE field == Format(data)
  <2>1. field.prefix = "b64:" /\ field.body = EncodeInto(data)
    BY DEF Format
  <2> HIDE DEF field
  <2>2. DecodeFormat(field) = DecodeInto(field.body)
    BY <2>1 DEF DecodeFormat
  <2>3. DecodeFormat(field) = Ok(data)
    BY <2>1, <2>2, Base64ReadsBack
  <2> QED
    BY <2>3 DEF field
<1>2. DecodeFormat(FormatHex(data)) = Ok(data)
  <2> DEFINE field == FormatHex(data)
  <2>1. field.prefix = "hex:" /\ field.body = EncodeHex(data)
    BY DEF FormatHex
  <2> HIDE DEF field
  <2>2. DecodeFormat(field) = DecodeHex(field.body)
    BY <2>1 DEF DecodeFormat
  <2>3. DecodeFormat(field) = Ok(data)
    BY <2>1, <2>2, HexReadsBack
  <2> QED
    BY <2>3 DEF field
<1>3. Ok(data).ok /\ Ok(data).data = data /\ ~Invalid.ok
  BY DEF Ok, Invalid
<1>4. ASSUME NEW n \in Nat
      PROVE  /\ ReadBinArray(Format(data), n).ok <=> Len(data) = n
             /\ ReadBinVector(FormatHex(data), n, n + 1).ok <=> Len(data) \in {n, n + 1}
  <2>0. Len(data) \in Nat
    BY DEF ByteSeq
  <2>1. ReadBinArray(Format(data), n) = IF Len(data) = n THEN Ok(data) ELSE Invalid
    BY <1>1, <1>3 DEF ReadBinArray
  <2>2. ReadBinVector(FormatHex(data), n, n + 1) = IF Len(data) \in n..(n + 1) THEN Ok(data) ELSE Invalid
    BY <1>2, <1>3 DEF ReadBinVector
  <2>3. ReadBinArray(Format(data), n).ok <=> Len(data) = n
    BY <1>3, <2>1
  <2>4. ReadBinVector(FormatHex(data), n, n + 1).ok <=> Len(data) \in n..(n + 1)
    BY <1>3, <2>2
  <2>5. Len(data) \in n..(n + 1) <=> Len(data) \in {n, n + 1}
    BY <2>0
  <2> QED
    BY <2>3, <2>4, <2>5
<1> QED
  BY <1>1, <1>2, <1>4

(* Whatever bytes a field, an envelope or a signature is made of, what the  *)
(* writer writes is what the reader reads, for any sample of bytes and any *)
(* bound on their number.                                                  *)
THEOREM EncodingsReadBack ==
    CodecSpec => []EncodingsInvert
<1>1. BytesInv => EncodingsInvert
  <2> SUFFICES ASSUME BytesInv
               PROVE  EncodingsInvert
    OBVIOUS
  <2>0. bytes \in ByteSeq
    BY DEF BytesInv
  <2>1. /\ DecodeFormat(Format(bytes)) = Ok(bytes)
        /\ DecodeFormat(FormatHex(bytes)) = Ok(bytes)
    BY <2>0, FieldsReadBack
  <2>2. \A n \in 0..MaxBytes :
          /\ ReadBinArray(Format(bytes), n).ok <=> Len(bytes) = n
          /\ ReadBinVector(FormatHex(bytes), n, n + 1).ok <=> Len(bytes) \in {n, n + 1}
    BY <2>0, FieldsReadBack
  <2>3. SignatureReads(bytes)
    BY <2>0, SignaturesRead
  <2>4. ASSUME bytes # <<>>
        PROVE  /\ \A kdf \in Kdfs : EnvelopeReads(kdf)
               /\ \A n \in 60..62 : SignatureReads(Repeated(2 * n))
    <3>1. \A kdf \in Kdfs : EnvelopeReads(kdf)
      BY <2>0, <2>4, EnvelopesRead
    <3>2. ASSUME NEW n \in 60..62
          PROVE  SignatureReads(Repeated(2 * n))
      <4>1. 2 * n \in Nat
        OBVIOUS
      <4>2. Repeated(2 * n) \in ByteSeq
        BY <2>0, <2>4, <4>1, RepeatedIs
      <4> QED
        BY <4>2, SignaturesRead
    <3> QED
      BY <3>1, <3>2
  <2> QED
    BY <2>1, <2>2, <2>3, <2>4 DEF EncodingsInvert
<1> QED
  BY <1>1, BytesStay, PTL

(* The same of the text.                                                   *)
LEMMA TextStays ==
    CodecSpec => []TextInv
<1>1. CodecInit => TextInv
  BY DEF CodecInit, TextInv
<1>2. TextInv /\ [CodecNext]_codecVars => TextInv'
  BY DEF TextInv, CodecNext, MoreBytes, MoreText, codecVars
<1> QED
  BY <1>1, <1>2, PTL DEF CodecSpec

(* Exactly the base64 texts are accepted, and give the bytes of their bits. *)
LEMMA Base64TextDecodes ==
    ASSUME NEW t, Len(t) \in Nat
    PROVE  Base64Decodes(t)
<1>1. DecodeInto(t).ok <=> IsBase64(t)
  BY Base64Accepts
<1>2. ASSUME DecodeInto(t).ok, NEW n \in 0..Len(t), IsPadded(t, n, Sextets)
      PROVE  DecodeInto(t).data = BytesOf(BitsOf(SubSeq(t, 1, n), 6))
  BY <1>1, <1>2, Base64DataIs
<1> QED
  BY <1>1, <1>2, Zenon DEF Base64Decodes

(* What the readers accept they read as what it stands for: a base64 or    *)
(* Base32 text of any length and any characters gives the bytes of its     *)
(* bits, digits print as they were read, every new identifier is read back *)
(* and is not the null one, and a one-time password has the digits of its  *)
(* hash, whatever it is.                                                   *)
THEOREM TextsDecode ==
    CodecSpec => []AcceptedTextDecodes
<1>1. BytesInv /\ TextInv => AcceptedTextDecodes
  <2> SUFFICES ASSUME BytesInv, TextInv
               PROVE  AcceptedTextDecodes
    OBVIOUS
  <2>1. Len(text) \in Nat
    BY DEF TextInv
  <2>2. Base64Decodes(text)
    BY <2>1, Base64TextDecodes
  <2>3. HexDecodes(text)
    BY <2>1, HexTextDecodes DEF TextInv
  <2>4. Base32Decodes(text)
    BY <2>1, Base32TextDecodes
  <2>5. ASSUME bytes # <<>>
        PROVE  LET id == Generate(Repeated(16)) IN
               /\ id # NullUuid
               /\ UuidFromString(UuidToString(id)) = id
               /\ TotpIsOfBits(Repeated(20))
    <3> DEFINE id == Generate(Repeated(16))
    <3>1. \A n \in Nat : Repeated(n) \in ByteSeq /\ Len(Repeated(n)) = n
      BY <2>5, RepeatedIs DEF BytesInv
    <3>2. Repeated(16) \in [1..16 -> Byte]
      <4>1. Repeated(16) \in Seq(Byte) /\ Len(Repeated(16)) = 16
        BY <3>1 DEF ByteSeq
      <4>2. \A n \in Nat : \A q \in Seq(Byte) : Len(q) = n => q \in [1..n -> Byte]
        OBVIOUS
      <4> QED
        BY <4>1, <4>2, 16 \in Nat, Zenon
    <3>3. id \in [1..16 -> Byte] /\ ValidV4(id) /\ id # NullUuid
      BY <3>2, GeneratedIsValid
    <3> HIDE DEF id
    <3>4. UuidFromString(UuidToString(id)) = id
      BY <3>3, UuidReadsBack
    <3>5. TotpIsOfBits(Repeated(20))
      BY <3>1, 20 \in Nat, TotpReads
    <3> QED
      BY <3>3, <3>4, <3>5 DEF id
  <2> QED
    BY <2>2, <2>3, <2>4, <2>5, Zenon DEF AcceptedTextDecodes
<1> QED
  BY <1>1, BytesStay, TextStays, PTL

-----------------------------------------------------------------------------
(***************************************************************************)
(* The password dialog.                                                    *)
(***************************************************************************)
Settings ==
    [type : {"password", "passphrase"}, checked : SUBSET Boxes, avoid : BOOLEAN,
     length : Lengths, words : WordCounts, capitalize : BOOLEAN, number : BOOLEAN,
     separator : {"dash", "space"}]

(* The last checked box takes no click, so one stays checked; until it is  *)
(* disabled, the message takes the click.                                  *)
OneStaysChecked ==
    /\ settings.checked # {}
    /\ \A b \in Boxes :
         settings.checked = {b} => b \in disabled \/ outcome = "boxMessage"

LabelFollows ==
    /\ outcome \in {"made", "empty"} \cup Messages
    /\ outcome = "made" => shown \in Made(settings)
    /\ outcome = "empty" => shown = Empty

DialogInv == settings \in Settings /\ OneStaysChecked /\ LabelFollows

LEMMA UniformIsBelow ==
    ASSUME NEW range \in Nat \ {0}, NEW v \in Uniform(range)
    PROVE  v \in 0..(range - 1)
<1>1. v \in Int /\ v >= 0
  BY DEF Uniform
<1> QED
  BY <1>1 DEF Uniform

LEMMA CharacterSetIs ==
    ASSUME NEW checked \in SUBSET Boxes, checked # {}, NEW avoid \in BOOLEAN
    PROVE  /\ CharacterSet(checked, avoid) # {}
           /\ \A c \in CharacterSet(checked, avoid) :
                 c.class \in checked /\ (avoid => ~c.mistaken)
<1>1. PICK b \in checked : TRUE
  OBVIOUS
<1>2. [class |-> b, mistaken |-> FALSE] \in CharacterSet(checked, avoid)
  BY DEF CharacterSet
<1>3. ASSUME NEW c \in CharacterSet(checked, avoid)
      PROVE  c.class \in checked /\ (avoid => ~c.mistaken)
  BY DEF CharacterSet
<1> QED
  BY <1>2, <1>3

Fits(p, s) ==
    /\ p.type = s.type
    /\ Len(p.chars) > 0
    /\ s.type = "password" =>
         /\ Len(p.chars) = s.length
         /\ \A i \in 1..Len(p.chars) :
              p.chars[i].class \in s.checked /\ (s.avoid => ~p.chars[i].mistaken)
    /\ s.type = "passphrase" =>
         /\ Len(p.chars) = s.words
         /\ p.separator = s.separator
         /\ \A i \in 1..Len(p.chars) : p.chars[i].capital = s.capitalize
         /\ Cardinality({i \in 1..Len(p.chars) : p.chars[i].digit}) = IF s.number THEN 1 ELSE 0

(* What is made for settings fits them, as long as a box is checked.       *)
LEMMA MadeFits ==
    ASSUME NEW s \in Settings, s.checked # {}, NEW p \in Made(s)
    PROVE  Fits(p, s)
<1>1. /\ s.type \in {"password", "passphrase"} /\ s.checked \in SUBSET Boxes
      /\ s.avoid \in BOOLEAN /\ s.number \in BOOLEAN
      /\ s.length \in Nat \ {0} /\ s.words \in Nat \ {0}
  BY DialogAssumption DEF Settings
<1>2. CASE s.type = "password"
  <2> DEFINE chars == CharacterSet(s.checked, s.avoid)
  <2>1. /\ chars # {}
        /\ \A c \in chars : c.class \in s.checked /\ (s.avoid => ~c.mistaken)
    BY <1>1, CharacterSetIs
  <2>2. PICK w \in [1..s.length -> chars] : p = [type |-> "password", chars |-> w]
    BY <1>2, <2>1 DEF Made, Passwords
  <2>3. Len(w) = s.length
    BY <1>1, <2>2
  <2> QED
    BY <1>1, <1>2, <2>1, <2>2, <2>3 DEF Fits
<1>3. CASE s.type = "passphrase"
  <2>1. PICK w \in [1..s.words -> WordList], lucky \in Uniform(s.words) :
           p = [type |-> "passphrase",
                chars |-> [i \in 1..s.words |->
                             [word |-> w[i], capital |-> s.capitalize,
                              digit |-> s.number /\ i - 1 = lucky]],
                separator |-> s.separator]
    BY <1>3 DEF Made, Passphrases
  <2> DEFINE chars == p.chars
             digits == {i \in 1..Len(chars) : chars[i].digit}
  <2>2. lucky \in 0..(s.words - 1)
    BY <1>1, UniformIsBelow
  <2>3. Len(chars) = s.words
    BY <1>1, <2>1
  <2>4. \A i \in 1..s.words : /\ chars[i].capital = s.capitalize
                              /\ chars[i].digit = (s.number /\ i - 1 = lucky)
    BY <2>1
  <2>5. p.type = "passphrase" /\ p.separator = s.separator
    BY <2>1
  <2> HIDE DEF chars
  <2>6. digits = IF s.number THEN {lucky + 1} ELSE {}
    <3>1. \A i \in 1..s.words : i - 1 = lucky <=> i = lucky + 1
      BY <1>1, <2>2
    <3>2. lucky + 1 \in 1..s.words
      BY <1>1, <2>2
    <3>3. digits = {i \in 1..s.words : s.number /\ i = lucky + 1}
      BY <2>3, <2>4, <3>1, Zenon
    <3> HIDE DEF digits
    <3> QED
      BY <1>1, <3>2, <3>3
  <2> HIDE DEF digits
  <2>7. Cardinality(digits) = IF s.number THEN 1 ELSE 0
    BY <2>6, FS_EmptySet, FS_Singleton
  <2> QED
    BY <1>1, <1>3, <2>3, <2>4, <2>5, <2>7 DEF Fits, chars, digits
<1> QED
  BY <1>1, <1>2, <1>3

LEMMA DialogInitInv == DialogInit => DialogInv
<1> SUFFICES ASSUME DialogInit PROVE DialogInv
  OBVIOUS
<1>1. FirstSettings \in Settings
  BY DialogAssumption DEF FirstSettings, Settings
<1>2. OneStaysChecked
  BY DialogAssumption DEF DialogInit, FirstSettings, OneStaysChecked
<1>3. LabelFollows
  BY DEF DialogInit, LabelFollows
<1> QED
  BY <1>1, <1>2, <1>3 DEF DialogInit, DialogInv

(* A call of generatePassword leaves a password for the new settings, or   *)
(* its message.                                                            *)
LEMMA GenerateFollows ==
    ASSUME NEW message \in Messages, GeneratePassword(message)
    PROVE  LabelFollows' /\ outcome' \in {"made", message}
<1> USE DEF Messages, LabelFollows
<1>1. CASE shown' \in Made(settings') /\ outcome' = "made"
  BY <1>1
<1>2. CASE outcome' = message
  BY <1>2
<1> QED
  BY <1>1, <1>2 DEF GeneratePassword

LEMMA DialogStep == DialogInv /\ [DialogNext]_dialogVars => DialogInv'
<1> SUFFICES ASSUME DialogInv, [DialogNext]_dialogVars PROVE DialogInv'
  OBVIOUS
<1>1. ASSUME settings' \in Settings, settings'.checked = settings.checked,
             Ready, UNCHANGED disabled, GeneratePassword("message")
      PROVE  DialogInv'
  <2>1. LabelFollows'
    BY <1>1, GenerateFollows DEF Messages
  <2>2. OneStaysChecked'
    BY <1>1 DEF DialogInv, OneStaysChecked, Ready, Messages
  <2> QED
    BY <1>1, <2>1, <2>2 DEF DialogInv
<1>2. CASE OnTypeToggled \/ OnCharactersSlider \/ OnAmbiguousToggled \/ OnWordsSlider
           \/ OnCapitalizeToggled \/ OnIncludeNumberToggled \/ OnSeparatorTyped
  <2>1. Ready /\ UNCHANGED disabled /\ GeneratePassword("message")
    BY <1>2 DEF OnTypeToggled, OnCharactersSlider, OnAmbiguousToggled, OnWordsSlider,
               OnCapitalizeToggled, OnIncludeNumberToggled, OnSeparatorTyped, Set
  <2>2. settings' \in Settings /\ settings'.checked = settings.checked
    BY <1>2 DEF OnTypeToggled, OnCharactersSlider, OnAmbiguousToggled, OnWordsSlider,
               OnCapitalizeToggled, OnIncludeNumberToggled, OnSeparatorTyped, Set,
               DialogInv, Settings
  <2> QED
    BY <1>1, <2>1, <2>2
<1>3. CASE OnBoxToggled
  <2>1. PICK b \in Boxes \ disabled :
           settings' = [settings EXCEPT !.checked = (@ \ {b}) \cup ({b} \ @)]
    BY <1>3 DEF OnBoxToggled
  <2>2. /\ settings' \in Settings
        /\ settings'.checked = (settings.checked \ {b}) \cup ({b} \ settings.checked)
    BY <2>1 DEF DialogInv, Settings
  <2>3. settings'.checked # {}
    BY <1>3, <2>2 DEF DialogInv, OneStaysChecked, OnBoxToggled, Ready, Messages
  <2>4. /\ GeneratePassword("boxMessage")
        /\ disabled' = IF outcome' = "made" THEN DisabledFor(settings'.checked)
                       ELSE disabled
    BY <1>3 DEF OnBoxToggled, OnPasswordSettingsChanged
  <2>5. LabelFollows' /\ outcome' \in {"made", "boxMessage"}
    BY <2>4, GenerateFollows DEF Messages
  <2>6. ASSUME NEW c \in Boxes, settings'.checked = {c}
        PROVE  c \in disabled' \/ outcome' = "boxMessage"
    BY <2>4, <2>5, <2>6, FS_Singleton DEF DisabledFor
  <2> QED
    BY <2>2, <2>3, <2>5, <2>6 DEF DialogInv, OneStaysChecked
<1>4. CASE OnMessageClosed
  <2>1. settings' = settings /\ outcome' = "empty" /\ shown' = Empty
    BY <1>4 DEF OnMessageClosed
  <2>2. ASSUME NEW c \in Boxes, settings.checked = {c} PROVE c \in disabled'
    <3>1. CASE outcome = "boxMessage"
      BY <1>4, <2>2, <3>1, FS_Singleton DEF OnMessageClosed, DisabledFor
    <3>2. CASE outcome # "boxMessage"
      BY <1>4, <2>2, <3>2 DEF OnMessageClosed, DialogInv, OneStaysChecked
    <3> QED
      BY <3>1, <3>2
  <2> QED
    BY <2>1, <2>2 DEF DialogInv, OneStaysChecked, LabelFollows
<1>5. CASE OnGenerateClicked
  BY <1>1, <1>5 DEF OnGenerateClicked, DialogInv
<1>6. CASE UNCHANGED dialogVars
  BY <1>6 DEF dialogVars, DialogInv, OneStaysChecked, LabelFollows
<1> QED
  BY <1>2, <1>3, <1>4, <1>5, <1>6 DEF DialogNext

(* Whatever is switched in whatever order, the password on display fits    *)
(* what the controls say, or is empty after a failure of the random source *)
(* for them: for any boxes, sliders and word list.                         *)
THEOREM PasswordsFit == DialogSpec => []ShownPasswordFits
<1>1. DialogInv => ShownPasswordFits
  <2> SUFFICES ASSUME DialogInv PROVE ShownPasswordFits
    OBVIOUS
  <2>1. CASE outcome = "made"
    <3>1. Fits(shown, settings)
      BY <2>1, MadeFits DEF DialogInv, OneStaysChecked, LabelFollows
    <3>2. settings.type \in {"password", "passphrase"}
      BY DEF DialogInv, Settings
    <3> QED
      BY <2>1, <3>1, <3>2 DEF Fits, ShownPasswordFits
  <2>2. CASE outcome # "made"
    <3>1. outcome = "empty" => Len(shown.chars) = 0
      <4>1. Empty.chars = << >> /\ Len(<< >>) = 0
        BY DEF Empty
      <4> QED
        BY <4>1 DEF DialogInv, LabelFollows
    <3> QED
      BY <2>2, <3>1 DEF ShownPasswordFits
  <2> QED
    BY <2>1, <2>2
<1> QED
  BY <1>1, DialogInitInv, DialogStep, PTL DEF DialogSpec

-----------------------------------------------------------------------------
(***************************************************************************)
(* The icons of the list.                                                  *)
(***************************************************************************)
NoneAwaited(waiting) == \A a \in Attempts : waiting[a] = 0
Awaits(waiting, a) == \A b \in Attempts : waiting[b] = IF b = a THEN 1 ELSE 0

(* A domain's load, from its state in memory, the answers awaited and the  *)
(* requests sent: one provider is asked at a time, in turn.                *)
Loads(state, waiting, n) ==
    /\ waiting = [a \in Attempts |-> waiting[a]]
    /\ \/ state = "absent" /\ NoneAwaited(waiting) /\ n = 0
       \/ state = "loading" /\ \E a \in Attempts : Awaits(waiting, a) /\ n = a + 1
       \/ state = "loading" /\ NoneAwaited(waiting) /\ n = Providers
       \/ state = "icon" /\ NoneAwaited(waiting) /\ n \in 0..Providers

(* A row's icon follows the memory, once its domain was asked for.         *)
RowFits(row, cache) ==
    /\ row.name \in Names \cup {NoName}
    /\ row.name # NoName /\ Domain[row.name] = row.name =>
         /\ cache[row.name] # "absent"
         /\ row.icon = IF cache[row.name] = "icon" THEN "site" ELSE "default"

LoadsInv ==
    /\ faviconCache = [d \in Names |-> faviconCache[d]]
    /\ replies = [d \in Names |-> replies[d]]
    /\ asked = [d \in Names |-> asked[d]]
    /\ \A d \in Names : Loads(faviconCache[d], replies[d], asked[d])

RowsInv == \A i \in DOMAIN items : RowFits(items[i], faviconCache)
IconsInv == LoadsInv /\ RowsInv
-----------------------------------------------------------------------------
LEMMA IconsInitInv == IconsInit => IconsInv
<1> SUFFICES ASSUME IconsInit PROVE IconsInv
  OBVIOUS
<1>1. LoadsInv
  BY DEF IconsInit, LoadsInv, Loads, NoneAwaited
<1>2. RowsInv
  BY DEF IconsInit, RowsInv
<1> QED
  BY <1>1, <1>2 DEF IconsInv

(* A load starts, at the first provider, only of a domain that has none.   *)
LEMMA LoadStarts ==
    ASSUME NEW waiting, NoneAwaited(waiting), waiting = [a \in Attempts |-> waiting[a]]
    PROVE  Loads("loading", [waiting EXCEPT ![0] = @ + 1], 1)
<1> DEFINE w == [waiting EXCEPT ![0] = @ + 1]
<1>1. 0 \in Attempts
  BY IconsAssumption DEF Attempts
<1>2. w = [a \in Attempts |-> w[a]]
  OBVIOUS
<1>3. Awaits(w, 0)
  BY <1>1 DEF Awaits, NoneAwaited
<1> HIDE DEF w
<1>4. Loads("loading", w, 1)
  BY <1>1, <1>2, <1>3 DEF Loads
<1> QED
  BY <1>4 DEF w

Asked(cache, domains) ==
    \A d \in Names : \/ faviconCache'[d] = cache[d]
                     \/ d \in domains /\ cache[d] = "absent"

LEMMA LoadsAsked ==
    ASSUME LoadsInv, NEW cache, NEW waiting, NEW domains \in SUBSET Names,
           \A d \in Names : Loads(cache[d], waiting[d], asked[d]),
           LoadIconForDomain(cache, waiting, domains)
    PROVE  /\ LoadsInv'
           /\ Asked(cache, domains)
           /\ \A d \in domains : faviconCache'[d] # "absent"
<1> DEFINE starts == {d \in domains : cache[d] = "absent" /\ ~OnDisk(d)}
<1>1. /\ faviconCache' = [d \in Names |->
                            IF d \notin domains \/ cache[d] # "absent" THEN cache[d]
                            ELSE IF OnDisk(d) THEN "icon" ELSE "loading"]
      /\ replies' = [d \in Names |-> IF d \in starts
                                     THEN [waiting[d] EXCEPT ![0] = @ + 1]
                                     ELSE waiting[d]]
      /\ asked' = [d \in Names |-> asked[d] + IF d \in starts THEN 1 ELSE 0]
  BY DEF LoadIconForDomain, GetCachedIcon
<1>2. ASSUME NEW d \in Names PROVE Loads(faviconCache[d], replies[d], asked[d])'
  <2>1. Loads(cache[d], waiting[d], asked[d]) /\ asked[d] \in Nat
    BY IconsAssumption DEF Loads, Attempts
  <2>2. CASE d \in starts
    <3>1. cache[d] = "absent" /\ d \in domains /\ ~OnDisk(d)
      BY <2>2
    <3>2. /\ waiting[d] = [a \in Attempts |-> waiting[d][a]]
          /\ NoneAwaited(waiting[d]) /\ asked[d] = 0
      BY <2>1, <3>1 DEF Loads
    <3>3. /\ faviconCache'[d] = "loading" /\ asked'[d] = 1
          /\ replies'[d] = [waiting[d] EXCEPT ![0] = @ + 1]
      BY <1>1, <2>2, <3>1, <3>2
    <3> QED
      BY <3>2, <3>3, LoadStarts
  <2>3. CASE d \notin starts
    <3>1. replies'[d] = waiting[d] /\ asked'[d] = asked[d]
      BY <1>1, <2>1, <2>3
    <3>2. CASE d \notin domains \/ cache[d] # "absent"
      <4>1. faviconCache'[d] = cache[d]
        BY <1>1, <3>2
      <4> QED
        BY <2>1, <3>1, <4>1
    <3>3. CASE d \in domains /\ cache[d] = "absent"
      <4>1. faviconCache'[d] = "icon"
        BY <1>1, <2>3, <3>3
      <4> QED
        BY <2>1, <3>1, <3>3, <4>1, IconsAssumption DEF Loads
    <3> QED
      BY <3>2, <3>3
  <2> QED
    BY <2>2, <2>3
<1>3. LoadsInv'
  BY <1>1, <1>2 DEF LoadsInv
<1>4. Asked(cache, domains)
  BY <1>1 DEF Asked
<1>5. \A d \in domains : faviconCache'[d] # "absent"
  BY <1>1
<1> QED
  BY <1>3, <1>4, <1>5

(* Rows are made: theirs are the icons in memory by then, and the other    *)
(* rows keep theirs if those are.                                          *)
LEMMA RowsShown ==
    ASSUME LoadsInv, NEW given, NEW cache, NEW waiting,
           \A i \in DOMAIN given : given[i] \in Names \cup {NoName},
           \A d \in Names : Loads(cache[d], waiting[d], asked[d]),
           \A i \in DOMAIN items \ DOMAIN given : RowFits(items[i], cache),
           ShowRows(given, cache, waiting)
    PROVE  IconsInv'
<1> DEFINE domains == GetFaviconForUrl(given)
<1>1. domains \in SUBSET Names
  BY IconsAssumption DEF GetFaviconForUrl
<1>2. LoadIconForDomain(cache, waiting, domains)
  BY DEF ShowRows
<1>3. /\ LoadsInv' /\ Asked(cache, domains)
      /\ \A d \in domains : faviconCache'[d] # "absent"
  <2> HIDE DEF domains
  <2> QED
    BY <1>1, <1>2, LoadsAsked
<1>4. items' = [i \in DOMAIN items \cup DOMAIN given |->
                  IF i \in DOMAIN given
                  THEN [name |-> given[i], icon |-> GetItemIcon(faviconCache', given[i])]
                  ELSE items[i]]
  BY DEF ShowRows
<1>5. ASSUME NEW i \in DOMAIN given
      PROVE  RowFits([name |-> given[i], icon |-> GetItemIcon(faviconCache', given[i])],
                     faviconCache')
  <2>1. given[i] # NoName => Domain[given[i]] \in domains
    BY DEF GetFaviconForUrl
  <2> QED
    BY <1>3, <2>1 DEF RowFits, GetItemIcon
<1>6. ASSUME NEW i \in DOMAIN items \ DOMAIN given
      PROVE  RowFits(items[i], faviconCache')
  <2>1. RowFits(items[i], cache)
    OBVIOUS
  <2> QED
    BY <1>3, <2>1 DEF RowFits, Asked
<1>7. RowsInv'
  BY <1>4, <1>5, <1>6 DEF RowsInv
<1> QED
  BY <1>3, <1>7 DEF IconsInv

(* An answer that is awaited is the only one of its domain.                *)
LEMMA OneAwaited ==
    ASSUME LoadsInv, NEW d \in Names, NEW a \in Attempts, replies[d][a] > 0
    PROVE  /\ faviconCache[d] = "loading" /\ asked[d] = a + 1
           /\ replies[d] = [b \in Attempts |-> replies[d][b]]
           /\ Awaits(replies[d], a)
<1>1. Loads(faviconCache[d], replies[d], asked[d])
  BY DEF LoadsInv
<1>2. ~NoneAwaited(replies[d])
  BY DEF NoneAwaited
<1>3. faviconCache[d] = "loading"
      /\ \E b \in Attempts : Awaits(replies[d], b) /\ asked[d] = b + 1
  BY <1>1, <1>2 DEF Loads
<1>4. PICK b \in Attempts : Awaits(replies[d], b) /\ asked[d] = b + 1
  BY <1>3
<1>5. b = a
  BY <1>4 DEF Awaits
<1> QED
  BY <1>1, <1>3, <1>4, <1>5 DEF Loads

LEMMA AnsweredAwaits ==
    ASSUME LoadsInv, NEW d \in Names, NEW a \in Attempts, replies[d][a] > 0
    PROVE  /\ Answered(d, a) = [e \in Names |-> Answered(d, a)[e]]
           /\ Answered(d, a)[d] = [b \in Attempts |-> Answered(d, a)[d][b]]
           /\ NoneAwaited(Answered(d, a)[d])
           /\ \A e \in Names \ {d} : Answered(d, a)[e] = replies[e]
<1> DEFINE w == [replies[d] EXCEPT ![a] = @ - 1]
<1>1. Answered(d, a) = [replies EXCEPT ![d] = w]
  BY DEF Answered
<1>2. w = [b \in Attempts |-> w[b]] /\ NoneAwaited(w)
  <2>1. Awaits(replies[d], a) /\ replies[d] = [b \in Attempts |-> replies[d][b]]
    BY OneAwaited
  <2>2. replies[d][a] = 1 /\ \A b \in Attempts \ {a} : replies[d][b] = 0
    BY <2>1 DEF Awaits
  <2>3. w[a] = 0 /\ \A b \in Attempts \ {a} : w[b] = 0
    BY <2>1, <2>2
  <2> QED
    BY <2>1, <2>3 DEF NoneAwaited
<1> HIDE DEF w
<1> QED
  BY <1>1, <1>2 DEF LoadsInv

LEMMA IconsStep == IconsInv /\ [IconsNext]_iconVars => IconsInv'
<1> SUFFICES ASSUME IconsInv, [IconsNext]_iconVars PROVE IconsInv'
  OBVIOUS
<1>1. LoadsInv /\ RowsInv /\ \A d \in Names : Loads(faviconCache[d], replies[d], asked[d])
  BY DEF IconsInv, LoadsInv
<1>2. CASE ClearItems
  <2>1. UNCHANGED <<faviconCache, replies, asked>> /\ DOMAIN items' = {}
    BY <1>2 DEF ClearItems
  <2> QED
    BY <1>1, <2>1 DEF IconsInv, LoadsInv, RowsInv
<1>3. CASE SetItems
  <2>1. PICK some \in SUBSET Rows :
           \E given \in [some -> Names \cup {NoName}] : ShowRows(given, faviconCache, replies)
    BY <1>3 DEF SetItems
  <2>2. PICK given \in [some -> Names \cup {NoName}] : ShowRows(given, faviconCache, replies)
    BY <2>1
  <2>3. \A i \in DOMAIN given : given[i] \in Names \cup {NoName}
    OBVIOUS
  <2>4. \A i \in DOMAIN items \ DOMAIN given : RowFits(items[i], faviconCache)
    BY <1>1 DEF RowsInv
  <2> QED
    BY <1>1, <2>2, <2>3, <2>4, RowsShown
<1>4. ASSUME NEW i \in Rows, NEW name \in Names \cup {NoName}, AddOrUpdateItem(i, name)
      PROVE  IconsInv'
  <2> DEFINE given == [j \in {i} |-> name]
  <2>1. ShowRows(given, faviconCache, replies)
    BY <1>4 DEF AddOrUpdateItem
  <2>2. \A j \in DOMAIN given : given[j] \in Names \cup {NoName}
    OBVIOUS
  <2>3. \A j \in DOMAIN items \ DOMAIN given : RowFits(items[j], faviconCache)
    BY <1>1 DEF RowsInv
  <2> HIDE DEF given
  <2> QED
    BY <1>1, <2>1, <2>2, <2>3, RowsShown
<1>5. ASSUME NEW d \in Names, NEW a \in Attempts, IconLoaded(d, a) PROVE IconsInv'
  <2> DEFINE given == OnIconUpdated(d)
             cache == [faviconCache EXCEPT ![d] = "icon"]
             waiting == Answered(d, a)
  <2>1. replies[d][a] > 0 /\ ShowRows(given, cache, waiting)
    BY <1>5 DEF IconLoaded
  <2>2. \A i \in DOMAIN given : given[i] = d
    BY DEF OnIconUpdated
  <2>3. cache[d] = "icon" /\ \A e \in Names \ {d} : cache[e] = faviconCache[e]
    BY <1>1 DEF LoadsInv
  <2>4. /\ waiting[d] = [b \in Attempts |-> waiting[d][b]]
        /\ NoneAwaited(waiting[d])
        /\ \A e \in Names \ {d} : waiting[e] = replies[e]
    BY <1>1, <2>1, AnsweredAwaits
  <2>5. asked[d] \in 0..Providers
    <3>1. asked[d] = a + 1
      BY <1>1, <2>1, OneAwaited
    <3> QED
      BY <3>1, IconsAssumption DEF Attempts
  <2>6. DOMAIN given = {i \in DOMAIN items : items[i].name = d}
    BY DEF OnIconUpdated
  <2> HIDE DEF given, cache, waiting
  <2>7. ASSUME NEW e \in Names PROVE Loads(cache[e], waiting[e], asked[e])
    <3>1. CASE e = d
      BY <2>3, <2>4, <2>5, <3>1 DEF Loads
    <3>2. CASE e # d
      BY <1>1, <2>3, <2>4, <3>2
    <3> QED
      BY <3>1, <3>2
  <2>8. \A i \in DOMAIN items \ DOMAIN given : RowFits(items[i], cache)
    BY <1>1, <2>3, <2>6 DEF RowsInv, RowFits
  <2> QED
    BY <1>1, <2>1, <2>2, <2>7, <2>8, RowsShown
<1>6. ASSUME NEW d \in Names, NEW a \in Attempts, FetchIcon(d, a) PROVE IconsInv'
  <2> DEFINE waiting == Answered(d, a)
  <2>1. replies[d][a] > 0 /\ faviconCache' = faviconCache /\ items' = items
    BY <1>6 DEF FetchIcon
  <2>2. /\ waiting = [e \in Names |-> waiting[e]]
        /\ waiting[d] = [b \in Attempts |-> waiting[d][b]]
        /\ NoneAwaited(waiting[d])
        /\ \A e \in Names \ {d} : waiting[e] = replies[e]
    BY <1>1, <2>1, AnsweredAwaits
  <2>3. faviconCache[d] = "loading" /\ asked[d] = a + 1
    BY <1>1, <2>1, OneAwaited
  <2>4. IF a + 1 < Providers
          THEN /\ replies' = [waiting EXCEPT ![d][a + 1] = @ + 1]
               /\ asked' = [asked EXCEPT ![d] = @ + 1]
          ELSE replies' = waiting /\ UNCHANGED asked
    BY <1>6 DEF FetchIcon
  <2> HIDE DEF waiting
  <2>5. CASE a + 1 < Providers
    <3> DEFINE w == [waiting[d] EXCEPT ![a + 1] = @ + 1]
    <3>1. replies' = [waiting EXCEPT ![d] = w]
      BY <2>4, <2>5
    <3>2. a + 1 \in Attempts /\ a \in Nat
      BY <2>5, IconsAssumption DEF Attempts
    <3>3. w = [b \in Attempts |-> w[b]] /\ Awaits(w, a + 1)
      <4>1. \A b \in Attempts : waiting[d][b] = 0
        BY <2>2 DEF NoneAwaited
      <4>2. w = [b \in Attempts |-> w[b]] /\ w[a + 1] = waiting[d][a + 1] + 1
            /\ \A b \in Attempts \ {a + 1} : w[b] = waiting[d][b]
        BY <2>2, <3>2
      <4> HIDE DEF w
      <4> QED
        BY <3>2, <4>1, <4>2 DEF Awaits
    <3> HIDE DEF w
    <3>4. replies'[d] = w /\ asked'[d] = (a + 1) + 1
          /\ \A e \in Names \ {d} : replies'[e] = replies[e] /\ asked'[e] = asked[e]
      BY <1>1, <2>2, <2>3, <2>4, <2>5, <3>1, <3>2 DEF LoadsInv
    <3>5. Loads(faviconCache'[d], replies'[d], asked'[d])
      BY <2>1, <2>3, <3>2, <3>3, <3>4 DEF Loads
    <3>6. /\ replies' = [e \in Names |-> replies'[e]]
          /\ asked' = [e \in Names |-> asked'[e]]
      BY <1>1, <2>2, <2>4, <2>5, <3>1 DEF LoadsInv
    <3>7. LoadsInv'
      BY <1>1, <2>1, <3>4, <3>5, <3>6 DEF LoadsInv
    <3> QED
      BY <1>1, <2>1, <3>7 DEF IconsInv, RowsInv
  <2>6. CASE ~(a + 1 < Providers)
    <3>1. replies' = waiting /\ asked' = asked /\ asked[d] = Providers
      BY <2>3, <2>4, <2>6, IconsAssumption DEF Attempts
    <3>2. Loads(faviconCache'[d], replies'[d], asked'[d])
      BY <2>1, <2>2, <2>3, <3>1 DEF Loads
    <3>3. LoadsInv'
      BY <1>1, <2>1, <2>2, <3>1, <3>2 DEF LoadsInv
    <3> QED
      BY <1>1, <2>1, <3>3 DEF IconsInv, RowsInv
  <2> QED
    BY <2>5, <2>6
<1>7. CASE Restart
  <2>1. LoadsInv'
    BY <1>7 DEF Restart, LoadsInv, Loads, NoneAwaited
  <2>2. RowsInv'
    BY <1>7 DEF Restart, RowsInv
  <2> QED
    BY <2>1, <2>2 DEF IconsInv
<1>8. CASE UNCHANGED iconVars
  BY <1>1, <1>8 DEF iconVars, IconsInv, LoadsInv, RowsInv
<1> QED
  BY <1>2, <1>3, <1>4, <1>5, <1>6, <1>7, <1>8 DEF IconsNext

(* Rows show the icons the program has, and no domain is asked for more    *)
(* often than there are providers, for any rows, domains and files.        *)
THEOREM IconsShown == IconsSpec => []RowsShowIcons
<1>1. IconsInv => RowsShowIcons
  <2> SUFFICES ASSUME IconsInv PROVE RowsShowIcons
    OBVIOUS
  <2>1. \A d \in Names : Loads(faviconCache[d], replies[d], asked[d])
    BY DEF IconsInv, LoadsInv
  <2>2. \A d \in Names : asked[d] <= Providers
    <3> SUFFICES ASSUME NEW d \in Names PROVE asked[d] <= Providers
      OBVIOUS
    <3>1. \/ asked[d] \in {0, Providers} \/ asked[d] \in 0..Providers
          \/ \E a \in Attempts : asked[d] = a + 1
      BY <2>1 DEF Loads
    <3> QED
      BY <3>1, IconsAssumption DEF Attempts
  <2>3. ASSUME NEW i \in DOMAIN items, items[i].name # NoName,
               Domain[items[i].name] = items[i].name
        PROVE  LET d == items[i].name IN
               IF items[i].icon = "site" THEN faviconCache[d] = "icon"
               ELSE faviconCache[d] = "loading" /\ (OneLoad(d) \/ asked[d] = Providers)
    <3> DEFINE d == items[i].name
    <3>1. d \in Names /\ RowFits(items[i], faviconCache)
      BY <2>3 DEF IconsInv, RowsInv, RowFits
    <3>2. /\ faviconCache[d] # "absent"
          /\ items[i].icon = IF faviconCache[d] = "icon" THEN "site" ELSE "default"
      BY <2>3, <3>1 DEF RowFits
    <3>3. faviconCache[d] = "loading" => OneLoad(d) \/ asked[d] = Providers
      BY <2>1, <3>1 DEF Loads, OneLoad, Awaits
    <3>4. faviconCache[d] \in {"loading", "icon"}
      BY <2>1, <3>1, <3>2 DEF Loads
    <3> QED
      BY <3>2, <3>3, <3>4
  <2> QED
    BY <2>2, <2>3 DEF RowsShowIcons
<1> QED
  BY <1>1, IconsInitInv, IconsStep, PTL DEF IconsSpec
=============================================================================

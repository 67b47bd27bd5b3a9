------------------------------ MODULE Layouts ------------------------------
(***************************************************************************)
(* The byte layouts the client writes and reads by hand: the envelope of a *)
(* sealed value (EnvelopeCodec, over BufferWriter and BufferReader), the   *)
(* DER form of a device's signature (WinTpmProvider), and the six digits   *)
(* of a one-time password (TotpContext).  The cipher leaves its input as   *)
(* it is here; what a key opens is the matter of VaultKeys.                *)
(***************************************************************************)
EXTENDS Integers, SequencesExt

Ok(data) == [ok |-> TRUE, data |-> data]
Invalid == [ok |-> FALSE, data |-> <<>>]

-----------------------------------------------------------------------------
(* Envelopes: three bytes of header, nonce, tag, and the encrypted rest. *)

V1 == 1
Kdfs == {0, 1}              \* NONE, KMAC256
AES == 1
IvLen == 12
TagLen == 16

\* An empty value is not sealed: the cipher's "0 bytes written" is its failure.
EncodeEnvelope(data, kdf, nonce, tag) ==
  IF data = <<>> THEN <<>> ELSE <<V1, kdf, AES>> \o nonce \o tag \o data

Reader(ok, rest, read) == [ok |-> ok, rest |-> rest, read |-> read]

\* A reader hands out the next bytes and keeps the rest, or throws.
ReadBytes(reader, length) ==
  IF ~reader.ok \/ Len(reader.rest) < length THEN Reader(FALSE, reader.rest, reader.read)
  ELSE Reader(TRUE, SubSeq(reader.rest, length + 1, Len(reader.rest)),
              Append(reader.read, SubSeq(reader.rest, 1, length)))

ParseEnvelope(envelope) ==
  LET version == ReadBytes(Reader(TRUE, envelope, <<>>), 1)
      kdf == ReadBytes(version, 1)
      cipher == ReadBytes(kdf, 1)
  IN  ReadBytes(ReadBytes(cipher, IvLen), TagLen)

\* The version and the derivation must be those asked for, the cipher one of
\* two; a value that decrypts to nothing reads as a failure.
DecodeEnvelope(envelope, kdf) ==
  LET parsed == ParseEnvelope(envelope) IN
  IF \/ ~parsed.ok
     \/ parsed.read[1] # <<V1>> \/ parsed.read[2] # <<kdf>>
     \/ parsed.read[3] \notin {<<1>>, <<2>>}
     \/ parsed.rest = <<>>
    THEN Invalid
    ELSE Ok(parsed.rest)

-----------------------------------------------------------------------------
(* A signature is r and s one after the other; its DER form is a sequence *)
(* of two integers, each as short as can be and never read as negative.   *)

TrimLeadingZeros(span) ==
  LET first == CHOOSE i \in 1..Len(span) :
                 /\ \A j \in 1..(i - 1) : span[j] = 0
                 /\ i = Len(span) \/ span[i] # 0
  IN  SubSeq(span, first, Len(span))

DerInteger(span) ==
  LET sub == TrimLeadingZeros(span)
      content == IF sub[1] >= 128 THEN <<0>> \o sub ELSE sub
  IN  <<2, Len(content)>> \o content

ExportSignatureToDER(signature) ==
  LET half == Len(signature) \div 2
      inner == DerInteger(SubSeq(signature, 1, half))
                 \o DerInteger(SubSeq(signature, half + 1, Len(signature)))
  IN  IF Len(signature) % 2 # 0 \/ signature = <<>> THEN Invalid
      ELSE IF Len(inner) > 127 THEN Invalid
      ELSE Ok(<<48, Len(inner)>> \o inner)

-----------------------------------------------------------------------------
(* The digits: four bytes of the hash, from where its last nibble says. *)

GenerateTotp(hash) ==
  LET offset == hash[20] % 16 IN
  ((hash[offset + 1] % 128) * 2^24 + hash[offset + 2] * 2^16
     + hash[offset + 3] * 2^8 + hash[offset + 4]) % 1000000
=============================================================================

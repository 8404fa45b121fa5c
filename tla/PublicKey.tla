------------------------------- MODULE PublicKey -------------------------------
(******************************************************************************)
(* Public keys as texts (shared/include/antelope/publickey.cpp): base 58,     *)
(* a checksum and, in one format, a length of their own.                      *)
(*                                                                            *)
(* A function that may fail is the set of its results, empty where the code   *)
(* refuses.  The lengths of a key and of a checksum are parameters (33 and 4  *)
(* in the code), and so is the hash.                                          *)
(******************************************************************************)
EXTENDS Integers, SequencesExt

CONSTANTS
  KeyLength,
  SumLength,
  Checksum(_, _)    \* of bytes and the suffix hashed with them

ASSUME PublicKeyAssumption == KeyLength \in Nat \ {0} /\ SumLength \in Nat \ {0, 1}

\* The characters: the 58 digits, by their value, and the rest.
Zero == 0                       \* '1'
Space == 58
NotADigit == 59
Characters == 0 .. 59

Bytes == 0 .. 255

\* A text is a record: the prefix "EOS" and its characters (chars), or the prefix
\* "PUB", for "PUB_", a type and the characters after "_".  Without the second
\* separator its type is none of those known.

----
DropWhile(s, c) ==
  LET start == CHOOSE i \in 1 .. Len(s) + 1 :
                 /\ \A j \in 1 .. i - 1 : s[j] = c
                 /\ i = Len(s) + 1 \/ s[i] # c
  IN  SubSeq(s, start, Len(s))

\* One digit: the buffer times 58 plus the digit, byte by byte from its end, and
\* what is carried out of it.
TakeDigit(buffer, digit) ==
  FoldRight(LAMBDA byte, acc : LET n == 58 * byte + acc.carry IN
                               [bytes |-> <<n % 256>> \o acc.bytes, carry |-> n \div 256],
            buffer, [bytes |-> <<>>, carry |-> digit])

\* All digits, in turn.  The code asserts that nothing is carried out of the
\* buffer.
TakeDigits(digits, size) ==
  FoldLeft(LAMBDA acc, digit : LET taken == TakeDigit(acc.bytes, digit) IN
                               [bytes |-> taken.bytes, lost |-> acc.lost + taken.carry],
           [bytes |-> [k \in 1 .. size |-> 0], lost |-> 0], digits)

\* DecodeBase58 (and decode_base58): the digits up to the first space become
\* bytes, in a buffer sized for what is left of the text; leading zeros are
\* zero bytes, spaces may surround the digits and nothing may follow them.
DecodeBase58(chars) ==
  LET text   == DropWhile(chars, Space)
      rest   == DropWhile(text, Zero)
      zeroes == [k \in 1 .. Len(text) - Len(rest) |-> 0]
      ends   == CHOOSE i \in 1 .. Len(rest) + 1 :
                  /\ \A j \in 1 .. i - 1 : rest[j] # Space
                  /\ i = Len(rest) + 1 \/ rest[i] = Space
      digits == SubSeq(rest, 1, ends - 1)
      number == TakeDigits(digits, (Len(rest) * 733) \div 1000 + 1)
  IN  IF /\ \A i \in DOMAIN digits : digits[i] < Space
         /\ \A i \in ends .. Len(rest) : rest[i] = Space
         /\ number.lost = 0
      THEN {zeroes \o DropWhile(number.bytes, 0)}
      ELSE {}

\* Fault: a checksum is not looked at.
ChecksumIgnored(bytes, suffix) == Len(bytes) >= SumLength

\* verifyKeyChecksum: the last bytes are the checksum of those before them.
ChecksumHolds(bytes, suffix) ==
  LET body == SubSeq(bytes, 1, Len(bytes) - SumLength) IN
  bytes = body \o Checksum(body, suffix)

KeyData(bytes) == SubSeq(bytes, 1, KeyLength)

\* stringToLegacyPublicKey
LegacyKeys(chars) ==
  { [type |-> "K1", data |-> KeyData(bytes)] :
      bytes \in { b \in DecodeBase58(chars) :
                    Len(b) = KeyLength + SumLength /\ ChecksumHolds(b, "") } }

\* stringToPublicKey, of type K1 or R1
PlainKeys(type, chars) ==
  { [type |-> type, data |-> KeyData(bytes)] :
      bytes \in { b \in DecodeBase58(chars) :
                    Len(b) = KeyLength + SumLength /\ ChecksumHolds(b, type) } }

\* stringToPublicKey, of type WA: after the key a byte for the user's presence,
\* the length of a domain and the domain.
RpidLength(bytes) == bytes[KeyLength + 2]

WebauthnKeys(chars) ==
  { [type |-> "WA", data |-> KeyData(bytes), presence |-> bytes[KeyLength + 1],
     rpid |-> SubSeq(bytes, KeyLength + 3, KeyLength + 2 + RpidLength(bytes))] :
      bytes \in { b \in DecodeBase58(chars) :
                    /\ Len(b) >= KeyLength + SumLength
                    /\ Len(b) = KeyLength + 2 + RpidLength(b) + SumLength
                    /\ ChecksumHolds(b, "WA") } }

\* What parsememo makes of a key's text: a prefix other than the new one is
\* taken for the old one.
KeysOf(text) ==
  CASE text.prefix = "EOS" -> LegacyKeys(text.chars)
    [] text.prefix = "PUB" /\ text.type \in {"K1", "R1"} -> PlainKeys(text.type, text.chars)
    [] text.prefix = "PUB" /\ text.type = "WA" -> WebauthnKeys(text.chars)
    [] OTHER -> {}

----
(* The reference: a key and the text that encodes it, by division.            *)

\* The quotient and the remainder of a number, in bytes, by 58.
Divide(bytes) ==
  FoldLeft(LAMBDA acc, byte : LET n == 256 * acc.remainder + byte IN
                              [quotient |-> Append(acc.quotient, n \div 58), remainder |-> n % 58],
           [quotient |-> <<>>, remainder |-> 0], bytes)

\* The digits of a number, last one first; two per byte are enough.
Base58(bytes) ==
  FoldLeft(LAMBDA acc, n : LET division == Divide(acc.left) IN
                           [left |-> division.quotient,
                            digits |-> <<division.remainder>> \o acc.digits],
           [left |-> bytes, digits |-> <<>>], [n \in 1 .. 2 * Len(bytes) |-> n]).digits

EncodeBase58(bytes) ==
  LET rest == DropWhile(bytes, 0) IN
  [k \in 1 .. Len(bytes) - Len(rest) |-> Zero] \o DropWhile(Base58(rest), Zero)

Body(key) ==
  IF key.type = "WA"
  THEN key.data \o <<key.presence, Len(key.rpid)>> \o key.rpid
  ELSE key.data

\* The text of a key in the given format, legacy or new.
Encoding(key, prefix) ==
  LET suffix == IF prefix = "EOS" THEN "" ELSE key.type IN
  [prefix |-> prefix, type |-> suffix,
   chars |-> EncodeBase58(Body(key) \o Checksum(Body(key), suffix))]

Formats(key) == IF key.type = "K1" THEN {"EOS", "PUB"} ELSE {"PUB"}

Trim(chars) == Reverse(DropWhile(Reverse(DropWhile(chars, Space)), Space))

\* The text is one of the key's encodings, up to spaces around the digits.
Encodes(text, key) ==
  \E prefix \in Formats(key) : [text EXCEPT !.chars = Trim(@)] = Encoding(key, prefix)
================================================================================

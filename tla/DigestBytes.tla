---------------------------- MODULE DigestBytes -----------------------------
(***************************************************************************)
(* Bytes, words and copies, as MD5 and SHA256 use them.  Buffers are       *)
(* functions from offsets, which begin at 0 as in the code; what is handed *)
(* to update is a sequence.                                                *)
(***************************************************************************)
EXTENDS Naturals, Sequences

CONSTANTS
  BYTE,     \* how many values a byte of a word has (256)
  Byte      \* the bytes of messages and buffers

ASSUME ByteAssumption ==
  /\ BYTE \in Nat \ {0}
  /\ BYTE % 8 = 0
  /\ 0..BYTE - 1 \subseteq Byte
  /\ 128 \in Byte

WORD == BYTE * BYTE * BYTE * BYTE     \* 2^32
BLOCK == 64

\* The bytes of a word, the least significant one first.
LittleEndian(w) ==
  <<w % BYTE, (w \div BYTE) % BYTE, (w \div (BYTE * BYTE)) % BYTE,
    (w \div (BYTE * BYTE * BYTE)) % BYTE>>

BigEndian(w) == [i \in 1..4 |-> LittleEndian(w)[5 - i]]

Repeat(byte, n) == [i \in 1..n |-> byte]

\* The n bytes of a buffer from offset from on.
Slice(buffer, from, n) == [i \in 1..n |-> buffer[from + i - 1]]

\* memcpy(buffer + at, bytes, n)
memcpy(buffer, at, bytes, n) ==
  [i \in DOMAIN buffer |-> IF i \in at..at + n - 1 THEN bytes[i - at + 1] ELSE buffer[i]]

\* memset(buffer + at, byte, n)
memset(buffer, at, byte, n) == memcpy(buffer, at, Repeat(byte, n), n)

\* What RFC 1321 and FIPS 180-4 make of a message before the length: 0x80 and
\* the fewest zeros that leave room for eight bytes in the last block.
PadLength(n) == IF n % BLOCK < 56 THEN 56 - (n % BLOCK) ELSE 120 - (n % BLOCK)
Pad(n) == <<128>> \o Repeat(0, PadLength(n) - 1)
=============================================================================

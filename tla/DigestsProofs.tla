--------------------------- MODULE DigestsProofs ----------------------------
(***************************************************************************)
(* SHA256 and MD5 are exact, for every message in any pieces (for MD5, of  *)
(* less than 2^32 bytes each).  What an object has absorbed, whole blocks, *)
(* and what waits in its block are together the message so far (Holds):    *)
(* every update keeps that, with the counters, and the end makes the       *)
(* padded message of it.                                                   *)
(*                                                                         *)
(* The order: numbers; buffers and copies; Holds and the two ways of an    *)
(* update; MD5's update; paddings; MD5's finalize; SHA256's update and     *)
(* final; the client.                                                      *)
(***************************************************************************)
EXTENDS Digests, SequenceFacts

-----------------------------------------------------------------------------
(* Numbers.                                                                *)

\* Division with a rest, as facts to cite ...
LEMMA DivMod ==
  ASSUME NEW n \in Nat, NEW w \in Nat \ {0}
  PROVE  /\ n = w * (n \div w) + (n % w)
         /\ n \div w \in Nat /\ n % w \in Nat /\ n % w < w
OBVIOUS

\* ... and there is one such quotient and one rest.
LEMMA DivModUnique ==
  ASSUME NEW w \in Nat \ {0}, NEW q \in Nat, NEW r \in Nat, r < w
  PROVE  /\ (w * q + r) \div w = q
         /\ (w * q + r) % w = r
OBVIOUS

\* A counter that rolls over can be reduced before or after it is added to.
LEMMA ModAdd ==
  ASSUME NEW w \in Nat \ {0}, NEW a \in Nat, NEW b \in Nat
  PROVE  ((a % w) + b) % w = (a + b) % w
<1>1. PICK q \in Nat, r \in Nat : a = w * q + r /\ r = a % w /\ r < w
  BY DivMod
<1>2. r + b \in Nat
  OBVIOUS
<1>3. PICK p \in Nat, s \in Nat : r + b = w * p + s /\ s = (r + b) % w /\ s < w
  BY <1>2, DivMod
<1>4. a + b = w * (q + p) + s
  <2>1. w * (q + p) = w * q + w * p
    OBVIOUS
  <2>2. w * q \in Nat /\ w * p \in Nat
    OBVIOUS
  <2>3. a = w * q + r /\ r + b = w * p + s
    BY <1>1, <1>3
  <2> QED
    BY <2>1, <2>2, <2>3
<1>5. q + p \in Nat
  OBVIOUS
<1>6. (w * (q + p) + s) % w = s
  BY <1>3, <1>5, DivModUnique
<1> QED
  BY <1>1, <1>3, <1>4, <1>6

\* Bits and bytes: of eight times a number.
LEMMA ModTimes ==
  ASSUME NEW k \in Nat \ {0}, NEW c \in Nat \ {0}, NEW n \in Nat
  PROVE  (c * n) % (c * k) = c * (n % k) /\ (c * n) \div (c * k) = n \div k
<1>1. PICK q \in Nat, r \in Nat : n = k * q + r /\ q = n \div k /\ r = n % k /\ r < k
  BY DivMod
<1>2. c * n = (c * k) * q + c * r
  <2>1. n = k * q + r
    BY <1>1
  <2>2. c * (k * q + r) = c * (k * q) + c * r
    OBVIOUS
  <2>3. c * (k * q) = (c * k) * q
    OBVIOUS
  <2> QED
    BY <2>1, <2>2, <2>3
<1>3. c * r < c * k /\ c * r \in Nat /\ c * k \in Nat \ {0}
  BY <1>1
<1>4. ((c * k) * q + c * r) % (c * k) = c * r /\ ((c * k) * q + c * r) \div (c * k) = q
  <2> DEFINE w == c * k
             s == c * r
  <2>1. w \in Nat \ {0} /\ s \in Nat /\ s < w
    BY <1>3
  <2> HIDE DEF w, s
  <2>2. (w * q + s) % w = s /\ (w * q + s) \div w = q
    BY <2>1, DivModUnique
  <2> QED
    BY <2>2 DEF w, s
<1> QED
  BY <1>1, <1>2, <1>4

\* The low digit of a low word is the low digit of the number.
LEMMA ModMod ==
  ASSUME NEW k \in Nat \ {0}, NEW c \in Nat \ {0}, NEW n \in Nat
  PROVE  (n % (c * k)) % c = n % c
<1> DEFINE w == c * k
<1>0. w \in Nat \ {0}
  OBVIOUS
<1> HIDE DEF w
<1>1. PICK q \in Nat, r \in Nat : n = w * q + r /\ r = n % w /\ r < w
  BY <1>0, DivMod
<1>2. PICK p \in Nat, s \in Nat : r = c * p + s /\ s = r % c /\ s < c
  BY DivMod
<1>3. n = c * (k * q + p) + s
  <2>1. n = w * q + r /\ r = c * p + s
    BY <1>1, <1>2
  <2>2. w * q = c * (k * q)
    BY DEF w
  <2>3. c * (k * q + p) = c * (k * q) + c * p
    OBVIOUS
  <2> QED
    BY <2>1, <2>2, <2>3
<1>4. k * q + p \in Nat
  OBVIOUS
<1>5. (c * (k * q + p) + s) % c = s
  BY <1>2, <1>4, DivModUnique
<1> QED
  BY <1>1, <1>2, <1>3, <1>5 DEF w

\* The bits of two lengths, in two words of w values, add up with a carry.
IsSum(w, a, b, lo, carry) ==
  lo = ((a % w) + (b % w)) % w /\ carry = IF lo < b % w THEN 1 ELSE 0

\* Md5Count: its carry is what the sum of the low words has lost.
LEMMA Carry ==
  ASSUME NEW w \in Nat \ {0}, NEW a \in Nat, NEW b \in Nat, NEW lo, NEW carry,
         IsSum(w, a, b, lo, carry)
  PROVE  /\ lo = (a + b) % w
         /\ (((a \div w) % w) + carry + (b \div w)) % w = ((a + b) \div w) % w
<1>1. PICK p \in Nat, r \in Nat : a = w * p + r /\ p = a \div w /\ r = a % w /\ r < w
  BY DivMod
<1>2. PICK q \in Nat, s \in Nat : b = w * q + s /\ q = b \div w /\ s = b % w /\ s < w
  BY DivMod
<1>3. lo = (r + s) % w /\ carry = IF lo < s THEN 1 ELSE 0
  BY <1>1, <1>2 DEF IsSum
<1>4. a = w * p + r /\ b = w * q + s /\ r < w /\ s < w
  BY <1>1, <1>2
<1>5. carry \in Nat /\ w * (p + (q + carry)) + lo = a + b /\ lo \in Nat /\ lo < w
  <2>1. CASE r + s < w
    <3>1. (w * 0 + (r + s)) % w = r + s
      <4> DEFINE x == r + s
      <4>1. x \in Nat /\ x < w
        BY <2>1
      <4> HIDE DEF x
      <4>2. (w * 0 + x) % w = x
        BY <4>1, DivModUnique
      <4> QED
        BY <4>2 DEF x
    <3>2. lo = r + s /\ carry = 0
      BY <1>3, <3>1
    <3>3. w * (p + (q + 0)) = w * p + w * q
      OBVIOUS
    <3>4. w * (p + (q + carry)) + lo = a + b
      <4>1. w * (p + (q + carry)) = w * p + w * q
        BY <3>2, <3>3
      <4> QED
        BY <1>4, <3>2, <4>1
    <3> QED
      BY <2>1, <3>2, <3>4
  <2>2. CASE r + s >= w
    <3>0. r + s - w \in Nat /\ r + s - w < w
      BY <1>4, <2>2
    <3>1. (w * 1 + (r + s - w)) % w = r + s - w
      BY <3>0, DivModUnique
    <3>2. lo = r + s - w /\ carry = 1
      BY <1>3, <1>4, <3>1, <3>0
    <3>3. w * (p + (q + 1)) = w * p + w * q + w
      OBVIOUS
    <3> QED
      BY <1>4, <2>2, <3>2, <3>3, <3>0
  <2> QED
    BY <2>1, <2>2
<1>6. p + (q + carry) \in Nat
  BY <1>5
<1>7. (w * (p + (q + carry)) + lo) \div w = p + (q + carry) /\ (w * (p + (q + carry)) + lo) % w = lo
  BY <1>5, <1>6, DivModUnique
<1>8. ((p % w) + (q + carry)) % w = (p + (q + carry)) % w
  <2>1. q + carry \in Nat
    BY <1>5
  <2> QED
    BY <2>1, ModAdd
<1>9. (p % w) + (q + carry) = (p % w) + carry + q
  <2>1. p % w \in Nat
    BY DivMod
  <2> QED
    BY <1>5, <2>1
<1> QED
  BY <1>1, <1>2, <1>5, <1>7, <1>8, <1>9

-----------------------------------------------------------------------------
(* Words and buffers.                                                      *)

\* A word has 8 bits to a byte and holds whole blocks of 64 bytes.
LEMMA WordFacts ==
  /\ WORD \in Nat \ {0}
  /\ \E m \in Nat \ {0} : WORD = 8 * (64 * m)
<1>1. PICK j \in Nat, r \in Nat : BYTE = 8 * j + r /\ r = BYTE % 8
  <2>1. BYTE \in Nat /\ 8 \in Nat \ {0}
    BY ByteAssumption
  <2> QED
    BY <2>1, DivMod
<1>2. BYTE = 8 * j /\ j \in Nat \ {0}
  BY <1>1, ByteAssumption
<1>3. WORD = (8 * j) * (8 * j) * (8 * j) * (8 * j)
  BY <1>2 DEF WORD
<1>4. (8 * j) * (8 * j) * (8 * j) * (8 * j) = 8 * (64 * (8 * (j * j * j * j)))
  OBVIOUS
<1>5. 8 * (j * j * j * j) \in Nat \ {0}
  <2>1. j * j \in Nat \ {0}
    BY <1>2
  <2>2. j * j * j \in Nat \ {0}
    BY <1>2, <2>1
  <2>3. j * j * j * j \in Nat \ {0}
    BY <1>2, <2>2
  <2> QED
    BY <2>3
<1> DEFINE m == 8 * (j * j * j * j)
<1>6. m \in Nat \ {0} /\ WORD = 8 * (64 * m)
  BY <1>3, <1>4, <1>5
<1> HIDE DEF m
<1>7. WORD \in Nat \ {0}
  BY <1>6
<1> QED
  BY <1>6, <1>7

\* A word counts more bytes than update is given by finalize.
LEMMA LongWord == WORD \in Nat /\ WORD > 120
  BY WordFacts

\* What of a message is in the last block can be read off the low word of the
\* number of its bits.
LEMMA IndexFromBits ==
  ASSUME NEW n \in Nat
  PROVE  (((8 * n) % WORD) \div 8) % 64 = n % 64
<1>1. PICK m \in Nat \ {0} : WORD = 8 * (64 * m)
  BY WordFacts
<1>2. 64 * m \in Nat \ {0}
  OBVIOUS
<1>3. (8 * n) % (8 * (64 * m)) = 8 * (n % (64 * m))
  <2> DEFINE k == 64 * m
             c == 8
  <2>1. k \in Nat \ {0} /\ c \in Nat \ {0}
    OBVIOUS
  <2> HIDE DEF k, c
  <2>2. (c * n) % (c * k) = c * (n % k)
    BY <2>1, ModTimes
  <2> QED
    BY <2>2 DEF k, c
<1>4. n % (64 * m) \in Nat
  BY <1>2, DivMod
<1>5. \A x \in Nat : (8 * x) \div 8 = x
  OBVIOUS
<1>6. (n % (64 * m)) % 64 = n % 64
  BY ModMod
<1> QED
  BY <1>1, <1>3, <1>4, <1>5, <1>6

\* What padding and lengths are made of are bytes.
LEMMA BytesAreBytes ==
  /\ 0 \in Byte /\ 128 \in Byte
  /\ \A n \in Nat : n % BYTE \in Byte
<1>1. BYTE \in Nat \ {0} /\ 0..BYTE - 1 \subseteq Byte /\ 128 \in Byte
  BY ByteAssumption
<1>2. \A n \in Nat : n % BYTE \in 0..BYTE - 1
  BY <1>1
<1> QED
  BY <1>1, <1>2

\* Repeat is n times the byte.
LEMMA RepeatFacts ==
  ASSUME NEW byte \in Byte, NEW n \in Nat
  PROVE  /\ Repeat(byte, n) \in Seq(Byte) /\ Len(Repeat(byte, n)) = n
         /\ \A i \in 1..n : Repeat(byte, n)[i] = byte
BY DEF Repeat

\* The front of a buffer, as a sequence.
LEMMA BlockFacts ==
  ASSUME NEW size \in Nat, NEW buffer \in [0..size - 1 -> Byte], NEW n \in Nat, n <= size
  PROVE  /\ Slice(buffer, 0, n) \in Seq(Byte) /\ Len(Slice(buffer, 0, n)) = n
         /\ \A i \in 1..n : Slice(buffer, 0, n)[i] = buffer[i - 1]
<1>1. \A i \in 1..n : i - 1 \in 0..size - 1 /\ 0 + i - 1 = i - 1
  OBVIOUS
<1>2. \A i \in 1..n : buffer[0 + i - 1] \in Byte
  BY <1>1
<1> QED
  BY <1>1, <1>2 DEF Slice

\* b is the buffer, but for n bytes at offset at.
Copied(b, buffer, size, at, bytes, n) ==
  /\ b \in [0..size - 1 -> Byte]
  /\ \A i \in 0..size - 1 : i < at \/ i >= at + n => b[i] = buffer[i]
  /\ \A i \in 1..n : at + i <= size => b[at + i - 1] = bytes[i]

\* memcpy writes n bytes at offset at, and nothing else.
LEMMA CopyFacts ==
  ASSUME NEW size \in Nat, NEW buffer \in [0..size - 1 -> Byte], NEW at \in Nat, NEW n \in Nat,
         NEW bytes \in Seq(Byte), n <= Len(bytes)
  PROVE  Copied(memcpy(buffer, at, bytes, n), buffer, size, at, bytes, n)
<1>0. Len(bytes) \in Nat /\ \A i \in 1..Len(bytes) : bytes[i] \in Byte
  BY LenProperties
<1>1. DOMAIN buffer = 0..size - 1
  OBVIOUS
<1>2. \A i \in 0..size - 1 : i \in at..at + n - 1 <=> at <= i /\ i < at + n
  OBVIOUS
<1>3. \A i \in 0..size - 1 : at <= i /\ i < at + n => bytes[i - at + 1] \in Byte
  BY <1>0
<1>4. \A i \in 0..size - 1 : memcpy(buffer, at, bytes, n)[i] =
              IF at <= i /\ i < at + n THEN bytes[i - at + 1] ELSE buffer[i]
  BY <1>1, <1>2 DEF memcpy
<1>5. \A i \in 0..size - 1 : memcpy(buffer, at, bytes, n)[i] \in Byte
  BY <1>3, <1>4
<1>6. memcpy(buffer, at, bytes, n) = [i \in 0..size - 1 |-> memcpy(buffer, at, bytes, n)[i]]
  BY <1>1 DEF memcpy
<1>7. memcpy(buffer, at, bytes, n) \in [0..size - 1 -> Byte]
  BY <1>5, <1>6
<1>8. \A i \in 0..size - 1 : i < at \/ i >= at + n => memcpy(buffer, at, bytes, n)[i] = buffer[i]
  BY <1>4
<1>9. ASSUME NEW i \in 1..n, at + i <= size
      PROVE  memcpy(buffer, at, bytes, n)[at + i - 1] = bytes[i]
  <2>1. /\ at + i - 1 \in 0..size - 1 /\ at <= at + i - 1 /\ at + i - 1 < at + n
        /\ (at + i - 1) - at + 1 = i
    BY <1>9
  <2> QED
    BY <1>4, <2>1
<1> QED
  BY <1>7, <1>8, <1>9 DEF Copied

\* memcpy to the front of a buffer.
LEMMA CopyFrontFacts ==
  ASSUME NEW size \in Nat, NEW buffer \in [0..size - 1 -> Byte], NEW n \in Nat, n <= size,
         NEW bytes \in Seq(Byte), n <= Len(bytes)
  PROVE  /\ memcpy(buffer, 0, bytes, n) \in [0..size - 1 -> Byte]
         /\ \A i \in 1..n : memcpy(buffer, 0, bytes, n)[i - 1] = bytes[i]
<1> DEFINE at == 0
<1>1. at \in Nat
  OBVIOUS
<1> HIDE DEF at
<1>0. Copied(memcpy(buffer, at, bytes, n), buffer, size, at, bytes, n)
  BY <1>1, CopyFacts
<1>2. /\ memcpy(buffer, at, bytes, n) \in [0..size - 1 -> Byte]
      /\ \A i \in 1..n : at + i <= size => memcpy(buffer, at, bytes, n)[at + i - 1] = bytes[i]
  BY <1>0 DEF Copied
<1>3. ASSUME NEW i \in 1..n PROVE memcpy(buffer, 0, bytes, n)[i - 1] = bytes[i]
  <2>1. at + i <= size /\ at + i - 1 = i - 1
    BY DEF at
  <2>2. memcpy(buffer, at, bytes, n)[at + i - 1] = bytes[i]
    BY <1>2, <2>1
  <2> QED
    BY <2>1, <2>2 DEF at
<1> QED
  BY <1>2, <1>3 DEF at

-----------------------------------------------------------------------------
(* Absorbing.                                                              *)

\* What has been absorbed, whole blocks, and the first k bytes of the buffer
\* are the message m.
Holds(absorbed, buffer, k, m) ==
  /\ m \in Seq(Byte) /\ absorbed \in Seq(Byte)
  /\ k \in 0..BLOCK - 1
  /\ Len(m) = Len(absorbed) + k
  /\ Len(absorbed) % BLOCK = 0
  /\ \A i \in 1..Len(absorbed) : absorbed[i] = m[i]
  /\ \A i \in 0..k - 1 : buffer[i] = m[Len(absorbed) + i + 1]

\* The number of bytes that wait can be read off the length.
LEMMA HeldIsLength ==
  ASSUME NEW absorbed, NEW buffer, NEW k, NEW m, Holds(absorbed, buffer, k, m)
  PROVE  Len(m) \in Nat /\ Len(m) % BLOCK = k
<1>1. Len(absorbed) \in Nat /\ Len(m) \in Nat
  BY LenProperties DEF Holds
<1> DEFINE n == Len(absorbed)
           l == Len(m)
<1>2. n \in Nat /\ l \in Nat /\ l = n + k /\ k \in 0..63 /\ n % 64 = 0
  BY <1>1 DEF Holds, BLOCK
<1> HIDE DEF n, l
<1>3. l % 64 = k
  BY <1>2
<1> QED
  BY <1>2, <1>3 DEF l, BLOCK

\* Concatenation, element by element.
LEMMA ConcatFacts ==
  ASSUME NEW s \in Seq(Byte), NEW t \in Seq(Byte)
  PROVE  /\ s \o t \in Seq(Byte) /\ Len(s \o t) = Len(s) + Len(t)
         /\ Len(s) \in Nat /\ Len(t) \in Nat
         /\ \A i \in 1..Len(s) : (s \o t)[i] = s[i]
         /\ \A i \in 1..Len(t) : (s \o t)[Len(s) + i] = t[i]
<1>1. /\ s \o t \in Seq(Byte) /\ Len(s \o t) = Len(s) + Len(t)
      /\ Len(s) \in Nat /\ Len(t) \in Nat
      /\ \A i \in 1..Len(s) + Len(t) : (s \o t)[i] = IF i <= Len(s) THEN s[i] ELSE t[i - Len(s)]
  BY ConcatProperties, LenProperties
<1>2. \A i \in 1..Len(s) : i \in 1..Len(s) + Len(t) /\ i <= Len(s)
  BY <1>1
<1>3. \A i \in 1..Len(t) : /\ Len(s) + i \in 1..Len(s) + Len(t) /\ ~ (Len(s) + i <= Len(s))
                           /\ (Len(s) + i) - Len(s) = i
  BY <1>1
<1>4. \A i \in 1..Len(s) : (s \o t)[i] = s[i]
  BY <1>1, <1>2
<1>5. \A i \in 1..Len(t) : (s \o t)[Len(s) + i] = t[i]
  BY <1>1, <1>3
<1> QED
  BY <1>1, <1>4, <1>5

\* A piece that leaves room in the buffer is kept ...
LEMMA KeepPiece ==
  ASSUME NEW absorbed, NEW buffer, NEW k, NEW m, Holds(absorbed, buffer, k, m),
         NEW piece \in Seq(Byte), k + Len(piece) < BLOCK, NEW buffer2,
         \A i \in 0..k - 1 : buffer2[i] = buffer[i],
         \A i \in 1..Len(piece) : buffer2[k + i - 1] = piece[i]
  PROVE  Holds(absorbed, buffer2, k + Len(piece), m \o piece)
<1> DEFINE a == Len(absorbed)
           l == Len(m)
           p == Len(piece)
           t == m \o piece
<1>1. a \in Nat /\ l \in Nat /\ p \in Nat /\ k \in 0..63 /\ l = a + k /\ k + p < 64
  BY LenProperties DEF Holds, BLOCK
<1>2. t \in Seq(Byte) /\ Len(t) = l + p
  BY ConcatFacts DEF Holds
<1>3. \A i \in 1..l : t[i] = m[i]
  BY ConcatFacts DEF Holds
<1>4. \A i \in 1..p : t[l + i] = piece[i]
  BY ConcatFacts DEF Holds
<1>5. absorbed \in Seq(Byte) /\ a % 64 = 0
  BY DEF Holds, BLOCK
<1>6. \A i \in 1..a : absorbed[i] = m[i]
  BY DEF Holds
<1>7. \A i \in 0..k - 1 : buffer[i] = m[a + i + 1]
  BY DEF Holds
<1>8. \A i \in 1..p : buffer2[k + i - 1] = piece[i]
  OBVIOUS
<1> HIDE DEF a, l, p, t
<1>9. \A i \in 1..a : absorbed[i] = t[i]
  BY <1>1, <1>3, <1>6
<1>10. ASSUME NEW i \in 0..(k + p) - 1 PROVE buffer2[i] = t[a + i + 1]
  <2>1. CASE i < k
    <3>1. i \in 0..k - 1 /\ a + i + 1 \in 1..l
      BY <1>1, <2>1
    <3> QED
      BY <1>3, <1>7, <3>1
  <2>2. CASE i >= k
    <3>1. PICK j \in 1..p : i = k + j - 1
      <4>1. i - k + 1 \in 1..p /\ i = k + (i - k + 1) - 1
        BY <1>1, <2>2
      <4> QED
        BY <4>1
    <3>2. a + i + 1 = l + j
      BY <1>1, <3>1
    <3> QED
      BY <1>4, <1>8, <3>1, <3>2
  <2> QED
    BY <1>1, <2>1, <2>2
<1>11. k + p \in 0..63 /\ Len(t) = a + (k + p)
  BY <1>1, <1>2
<1>12. Holds(absorbed, buffer2, k + p, t)
  <2>1. k + p \in 0..BLOCK - 1
    BY <1>11 DEF BLOCK
  <2>2. Len(absorbed) % BLOCK = 0
    BY <1>5 DEF a, BLOCK
  <2>3. Len(t) = Len(absorbed) + (k + p)
    BY <1>11 DEF a
  <2>4. \A i \in 1..Len(absorbed) : absorbed[i] = t[i]
    BY <1>9 DEF a
  <2>5. \A i \in 0..(k + p) - 1 : buffer2[i] = t[Len(absorbed) + i + 1]
    BY <1>10 DEF a
  <2> QED
    BY <1>2, <1>5, <2>1, <2>2, <2>3, <2>4, <2>5 DEF Holds
<1> QED
  BY <1>12 DEF p, t

\* ... and one that fills it is absorbed, with the whole blocks behind, but for
\* the rest.
Absorbs(absorbed, buffer, k, piece, whole, rest, absorbed2, buffer2) ==
  /\ piece \in Seq(Byte) /\ whole \in Nat /\ whole % BLOCK = 0 /\ rest \in 0..BLOCK - 1
  /\ k + Len(piece) = BLOCK + whole + rest
  /\ absorbed2 \in Seq(Byte) /\ Len(absorbed2) = Len(absorbed) + BLOCK + whole
  /\ \A i \in 1..Len(absorbed) : absorbed2[i] = absorbed[i]
  /\ \A i \in 0..k - 1 : absorbed2[Len(absorbed) + i + 1] = buffer[i]
  /\ \A i \in 1..(BLOCK + whole) - k : absorbed2[Len(absorbed) + k + i] = piece[i]
  /\ \A i \in 0..rest - 1 : buffer2[i] = piece[((BLOCK + whole) - k) + i + 1]

\* What Absorbs says keeps what is held.
LEMMA AbsorbPiece ==
  ASSUME NEW absorbed, NEW buffer, NEW k, NEW m, Holds(absorbed, buffer, k, m),
         NEW piece, NEW whole, NEW rest, NEW absorbed2, NEW buffer2,
         Absorbs(absorbed, buffer, k, piece, whole, rest, absorbed2, buffer2)
  PROVE  Holds(absorbed2, buffer2, rest, m \o piece)
<1> DEFINE a == Len(absorbed)
           l == Len(m)
           p == Len(piece)
           t == m \o piece
           b == BLOCK + whole
<1>1. a \in Nat /\ l \in Nat /\ p \in Nat /\ k \in 0..63 /\ l = a + k
  BY LenProperties DEF Holds, Absorbs, BLOCK
<1>2. t \in Seq(Byte) /\ Len(t) = l + p
  BY ConcatFacts DEF Holds, Absorbs
<1>3. \A i \in 1..l : t[i] = m[i]
  BY ConcatFacts DEF Holds, Absorbs
<1>4. \A i \in 1..p : t[l + i] = piece[i]
  BY ConcatFacts DEF Holds, Absorbs
<1>5. a % 64 = 0
  BY DEF Holds, Absorbs, BLOCK
<1>6. \A i \in 1..a : absorbed2[i] = m[i]
  BY DEF Holds, Absorbs
<1>7. \A i \in 0..k - 1 : absorbed2[a + i + 1] = m[a + i + 1]
  BY DEF Holds, Absorbs
<1>8. b \in Nat /\ b >= 64 /\ rest \in 0..63 /\ k + p = b + rest
  BY <1>1 DEF Absorbs, BLOCK
<1>9. b % 64 = 0
  BY DEF Absorbs, BLOCK
<1>10. Len(absorbed2) = a + b
  BY <1>1 DEF Absorbs, BLOCK
<1>0. absorbed2 \in Seq(Byte)
  BY DEF Absorbs
<1>11. \A i \in 1..b - k : absorbed2[a + k + i] = piece[i]
  BY DEF Absorbs
<1>12. \A i \in 0..rest - 1 : buffer2[i] = piece[(b - k) + i + 1]
  BY DEF Absorbs
<1> HIDE DEF a, l, p, t, b
<1>13. ASSUME NEW i \in 1..a + b PROVE absorbed2[i] = t[i]
  <2>1. CASE i <= a
    <3>1. i \in 1..a /\ i \in 1..l
      BY <1>1, <2>1
    <3> QED
      BY <1>3, <1>6, <3>1
  <2>2. CASE a < i /\ i <= l
    <3>1. PICK j \in 0..k - 1 : i = a + j + 1
      <4>1. i - a - 1 \in 0..k - 1 /\ i = a + (i - a - 1) + 1
        BY <1>1, <2>2
      <4> QED
        BY <4>1
    <3>2. i \in 1..l
      BY <2>2
    <3> QED
      BY <1>3, <1>7, <3>1, <3>2
  <2>3. CASE l < i
    <3>1. PICK j \in 1..b - k : i = l + j
      <4>1. i - l \in 1..b - k /\ i = l + (i - l)
        BY <1>1, <1>8, <2>3
      <4> QED
        BY <4>1
    <3>2. i = a + k + j /\ j \in 1..p
      BY <1>1, <1>8, <3>1
    <3> QED
      BY <1>4, <1>11, <3>1, <3>2
  <2> QED
    BY <1>1, <1>8, <2>1, <2>2, <2>3
<1>14. ASSUME NEW i \in 0..rest - 1 PROVE buffer2[i] = t[a + b + i + 1]
  <2> DEFINE j == (b - k) + i + 1
  <2>1. j \in 1..p /\ l + j = a + b + i + 1
    BY <1>1, <1>8
  <2>2. buffer2[i] = piece[j]
    BY <1>12
  <2> HIDE DEF j
  <2> QED
    BY <1>4, <2>1, <2>2
<1>15. (a + b) % 64 = 0
  BY <1>1, <1>5, <1>8, <1>9
<1>16. Len(t) = a + b + rest
  BY <1>1, <1>2, <1>8
<1>17. Holds(absorbed2, buffer2, rest, t)
  <2>1. rest \in 0..BLOCK - 1 /\ Len(absorbed2) % BLOCK = 0
    BY <1>8, <1>10, <1>15 DEF BLOCK
  <2>2. Len(t) = Len(absorbed2) + rest
    BY <1>10, <1>16
  <2>3. \A i \in 1..Len(absorbed2) : absorbed2[i] = t[i]
    BY <1>10, <1>13
  <2>4. \A i \in 0..rest - 1 : buffer2[i] = t[Len(absorbed2) + i + 1]
    BY <1>10, <1>14
  <2> QED
    BY <1>0, <1>2, <2>1, <2>2, <2>3, <2>4 DEF Holds
<1> QED
  BY <1>17 DEF t

\* Both, as update does them, with memcpy.
LEMMA Keeping ==
  ASSUME NEW size \in Nat, size >= BLOCK, NEW buffer \in [0..size - 1 -> Byte],
         NEW absorbed, NEW k, NEW m, Holds(absorbed, buffer, k, m),
         NEW piece \in Seq(Byte), k + Len(piece) < BLOCK
  PROVE  /\ memcpy(buffer, k, piece, Len(piece)) \in [0..size - 1 -> Byte]
         /\ Holds(absorbed, memcpy(buffer, k, piece, Len(piece)), k + Len(piece), m \o piece)
<1> DEFINE p == Len(piece)
           buffer2 == memcpy(buffer, k, piece, p)
<1>1. p \in Nat /\ k \in 0..63 /\ k + p < 64 /\ size >= 64 /\ k \in Nat /\ p <= Len(piece)
  BY LenProperties DEF Holds, BLOCK
<1>2. /\ buffer2 \in [0..size - 1 -> Byte]
      /\ \A i \in 0..size - 1 : i < k \/ i >= k + p => buffer2[i] = buffer[i]
      /\ \A i \in 1..p : k + i <= size => buffer2[k + i - 1] = piece[i]
  <2> HIDE DEF p
  <2>1. Copied(buffer2, buffer, size, k, piece, p)
    BY <1>1, CopyFacts
  <2> HIDE DEF buffer2
  <2> QED
    BY <2>1 DEF Copied
<1> HIDE DEF p, buffer2
<1>3. \A i \in 0..k - 1 : buffer2[i] = buffer[i]
  BY <1>1, <1>2
<1>5. \A i \in 1..p : buffer2[k + i - 1] = piece[i]
  BY <1>1, <1>2
<1>6. Holds(absorbed, buffer2, k + p, m \o piece)
  BY <1>3, <1>5, KeepPiece DEF p
<1> QED
  BY <1>2, <1>6 DEF p, buffer2

\* The whole blocks of d bytes, and the rest.
LEMMA Blocks ==
  ASSUME NEW d \in Nat
  PROVE  /\ 64 * (d \div 64) \in Nat /\ (64 * (d \div 64)) % 64 = 0
         /\ d % 64 \in 0..63 /\ 64 * (d \div 64) + (d % 64) = d
<1>1. PICK q \in Nat, r \in Nat : d = 64 * q + r /\ q = d \div 64 /\ r = d % 64 /\ r < 64
  BY DivMod
<1>2. (64 * q + 0) % 64 = 0
  BY DivModUnique
<1>3. 64 * q \in Nat /\ (64 * q) % 64 = 0 /\ r \in 0..63
  BY <1>1, <1>2
<1>4. d = 64 * q + r
  BY <1>1
<1>5. /\ 64 * (d \div 64) \in Nat /\ (64 * (d \div 64)) % 64 = 0
  BY <1>1, <1>3
<1>6. d % 64 \in 0..63
  BY <1>1, <1>3
<1>7. 64 * (d \div 64) + (d % 64) = d
  <2>1. q = d \div 64
    BY <1>1
  <2>2. r = d % 64
    BY <1>1
  <2>3. 64 * (d \div 64) + (d % 64) = 64 * q + r
    BY <2>1, <2>2
  <2> QED
    BY <1>4, <2>3
<1> QED
  BY <1>5, <1>6, <1>7

\* Three sequences in a row, element by element.
LEMMA ThreeParts ==
  ASSUME NEW s \in Seq(Byte), NEW t \in Seq(Byte), NEW u \in Seq(Byte), NEW v, v = (s \o t) \o u
  PROVE  /\ v \in Seq(Byte) /\ Len(v) = Len(s) + Len(t) + Len(u)
         /\ \A i \in 1..Len(s) : v[i] = s[i]
         /\ \A i \in 1..Len(t) : v[Len(s) + i] = t[i]
         /\ \A i \in 1..Len(u) : v[(Len(s) + Len(t)) + i] = u[i]
<1>1. /\ s \o t \in Seq(Byte) /\ Len(s \o t) = Len(s) + Len(t)
      /\ Len(s) \in Nat /\ Len(t) \in Nat
      /\ \A i \in 1..Len(s) : (s \o t)[i] = s[i]
      /\ \A i \in 1..Len(t) : (s \o t)[Len(s) + i] = t[i]
  BY ConcatFacts
<1> DEFINE st == s \o t
<1>2. st \in Seq(Byte) /\ v = st \o u
  BY <1>1
<1> HIDE DEF st
<1>3. /\ v \in Seq(Byte) /\ Len(v) = Len(st) + Len(u)
      /\ \A i \in 1..Len(st) : v[i] = st[i]
      /\ \A i \in 1..Len(u) : v[Len(st) + i] = u[i]
  <2>1. /\ st \o u \in Seq(Byte) /\ Len(st \o u) = Len(st) + Len(u)
        /\ \A i \in 1..Len(st) : (st \o u)[i] = st[i]
        /\ \A i \in 1..Len(u) : (st \o u)[Len(st) + i] = u[i]
    BY <1>2, ConcatFacts
  <2> QED
    BY <1>2, <2>1
<1>4. /\ Len(st) = Len(s) + Len(t)
      /\ \A i \in 1..Len(s) : st[i] = s[i]
      /\ \A i \in 1..Len(t) : st[Len(s) + i] = t[i]
  BY <1>1 DEF st
<1>5. ASSUME NEW i \in 1..Len(s) PROVE v[i] = s[i]
  <2>1. i \in 1..Len(st)
    BY <1>1, <1>4
  <2> QED
    BY <1>3, <1>4, <2>1
<1>6. ASSUME NEW i \in 1..Len(t) PROVE v[Len(s) + i] = t[i]
  <2>1. Len(s) + i \in 1..Len(st)
    BY <1>1, <1>4
  <2>2. v[Len(s) + i] = st[Len(s) + i]
    BY <1>3, <2>1
  <2> QED
    BY <1>4, <2>2
<1> QED
  BY <1>3, <1>4, <1>5, <1>6

\* block is the buffer with k bytes in it, filled up with the first p of piece.
Fills(size, buffer, absorbed, k, piece, p, whole, rest, block) ==
  /\ size \in Nat /\ size >= 64 /\ k \in 0..63 /\ p \in 1..64 /\ k + p = 64
  /\ whole \in Nat /\ whole % 64 = 0 /\ rest \in 0..63
  /\ piece \in Seq(Byte) /\ Len(piece) = p + whole + rest
  /\ absorbed \in Seq(Byte) /\ block \in [0..size - 1 -> Byte]
  /\ \A i \in 0..size - 1 : i < k \/ i >= k + p => block[i] = buffer[i]
  /\ \A i \in 1..p : k + i <= size => block[k + i - 1] = piece[i]

\* The block that was filled, the whole blocks and the rest are the piece.
LEMMA FilledBlock ==
  ASSUME NEW size, NEW buffer, NEW absorbed, NEW k, NEW piece, NEW p, NEW whole, NEW rest, NEW block,
         Fills(size, buffer, absorbed, k, piece, p, whole, rest, block)
  PROVE  LET absorbed2 == (absorbed \o Slice(block, 0, 64)) \o SubSeq(piece, p + 1, p + whole)
             buffer2 == memcpy(block, 0, SubSeq(piece, (p + whole) + 1, (p + whole) + rest), rest)
         IN  /\ buffer2 \in [0..size - 1 -> Byte]
             /\ Absorbs(absorbed, buffer, k, piece, whole, rest, absorbed2, buffer2)
<1> DEFINE a == Len(absorbed)
           sl == Slice(block, 0, 64)
           su == SubSeq(piece, p + 1, p + whole)
           re == SubSeq(piece, (p + whole) + 1, (p + whole) + rest)
           absorbed2 == (absorbed \o sl) \o su
           buffer2 == memcpy(block, 0, re, rest)
<1>0. absorbed \in Seq(Byte) /\ piece \in Seq(Byte)
  BY DEF Fills
<1>a. a \in Nat
  BY <1>0, LenProperties
<1>b. size \in Nat /\ block \in [0..size - 1 -> Byte]
  BY DEF Fills
<1>c. /\ size \in Nat /\ size >= 64 /\ k \in 0..63 /\ p \in 1..64 /\ k + p = 64
      /\ whole \in Nat /\ rest \in 0..63
  BY DEF Fills
<1>d. Len(piece) = (p + whole) + rest
  BY DEF Fills
<1>2. /\ \A i \in 0..size - 1 : i < k \/ i >= k + p => block[i] = buffer[i]
      /\ \A i \in 1..p : k + i <= size => block[k + i - 1] = piece[i]
  BY DEF Fills
<1>3. sl \in Seq(Byte) /\ Len(sl) = 64 /\ \A i \in 1..64 : sl[i] = block[i - 1]
  <2> DEFINE n == 64
  <2>1. n \in Nat /\ n <= size
    BY <1>c
  <2> HIDE DEF n
  <2>2. /\ Slice(block, 0, n) \in Seq(Byte) /\ Len(Slice(block, 0, n)) = n
        /\ \A i \in 1..n : Slice(block, 0, n)[i] = block[i - 1]
    BY <1>b, <2>1, BlockFacts
  <2> QED
    BY <2>2 DEF n
<1>4. su \in Seq(Byte) /\ Len(su) = whole /\ \A i \in 1..whole : su[i] = piece[p + i]
  <2>1. p + whole <= Len(piece) /\ p \in Nat /\ whole \in Nat
    BY <1>c, <1>d
  <2> QED
    BY <1>0, <2>1, SliceFacts
<1>5. re \in Seq(Byte) /\ Len(re) = rest /\ \A i \in 1..rest : re[i] = piece[(p + whole) + i]
  <2> DEFINE n == p + whole
  <2>1. n + rest <= Len(piece) /\ n \in Nat /\ rest \in Nat
    BY <1>c, <1>d
  <2> HIDE DEF n
  <2>2. /\ SubSeq(piece, n + 1, n + rest) \in Seq(Byte)
        /\ Len(SubSeq(piece, n + 1, n + rest)) = rest
        /\ \A i \in 1..rest : SubSeq(piece, n + 1, n + rest)[i] = piece[n + i]
    BY <1>0, <2>1, SliceFacts
  <2> QED
    BY <2>2 DEF n
<1> HIDE DEF sl, su, re
<1>6. /\ buffer2 \in [0..size - 1 -> Byte]
      /\ \A i \in 1..rest : buffer2[i - 1] = re[i]
  <2>a. rest \in Nat /\ rest <= size
    BY <1>c
  <2>b. re \in Seq(Byte) /\ rest <= rest
    BY <1>5, <2>a
  <2>c. rest <= Len(re)
    BY <1>5, <2>b
  <2>1. rest \in Nat /\ rest <= Len(re) /\ re \in Seq(Byte) /\ rest <= size
    BY <2>a, <2>b, <2>c
  <2>2. buffer2 \in [0..size - 1 -> Byte]
    BY <1>b, <2>1, CopyFrontFacts
  <2>3. \A i \in 1..rest : buffer2[i - 1] = re[i]
    BY <1>b, <2>1, CopyFrontFacts
  <2> QED
    BY <2>2, <2>3
<1>7. /\ absorbed2 \in Seq(Byte) /\ Len(absorbed2) = a + 64 + whole
      /\ \A i \in 1..a : absorbed2[i] = absorbed[i]
      /\ \A i \in 1..64 : absorbed2[a + i] = sl[i]
      /\ \A i \in 1..whole : absorbed2[(a + 64) + i] = su[i]
  <2>1. /\ absorbed2 \in Seq(Byte) /\ Len(absorbed2) = Len(absorbed) + Len(sl) + Len(su)
        /\ \A i \in 1..Len(absorbed) : absorbed2[i] = absorbed[i]
        /\ \A i \in 1..Len(sl) : absorbed2[Len(absorbed) + i] = sl[i]
        /\ \A i \in 1..Len(su) : absorbed2[(Len(absorbed) + Len(sl)) + i] = su[i]
    <3>1. sl \in Seq(Byte) /\ su \in Seq(Byte)
      BY <1>3, <1>4
    <3>2. absorbed2 \in Seq(Byte)
      BY <1>0, <3>1, ThreeParts
    <3>3. Len(absorbed2) = Len(absorbed) + Len(sl) + Len(su)
      BY <1>0, <3>1, ThreeParts
    <3>4. \A i \in 1..Len(absorbed) : absorbed2[i] = absorbed[i]
      BY <1>0, <3>1, ThreeParts
    <3>5. \A i \in 1..Len(sl) : absorbed2[Len(absorbed) + i] = sl[i]
      BY <1>0, <3>1, ThreeParts
    <3>6. \A i \in 1..Len(su) : absorbed2[(Len(absorbed) + Len(sl)) + i] = su[i]
      BY <1>0, <3>1, ThreeParts
    <3> QED
      BY <3>2, <3>3, <3>4, <3>5, <3>6
  <2> QED
    BY <1>3, <1>4, <2>1
<1> HIDE DEF a, absorbed2, buffer2
<1>10. ASSUME NEW j \in 1..64 PROVE absorbed2[a + j] = block[j - 1]
  <2>1. absorbed2[a + j] = sl[j]
    BY <1>7
  <2>2. sl[j] = block[j - 1]
    BY <1>3
  <2> QED
    BY <2>1, <2>2
<1>11. ASSUME NEW i \in 0..k - 1 PROVE absorbed2[a + i + 1] = buffer[i]
  <2>1. PICK j \in 1..64 : j = i + 1
    <3>1. i + 1 \in 1..64
      BY <1>a, <1>c
    <3> QED
      BY <3>1
  <2>2. a + i + 1 = a + j /\ j - 1 = i
    BY <1>a, <1>c, <2>1
  <2>3. absorbed2[a + j] = block[j - 1]
    BY <1>10
  <2>4. i \in 0..size - 1 /\ i < k
    BY <1>a, <1>c
  <2>5. block[i] = buffer[i]
    BY <1>2, <2>4
  <2> QED
    BY <2>2, <2>3, <2>5
<1>12. ASSUME NEW i \in 1..(64 + whole) - k PROVE absorbed2[a + k + i] = piece[i]
  <2>1. CASE i <= p
    <3>1. PICK j \in 1..64 : j = k + i
      <4>1. k + i \in 1..64
        BY <1>a, <1>c, <2>1
      <4> QED
        BY <4>1
    <3>2. a + k + i = a + j /\ j - 1 = k + i - 1 /\ k + i <= size /\ i \in 1..p
      BY <1>a, <1>c, <2>1, <3>1
    <3>3. absorbed2[a + j] = block[j - 1]
      BY <1>10
    <3>4. block[k + i - 1] = piece[i]
      BY <1>2, <3>2
    <3> QED
      BY <3>2, <3>3, <3>4
  <2>2. CASE i > p
    <3>1. PICK j \in 1..whole : i = p + j
      <4>1. i - p \in 1..whole /\ i = p + (i - p)
        BY <1>a, <1>c, <2>2
      <4> QED
        BY <4>1
    <3>2. a + k + i = (a + 64) + j
      BY <1>a, <1>c, <3>1
    <3>3. absorbed2[(a + 64) + j] = su[j]
      BY <1>7
    <3>4. su[j] = piece[p + j]
      BY <1>4
    <3> QED
      BY <3>1, <3>2, <3>3, <3>4
  <2> QED
    BY <1>a, <1>c, <2>1, <2>2
<1>13. ASSUME NEW i \in 0..rest - 1 PROVE buffer2[i] = piece[((64 + whole) - k) + i + 1]
  <2>1. PICK j \in 1..rest : j = i + 1
    <3>1. i + 1 \in 1..rest
      BY <1>c
    <3> QED
      BY <3>1
  <2>2. ((64 + whole) - k) + i + 1 = (p + whole) + j /\ j - 1 = i
    BY <1>a, <1>c, <2>1
  <2>3. buffer2[j - 1] = re[j]
    BY <1>6
  <2>4. re[j] = piece[(p + whole) + j]
    BY <1>5
  <2> QED
    BY <2>2, <2>3, <2>4
<1>14. k + Len(piece) = 64 + whole + rest
  BY <1>c, <1>d
<1>15. whole % 64 = 0
  BY DEF Fills
<1>16. Absorbs(absorbed, buffer, k, piece, whole, rest, absorbed2, buffer2)
  <2>1. /\ piece \in Seq(Byte) /\ whole \in Nat /\ whole % BLOCK = 0 /\ rest \in 0..BLOCK - 1
        /\ k + Len(piece) = BLOCK + whole + rest
    BY <1>0, <1>c, <1>14, <1>15 DEF BLOCK
  <2>2. absorbed2 \in Seq(Byte) /\ Len(absorbed2) = Len(absorbed) + BLOCK + whole
    BY <1>7 DEF a, BLOCK
  <2>3. \A i \in 1..Len(absorbed) : absorbed2[i] = absorbed[i]
    BY <1>7 DEF a
  <2>4. \A i \in 0..k - 1 : absorbed2[Len(absorbed) + i + 1] = buffer[i]
    BY <1>11 DEF a
  <2>5. \A i \in 1..(BLOCK + whole) - k : absorbed2[Len(absorbed) + k + i] = piece[i]
    BY <1>12 DEF a, BLOCK
  <2>6. \A i \in 0..rest - 1 : buffer2[i] = piece[((BLOCK + whole) - k) + i + 1]
    BY <1>13 DEF BLOCK
  <2> QED
    BY <2>1, <2>2, <2>3, <2>4, <2>5, <2>6 DEF Absorbs
<1> QED
  BY <1>6, <1>16 DEF sl, su, re, absorbed2, buffer2

\* A piece that fills the block, as update absorbs it.
LEMMA Absorbing ==
  ASSUME NEW size \in Nat, size >= BLOCK, NEW buffer \in [0..size - 1 -> Byte],
         NEW absorbed, NEW k, NEW m, Holds(absorbed, buffer, k, m),
         NEW piece \in Seq(Byte), BLOCK <= k + Len(piece)
  PROVE  LET p == BLOCK - k
             whole == BLOCK * ((Len(piece) - p) \div BLOCK)
             rest == (Len(piece) - p) % BLOCK
             block == memcpy(buffer, k, piece, p)
             absorbed2 == (absorbed \o Slice(block, 0, BLOCK)) \o SubSeq(piece, p + 1, p + whole)
             buffer2 == memcpy(block, 0, SubSeq(piece, (p + whole) + 1, Len(piece)), rest)
         IN  /\ buffer2 \in [0..size - 1 -> Byte] /\ Holds(absorbed2, buffer2, rest, m \o piece)
             /\ p \in 1..BLOCK /\ whole \in Nat /\ rest \in 0..BLOCK - 1
             /\ Len(piece) = (p + whole) + rest
<1> DEFINE n == Len(piece)
           p == BLOCK - k
           whole == BLOCK * ((Len(piece) - p) \div BLOCK)
           rest == (Len(piece) - p) % BLOCK
           block == memcpy(buffer, k, piece, p)
           absorbed2 == (absorbed \o Slice(block, 0, BLOCK)) \o SubSeq(piece, p + 1, p + whole)
           buffer2 == memcpy(block, 0, SubSeq(piece, (p + whole) + 1, Len(piece)), rest)
           buffer3 == memcpy(block, 0, SubSeq(piece, (p + whole) + 1, (p + whole) + rest), rest)
<1>1. n \in Nat /\ k \in 0..63 /\ k \in Nat /\ 64 <= k + n
  BY LenProperties DEF Holds, BLOCK
<1>2. p \in 1..64 /\ k + p = 64 /\ p \in Nat /\ p <= n /\ n - p \in Nat
  <2> HIDE DEF n
  <2> QED
    BY <1>1 DEF BLOCK
<1>3. /\ whole \in Nat /\ whole % 64 = 0 /\ rest \in 0..63 /\ n = (p + whole) + rest
  <2> DEFINE d == n - p
             x == 64 * (d \div 64)
             y == d % 64
  <2>1. d \in Nat /\ whole = x /\ rest = y /\ n = p + d
    BY <1>1, <1>2 DEF BLOCK
  <2> HIDE DEF d
  <2>2. x \in Nat /\ x % 64 = 0
    BY <2>1, Blocks
  <2>3. y \in 0..63
    BY <2>1, Blocks
  <2>4. x + y = d
    BY <2>1, Blocks
  <2> HIDE DEF x, y, whole, rest, n, p
  <2>5. n = (p + x) + y
    BY <1>2, <2>1, <2>2, <2>3, <2>4
  <2> QED
    BY <2>1, <2>2, <2>3, <2>5
<1> HIDE DEF p, whole, rest
<1>4. p <= Len(piece)
  BY <1>2
<1>a. Copied(block, buffer, size, k, piece, p)
  BY <1>1, <1>2, <1>4, CopyFacts
<1> HIDE DEF block
<1>5. block \in [0..size - 1 -> Byte]
  BY <1>a DEF Copied
<1>6. \A i \in 0..size - 1 : i < k \/ i >= k + p => block[i] = buffer[i]
  BY <1>a DEF Copied
<1>7. \A i \in 1..p : k + i <= size => block[k + i - 1] = piece[i]
  BY <1>a DEF Copied
<1>8. Fills(size, buffer, absorbed, k, piece, p, whole, rest, block)
  <2>1. absorbed \in Seq(Byte)
    BY DEF Holds
  <2>2. size >= 64
    BY DEF BLOCK
  <2>3. Len(piece) = (p + whole) + rest
    BY <1>3
  <2> QED
    BY <1>1, <1>2, <1>3, <1>5, <1>6, <1>7, <2>1, <2>2, <2>3 DEF Fills
<1>9. buffer2 = buffer3 /\ Slice(block, 0, BLOCK) = Slice(block, 0, 64)
  BY <1>3 DEF BLOCK
<1>10. /\ buffer3 \in [0..size - 1 -> Byte]
       /\ Absorbs(absorbed, buffer, k, piece, whole, rest, absorbed2, buffer3)
  BY <1>8, <1>9, FilledBlock
<1> HIDE DEF absorbed2, buffer2, buffer3
<1>11. buffer2 \in [0..size - 1 -> Byte]
  BY <1>9, <1>10
<1>12. Holds(absorbed2, buffer2, rest, m \o piece)
  <2>1. Absorbs(absorbed, buffer, k, piece, whole, rest, absorbed2, buffer2)
    BY <1>9, <1>10
  <2> QED
    BY <2>1, AbsorbPiece
<1>13. p \in 1..BLOCK /\ rest \in 0..BLOCK - 1
  BY <1>2, <1>3 DEF BLOCK
<1> QED
  BY <1>3, <1>11, <1>12, <1>13 DEF p, whole, rest, block, absorbed2, buffer2

-----------------------------------------------------------------------------
(* MD5.                                                                    *)

\* lo and hi count the bits of n bytes.
Md5Counted(c, n) ==
  c.lo = (8 * n) % WORD /\ c.hi = ((8 * n) \div WORD) % WORD

\* The object has been given the message m.
Md5Holds(c, m) ==
  /\ c \in Md5Context
  /\ Holds(c.absorbed, c.buffer, Len(m) % BLOCK, m)
  /\ Md5Counted(c, Len(m))

\* count adds the bits of length to the 64 bits.
LEMMA Md5CountFacts ==
  ASSUME NEW c \in Md5Context, NEW n \in Nat, NEW length \in Nat, Md5Counted(c, n)
  PROVE  /\ Md5Count(c, length) \in Md5Context
         /\ Md5Counted(Md5Count(c, length), n + length)
         /\ Md5Count(c, length).buffer = c.buffer
         /\ Md5Count(c, length).absorbed = c.absorbed
         /\ Md5Count(c, length).finalized = c.finalized
         /\ Md5Count(c, length).digest = c.digest
<1> DEFINE a == 8 * n
           b == 8 * length
           lo == (c.lo + (b % WORD)) % WORD
           carry == IF lo < b % WORD THEN 1 ELSE 0
           hi == (c.hi + carry + (b \div WORD)) % WORD
<1>1. a \in Nat /\ b \in Nat /\ a + b = 8 * (n + length) /\ WORD \in Nat \ {0}
  BY WordFacts
<1>2. Md5Count(c, length) = [c EXCEPT !.lo = lo, !.hi = hi]
  BY DEF Md5Count
<1>3. c.lo = a % WORD /\ c.hi = (a \div WORD) % WORD
  BY DEF Md5Counted
<1> HIDE DEF a, b
<1>4. lo = ((a % WORD) + (b % WORD)) % WORD
  BY <1>3
<1>5. lo = (a + b) % WORD /\ (((a \div WORD) % WORD) + carry + (b \div WORD)) % WORD = ((a + b) \div WORD) % WORD
  <2> DEFINE w == WORD
  <2>1. w \in Nat \ {0}
    BY <1>1
  <2>2. IsSum(w, a, b, lo, carry)
    BY <1>4 DEF IsSum
  <2> HIDE DEF w, lo, carry
  <2>3. lo = (a + b) % w /\ (((a \div w) % w) + carry + (b \div w)) % w = ((a + b) \div w) % w
    BY <1>1, <2>1, <2>2, Carry
  <2> QED
    BY <2>3 DEF w
<1>6. hi = ((a + b) \div WORD) % WORD
  <2> HIDE DEF carry
  <2> QED
    BY <1>3, <1>5
<1>7. (a + b) % WORD \in 0..WORD - 1 /\ ((a + b) \div WORD) % WORD \in 0..WORD - 1
  <2> DEFINE w == WORD
             x == a + b
  <2>1. w \in Nat \ {0} /\ x \in Nat
    BY <1>1
  <2> HIDE DEF w, x
  <2>2. x % w \in Nat /\ x % w < w /\ x \div w \in Nat
    BY <2>1, DivMod
  <2>3. (x \div w) % w \in Nat /\ (x \div w) % w < w
    BY <2>1, <2>2, DivMod
  <2>4. x % w \in 0..w - 1 /\ (x \div w) % w \in 0..w - 1
    BY <2>1, <2>2, <2>3
  <2> QED
    BY <2>4 DEF w, x
<1> HIDE DEF lo, carry, hi
<1>8. lo \in 0..WORD - 1 /\ hi \in 0..WORD - 1
  BY <1>5, <1>6, <1>7
<1> DEFINE d == [c EXCEPT !.lo = lo, !.hi = hi]
<1>9. d \in Md5Context /\ d.lo = lo /\ d.hi = hi /\ d.buffer = c.buffer /\ d.absorbed = c.absorbed
      /\ d.finalized = c.finalized /\ d.digest = c.digest
  BY <1>8 DEF Md5Context
<1>10. lo = (8 * (n + length)) % WORD /\ hi = ((8 * (n + length)) \div WORD) % WORD
  BY <1>1, <1>5, <1>6
<1> HIDE DEF d
<1>11. Md5Counted(d, n + length)
  BY <1>9, <1>10 DEF Md5Counted
<1>12. Md5Count(c, length) = d
  BY <1>2 DEF d
<1> QED
  BY <1>9, <1>11, <1>12

\* What update takes of a piece: all of it, if it has less than 2^32 bytes.
LEMMA SizeFacts ==
  ASSUME NEW input \in Seq(Byte)
  PROVE  /\ Size(input) \in Nat /\ Size(input) <= Len(input) /\ Size(input) < WORD
         /\ Len(input) < WORD => Size(input) = Len(input)
<1> DEFINE n == Len(input)
           w == WORD
<1>1. n \in Nat /\ w \in Nat \ {0}
  BY LenProperties, WordFacts
<1> HIDE DEF n, w
<1>2. n % w \in 0..w - 1
  BY <1>1
<1>5. n % w <= n
  <2>1. n = w * (n \div w) + (n % w) /\ n \div w \in Nat /\ n % w \in Nat
    BY <1>1, DivMod
  <2> DEFINE q == n \div w
             p == w * q
  <2>2. p \in Nat
    BY <1>1, <2>1
  <2>3. n = p + (n % w)
    BY <2>1
  <2> HIDE DEF p
  <2> QED
    BY <1>1, <2>1, <2>2, <2>3
<1>6. n < w => n % w = n
  BY <1>1
<1> QED
  BY <1>1, <1>2, <1>5, <1>6 DEF Size, n, w

\* update continues the message.
LEMMA Md5UpdateFacts ==
  ASSUME NEW c, NEW m, Md5Holds(c, m), NEW input \in Seq(Byte), Len(input) < WORD
  PROVE  /\ Md5Holds(Md5Update(c, input), m \o input)
         /\ Md5Update(c, input).finalized = c.finalized
         /\ Md5Update(c, input).digest = c.digest
<1> DEFINE n == Len(m)
           length == Len(input)
           index == (c.lo \div 8) % BLOCK
           counted == Md5Count(c, length)
           firstpart == BLOCK - index
           whole == BLOCK * ((length - firstpart) \div BLOCK)
           i == firstpart + whole
           filled == memcpy(c.buffer, index, input, firstpart)
           rest == (length - firstpart) % BLOCK
           absorbed2 == (c.absorbed \o Slice(filled, 0, BLOCK)) \o SubSeq(input, firstpart + 1, i)
           buffer2 == memcpy(filled, 0, SubSeq(input, i + 1, length), rest)
<1>1. c \in Md5Context /\ Holds(c.absorbed, c.buffer, n % BLOCK, m) /\ Md5Counted(c, n)
  BY DEF Md5Holds
<1>2. n \in Nat /\ length \in Nat /\ m \in Seq(Byte)
  BY <1>1, LenProperties DEF Holds
<1>3. index = n % BLOCK
  <2>1. c.lo = (8 * n) % WORD
    BY <1>1 DEF Md5Counted
  <2> HIDE DEF n
  <2>2. (((8 * n) % WORD) \div 8) % 64 = n % 64
    BY <1>2, IndexFromBits
  <2> QED
    BY <2>1, <2>2 DEF BLOCK
<1>4. /\ counted \in Md5Context /\ Md5Counted(counted, n + length)
      /\ counted.buffer = c.buffer /\ counted.absorbed = c.absorbed
      /\ counted.finalized = c.finalized /\ counted.digest = c.digest
  BY <1>1, <1>2, Md5CountFacts
<1> DEFINE size == 64
<1>a. Holds(c.absorbed, c.buffer, index, m)
  <2> HIDE DEF index, n
  <2> QED
    BY <1>1, <1>3
<1>b. index \in 0..63
  BY <1>a DEF Holds, BLOCK
<1>c. size \in Nat /\ size >= BLOCK /\ c.buffer \in [0..size - 1 -> Byte]
  BY <1>1 DEF BLOCK, Md5Context
<1>6. m \o input \in Seq(Byte) /\ Len(m \o input) = n + length
  BY <1>2, ConcatFacts
<1>7. Md5Update(c, input) =
        IF length < firstpart
        THEN [counted EXCEPT !.buffer = memcpy(counted.buffer, index, input, length)]
        ELSE [counted EXCEPT !.absorbed = (counted.absorbed \o Slice(filled, 0, BLOCK)) \o SubSeq(input, firstpart + 1, i),
                             !.buffer = memcpy(filled, 0, SubSeq(input, i + 1, length), length - i)]
  <2>1. Size(input) = length
    BY SizeFacts
  <2>2. FirstPart(c) = firstpart /\ LoopEnd(c, length) = i
    BY DEF FirstPart, LoopEnd
  <2> HIDE DEF length, firstpart, i
  <2> QED
    BY <1>4, <2>1, <2>2 DEF Md5Update, Md5Context, firstpart, i, filled, index
<1> HIDE DEF n, length, index, counted, size
<1>8. CASE length < firstpart
  <2> DEFINE buffer1 == memcpy(c.buffer, index, input, length)
             d == [counted EXCEPT !.buffer = buffer1]
  <2>1. Md5Update(c, input) = d
    BY <1>4, <1>7, <1>8
  <2>2. index + length < BLOCK
    BY <1>2, <1>b, <1>8 DEF BLOCK
  <2>3. buffer1 \in [0..size - 1 -> Byte] /\ Holds(c.absorbed, buffer1, index + length, m \o input)
    BY <1>a, <1>c, <2>2, Keeping DEF length
  <2> HIDE DEF buffer1
  <2>4. /\ d \in Md5Context /\ d.lo = counted.lo /\ d.hi = counted.hi /\ d.absorbed = c.absorbed
        /\ d.buffer = buffer1 /\ d.finalized = c.finalized /\ d.digest = c.digest
    BY <1>4, <2>3 DEF Md5Context, BLOCK, size
  <2> HIDE DEF d
  <2>5. Holds(d.absorbed, d.buffer, Len(m \o input) % BLOCK, m \o input)
    <3>1. Len(m \o input) % BLOCK = index + length
      BY <2>3, HeldIsLength
    <3> QED
      BY <2>3, <2>4, <3>1
  <2>6. Md5Counted(d, Len(m \o input))
    BY <1>4, <1>6, <2>4 DEF Md5Counted
  <2>7. Md5Holds(d, m \o input)
    BY <2>4, <2>5, <2>6 DEF Md5Holds
  <2> QED
    BY <2>1, <2>4, <2>7
<1>9. CASE ~ (length < firstpart)
  <2> DEFINE d == [counted EXCEPT !.absorbed = absorbed2, !.buffer = buffer2]
  <2>1. BLOCK <= index + length
    BY <1>2, <1>b, <1>9 DEF BLOCK
  <2>2. /\ buffer2 \in [0..size - 1 -> Byte] /\ Holds(absorbed2, buffer2, rest, m \o input)
        /\ firstpart \in 1..BLOCK /\ whole \in Nat /\ rest \in 0..BLOCK - 1
        /\ length = i + rest
    BY <1>a, <1>c, <2>1, Absorbing DEF length
  <2> HIDE DEF firstpart, whole, rest
  <2>3. length - i = rest
    <3>1. length = (firstpart + whole) + rest
      BY <2>2
    <3>2. firstpart \in 1..64 /\ whole \in Nat /\ rest \in 0..63
      BY <2>2 DEF BLOCK
    <3> QED
      BY <3>1, <3>2
  <2>4. Md5Update(c, input) = d
    BY <1>4, <1>7, <1>9, <2>3
  <2> HIDE DEF absorbed2, buffer2
  <2>5. absorbed2 \in Seq(Byte)
    BY <2>2 DEF Holds
  <2>6. /\ d \in Md5Context /\ d.lo = counted.lo /\ d.hi = counted.hi /\ d.absorbed = absorbed2
        /\ d.buffer = buffer2 /\ d.finalized = c.finalized /\ d.digest = c.digest
    BY <1>4, <2>2, <2>5 DEF Md5Context, BLOCK, size
  <2> HIDE DEF d
  <2>7. Holds(d.absorbed, d.buffer, Len(m \o input) % BLOCK, m \o input)
    <3>1. Len(m \o input) % BLOCK = rest
      BY <2>2, HeldIsLength
    <3> QED
      BY <2>2, <2>6, <3>1
  <2>8. Md5Counted(d, Len(m \o input))
    BY <1>4, <1>6, <2>6 DEF Md5Counted
  <2>9. Md5Holds(d, m \o input)
    BY <2>6, <2>7, <2>8 DEF Md5Holds
  <2> QED
    BY <2>4, <2>6, <2>9
<1> QED
  BY <1>8, <1>9

-----------------------------------------------------------------------------
(* Padding.                                                                *)

\* Sequences are equal, element by element.
LEMMA SameSequence ==
  ASSUME NEW s \in Seq(Byte), NEW t \in Seq(Byte), Len(s) = Len(t), \A i \in 1..Len(s) : s[i] = t[i]
  PROVE  s = t
OBVIOUS

\* With nothing waiting, what has been absorbed is the message.
LEMMA HeldWhole ==
  ASSUME NEW absorbed, NEW buffer, NEW m, Holds(absorbed, buffer, 0, m)
  PROVE  absorbed = m
<1>1. absorbed \in Seq(Byte) /\ m \in Seq(Byte) /\ Len(m) = Len(absorbed) + 0
  BY DEF Holds
<1>2. Len(absorbed) = Len(m)
  BY <1>1, LenProperties
<1>3. \A i \in 1..Len(absorbed) : absorbed[i] = m[i]
  BY DEF Holds
<1> QED
  BY <1>1, <1>2, <1>3, SameSequence

\* A word is four bytes ...
LEMMA LittleEndianFacts ==
  ASSUME NEW w \in Nat
  PROVE  LittleEndian(w) \in Seq(Byte) /\ Len(LittleEndian(w)) = 4
<1>1. BYTE \in Nat \ {0} /\ BYTE * BYTE \in Nat \ {0} /\ BYTE * BYTE * BYTE \in Nat \ {0}
  <2>1. BYTE \in Nat \ {0}
    BY ByteAssumption
  <2>2. BYTE * BYTE \in Nat \ {0}
    BY <2>1
  <2> QED
    BY <2>1, <2>2
<1>2. w \div BYTE \in Nat
  BY <1>1, DivMod
<1>3. w \div (BYTE * BYTE) \in Nat
  <2> DEFINE x == BYTE * BYTE
  <2>1. x \in Nat \ {0}
    BY <1>1
  <2> HIDE DEF x
  <2>2. w \div x \in Nat
    BY <2>1, DivMod
  <2> QED
    BY <2>2 DEF x
<1>4. w \div (BYTE * BYTE * BYTE) \in Nat
  <2> DEFINE x == BYTE * BYTE * BYTE
  <2>1. x \in Nat \ {0}
    BY <1>1
  <2> HIDE DEF x
  <2>2. w \div x \in Nat
    BY <2>1, DivMod
  <2> QED
    BY <2>2 DEF x
<1>5. /\ w % BYTE \in Byte /\ (w \div BYTE) % BYTE \in Byte
      /\ (w \div (BYTE * BYTE)) % BYTE \in Byte /\ (w \div (BYTE * BYTE * BYTE)) % BYTE \in Byte
  BY <1>2, <1>3, <1>4, BytesAreBytes
<1> QED
  BY <1>5 DEF LittleEndian

\* ... in either order ...
LEMMA BigEndianFacts ==
  ASSUME NEW w \in Nat
  PROVE  BigEndian(w) \in Seq(Byte) /\ Len(BigEndian(w)) = 4
<1>1. LittleEndian(w) \in Seq(Byte) /\ Len(LittleEndian(w)) = 4
  BY LittleEndianFacts
<1>2. \A i \in 1..4 : 5 - i \in 1..4
  OBVIOUS
<1>3. \A i \in 1..4 : LittleEndian(w)[5 - i] \in Byte
  BY <1>1, <1>2
<1> QED
  BY <1>3 DEF BigEndian

\* ... and 0 is four bytes 0.
LEMMA BigEndianZero == \A i \in 1..4 : BigEndian(0)[i] = 0
<1>1. BYTE \in Nat \ {0}
  BY ByteAssumption
<1>2. 0 % BYTE = 0 /\ 0 \div BYTE = 0
  <2>1. (BYTE * 0 + 0) % BYTE = 0 /\ (BYTE * 0 + 0) \div BYTE = 0
    BY <1>1, DivModUnique
  <2>2. BYTE * 0 + 0 = 0
    BY <1>1
  <2> QED
    BY <2>1, <2>2
<1>3. \A x \in Nat \ {0} : 0 \div x = 0
  OBVIOUS
<1>4. BYTE * BYTE \in Nat \ {0}
  BY <1>1
<1>5. BYTE * BYTE * BYTE \in Nat \ {0}
  BY <1>1, <1>4
<1>6. 0 \div (BYTE * BYTE) = 0 /\ 0 \div (BYTE * BYTE * BYTE) = 0
  BY <1>3, <1>4, <1>5
<1>7. LittleEndian(0) = <<0, 0, 0, 0>>
  BY <1>2, <1>6 DEF LittleEndian
<1>8. \A i \in 1..4 : 5 - i \in 1..4
  OBVIOUS
<1>9. \A i \in 1..4 : <<0, 0, 0, 0>>[i] = 0
  OBVIOUS
<1> QED
  BY <1>7, <1>8, <1>9 DEF BigEndian

\* The mark, and zeros.
Mark(p) == <<128>> \o Repeat(0, p - 1)

\* Mark is p bytes long.
LEMMA MarkFacts ==
  ASSUME NEW p \in Nat \ {0}
  PROVE  /\ Mark(p) \in Seq(Byte) /\ Len(Mark(p)) = p
         /\ Mark(p)[1] = 128 /\ \A i \in 2..p : Mark(p)[i] = 0
<1> DEFINE s == <<128>>
           t == Repeat(0, p - 1)
<1>1. s \in Seq(Byte) /\ Len(s) = 1 /\ s[1] = 128
  BY BytesAreBytes
<1>2. t \in Seq(Byte) /\ Len(t) = p - 1 /\ \A i \in 1..p - 1 : t[i] = 0
  <2> DEFINE q == p - 1
             z == 0
  <2>1. q \in Nat /\ z \in Byte
    BY BytesAreBytes
  <2> HIDE DEF q, z
  <2>2. Repeat(z, q) \in Seq(Byte) /\ Len(Repeat(z, q)) = q /\ \A i \in 1..q : Repeat(z, q)[i] = z
    BY <2>1, RepeatFacts
  <2> QED
    BY <2>2 DEF q, z
<1>a. s \in Seq(Byte) /\ t \in Seq(Byte)
  BY <1>1, <1>2
<1> HIDE DEF s, t
<1>3. /\ s \o t \in Seq(Byte) /\ Len(s \o t) = Len(s) + Len(t)
      /\ \A i \in 1..Len(s) : (s \o t)[i] = s[i]
      /\ \A i \in 1..Len(t) : (s \o t)[Len(s) + i] = t[i]
  BY <1>a, ConcatFacts
<1>4. Len(s \o t) = p /\ (s \o t)[1] = 128
  BY <1>1, <1>2, <1>3
<1>5. ASSUME NEW i \in 2..p PROVE (s \o t)[i] = 0
  <2>1. PICK j \in 1..p - 1 : j = i - 1
    <3>1. i - 1 \in 1..p - 1
      OBVIOUS
    <3> QED
      BY <3>1
  <2>2. i = 1 + j
    BY <2>1
  <2>3. (s \o t)[1 + j] = t[j]
    BY <1>1, <1>2, <1>3
  <2> QED
    BY <1>2, <2>2, <2>3
<1> QED
  BY <1>3, <1>4, <1>5 DEF s, t, Mark

\* The standard's padding leaves room for eight bytes in the last block.
LEMMA PadFacts ==
  ASSUME NEW n \in Nat
  PROVE  /\ PadLength(n) \in 1..64 /\ (n + PadLength(n)) % 64 = 56
         /\ PadLength(n) = IF n % 64 < 56 THEN 56 - (n % 64) ELSE 120 - (n % 64)
         /\ Pad(n) \in Seq(Byte) /\ Len(Pad(n)) = PadLength(n)
         /\ Pad(n)[1] = 128 /\ \A i \in 2..PadLength(n) : Pad(n)[i] = 0
<1> DEFINE p == PadLength(n)
<1>1. p = IF n % 64 < 56 THEN 56 - (n % 64) ELSE 120 - (n % 64)
  BY DEF PadLength, BLOCK
<1>2. p \in 1..64 /\ (n + p) % 64 = 56
  BY <1>1
<1>3. p \in Nat \ {0}
  BY <1>2
<1> DEFINE t == Mark(p)
<1>a. Pad(n) = t
  BY DEF Pad, Mark
<1> HIDE DEF p
<1>b. t \in Seq(Byte) /\ Len(t) = p /\ t[1] = 128 /\ \A i \in 2..p : t[i] = 0
  BY <1>3, MarkFacts
<1> HIDE DEF t
<1>4. /\ Pad(n) \in Seq(Byte) /\ Len(Pad(n)) = p
      /\ Pad(n)[1] = 128 /\ \A i \in 2..p : Pad(n)[i] = 0
  BY <1>a, <1>b
<1> QED
  BY <1>1, <1>2, <1>4 DEF p

\* padding, cut to the length, is the standard's padding.
LEMMA PaddingIsPad ==
  ASSUME NEW n \in Nat
  PROVE  SubSeq(padding, 1, PadLength(n)) = Pad(n)
<1> DEFINE p == PadLength(n)
           s == SubSeq(padding, 1, p)
<1>0. p \in 1..64
  BY PadFacts
<1>a. Pad(n) \in Seq(Byte) /\ Len(Pad(n)) = p
  BY PadFacts
<1>b. Pad(n)[1] = 128
  BY PadFacts
<1>c. \A i \in 2..p : Pad(n)[i] = 0
  BY PadFacts
<1>1. /\ Pad(n) \in Seq(Byte) /\ Len(Pad(n)) = p
      /\ Pad(n)[1] = 128 /\ \A i \in 2..p : Pad(n)[i] = 0
  BY <1>a, <1>b, <1>c
<1>2. /\ padding \in Seq(Byte) /\ Len(padding) = 64
      /\ padding[1] = 128 /\ \A i \in 2..64 : padding[i] = 0
  <2> DEFINE q == 64
             t == Mark(q)
  <2>1. q \in Nat \ {0} /\ padding = t
    BY DEF padding, Mark, BLOCK
  <2> HIDE DEF q
  <2>2. t \in Seq(Byte) /\ Len(t) = q /\ t[1] = 128 /\ \A i \in 2..q : t[i] = 0
    BY <2>1, MarkFacts
  <2> HIDE DEF t
  <2> QED
    BY <2>1, <2>2 DEF q
<1>3. s \in Seq(Byte) /\ Len(s) = p /\ \A i \in 1..p : s[i] = padding[i]
  <2> DEFINE z == 0
             t == SubSeq(padding, z + 1, z + p)
  <2> HIDE DEF p
  <2>a. Len(padding) = 64 /\ padding \in Seq(Byte)
    BY <1>2
  <2>1. z \in Nat /\ p \in Nat /\ z + p <= Len(padding) /\ padding \in Seq(Byte)
    BY <1>0, <2>a
  <2>2. s = t /\ \A i \in 1..p : z + i = i
    BY <1>0
  <2> HIDE DEF z, s
  <2>3. t \in Seq(Byte) /\ Len(t) = p /\ \A i \in 1..p : t[i] = padding[z + i]
    BY <2>1, SliceFacts
  <2> QED
    BY <2>2, <2>3
<1> HIDE DEF s, p
<1>4. ASSUME NEW i \in 1..p PROVE s[i] = Pad(n)[i]
  <2>1. i = 1 \/ (i \in 2..p /\ i \in 2..64)
    BY <1>0
  <2>2. s[i] = padding[i]
    BY <1>3
  <2>3. CASE i = 1
    BY <1>1, <1>2, <2>2, <2>3
  <2>4. CASE i \in 2..p /\ i \in 2..64
    <3>1. padding[i] = 0
      BY <1>2, <2>4
    <3>2. Pad(n)[i] = 0
      BY <1>1, <2>4
    <3> QED
      BY <2>2, <3>1, <3>2
  <2> QED
    BY <2>1, <2>3, <2>4
<1>5. s = Pad(n)
  BY <1>1, <1>3, <1>4, SameSequence
<1> QED
  BY <1>5 DEF s, p

-----------------------------------------------------------------------------
(* The ends.                                                               *)

\* Concatenation of bytes is associative.
LEMMA Associative ==
  ASSUME NEW s \in Seq(Byte), NEW t \in Seq(Byte), NEW u \in Seq(Byte)
  PROVE  (s \o t) \o u = s \o (t \o u)
BY ConcatAssociative

\* finalize leaves the object well typed, with the digest of the padded message.
LEMMA Md5DigestFacts ==
  ASSUME NEW c, NEW m, Md5Holds(c, m)
  PROVE  /\ Md5Digest(c) \in Md5Context
         /\ Md5Digest(c).finalized = TRUE
         /\ Md5Digest(c).digest = Md5Padded(m)
<1> DEFINE n == Len(m)
           A == LittleEndian(c.lo)
           B == LittleEndian(c.hi)
           index == (c.lo \div 8) % BLOCK
           padLen == IF index < 56 THEN 56 - index ELSE 120 - index
           P == SubSeq(padding, 1, padLen)
           padded == Md5Update(c, P)
           final == Md5Update(padded, A \o B)
           d == [final EXCEPT !.digest = final.absorbed, !.buffer = [i \in 0..BLOCK - 1 |-> 0],
                              !.lo = 0, !.hi = 0, !.finalized = TRUE]
<1>0. Md5Digest(c) = d
  BY DEF Md5Digest
<1>1. m \in Seq(Byte) /\ n \in Nat
  BY LenProperties DEF Md5Holds, Holds
<1>2. c.lo = (8 * n) % WORD /\ c.hi = ((8 * n) \div WORD) % WORD /\ c.lo \in Nat /\ c.hi \in Nat
  <2>1. c.lo = (8 * n) % WORD /\ c.hi = ((8 * n) \div WORD) % WORD
    BY DEF Md5Holds, Md5Counted
  <2>2. c.lo \in Nat /\ c.hi \in Nat
    BY WordFacts DEF Md5Holds, Md5Context
  <2> QED
    BY <2>1, <2>2
<1>3. index = n % 64
  <2>1. c.lo = (8 * n) % WORD
    BY <1>2
  <2> HIDE DEF n
  <2>2. (((8 * n) % WORD) \div 8) % 64 = n % 64
    BY <1>1, IndexFromBits
  <2> QED
    BY <2>1, <2>2 DEF BLOCK
<1> HIDE DEF n, index
<1>4. padLen = PadLength(n)
  BY <1>3 DEF PadLength, BLOCK
<1>5. P = Pad(n)
  BY <1>1, <1>4, PaddingIsPad
<1>6. Pad(n) \in Seq(Byte) /\ Len(Pad(n)) = PadLength(n)
  BY <1>1, PadFacts
<1>7. PadLength(n) \in Nat /\ (n + PadLength(n)) % 64 = 56
  <2>1. n \in Nat
    BY <1>1
  <2>2. PadLength(n) \in 1..64
    BY <2>1, PadFacts
  <2>3. (n + PadLength(n)) % 64 = 56
    BY <2>1, PadFacts
  <2> QED
    BY <2>2, <2>3
<1>8. A \in Seq(Byte) /\ Len(A) = 4
  BY <1>2, LittleEndianFacts
<1>9. B \in Seq(Byte) /\ Len(B) = 4
  BY <1>2, LittleEndianFacts
<1> HIDE DEF A, B, P
<1>10. Md5Holds(padded, m \o P)
  <2>1. P \in Seq(Byte) /\ Len(P) < WORD
    <3>1. n \in Nat
      BY <1>1
    <3>2. PadLength(n) \in 1..64
      BY <3>1, PadFacts
    <3>3. PadLength(n) < WORD
      BY <3>2, LongWord
    <3>4. P \in Seq(Byte) /\ Len(P) = PadLength(n)
      BY <1>5, <1>6
    <3> QED
      BY <3>3, <3>4
  <2> QED
    BY <2>1, Md5UpdateFacts
<1>11. A \o B \in Seq(Byte) /\ Len(A \o B) = 8
  <2>1. A \in Seq(Byte) /\ B \in Seq(Byte)
    BY <1>8, <1>9
  <2>2. A \o B \in Seq(Byte) /\ Len(A \o B) = Len(A) + Len(B)
    BY <2>1, ConcatFacts
  <2> QED
    BY <1>8, <1>9, <2>2
<1> HIDE DEF padded
<1> DEFINE whole == (m \o P) \o (A \o B)
<1>12. Md5Holds(final, whole)
  <2>1. Len(A \o B) < WORD
    BY <1>11, LongWord
  <2> QED
    BY <1>10, <1>11, <2>1, Md5UpdateFacts
<1>13. P \in Seq(Byte) /\ Len(P) = PadLength(n)
  BY <1>5, <1>6
<1>14. m \o P \in Seq(Byte) /\ Len(m \o P) = n + PadLength(n)
  BY <1>1, <1>13, ConcatFacts DEF n
<1>15. Len(whole) = n + PadLength(n) + 8
  BY <1>11, <1>14, ConcatFacts
<1>16. Len(whole) % BLOCK = 0
  <2>1. (n + PadLength(n) + 8) % 64 = 0
    BY <1>1, <1>7
  <2> QED
    BY <1>15, <2>1 DEF BLOCK
<1> HIDE DEF whole, final
<1>17. Holds(final.absorbed, final.buffer, 0, whole)
  BY <1>12, <1>16 DEF Md5Holds
<1>18. final.absorbed = whole
  BY <1>17, HeldWhole
<1>19. whole \in Seq(Byte)
  BY <1>17 DEF Holds
<1>20. whole = Md5Padded(m)
  <2>1. whole = ((m \o P) \o A) \o B
    <3>1. A \in Seq(Byte) /\ B \in Seq(Byte) /\ m \o P \in Seq(Byte)
      BY <1>8, <1>9, <1>14
    <3> DEFINE t == m \o P
    <3>2. t \in Seq(Byte)
      BY <3>1
    <3>3. whole = t \o (A \o B)
      BY DEF whole
    <3> HIDE DEF t
    <3>4. (t \o A) \o B = t \o (A \o B)
      BY <3>1, <3>2, Associative
    <3> QED
      BY <3>3, <3>4 DEF t
  <2>2. Md5Padded(m) = ((m \o Pad(n)) \o LittleEndian((8 * n) % WORD)) \o LittleEndian(((8 * n) \div WORD) % WORD)
    BY DEF Md5Padded, n
  <2>3. A = LittleEndian((8 * n) % WORD) /\ B = LittleEndian(((8 * n) \div WORD) % WORD)
    BY <1>2 DEF A, B
  <2> QED
    BY <1>5, <2>1, <2>2, <2>3
<1>21. final \in Md5Context
  BY <1>12 DEF Md5Holds
<1>22. [i \in 0..BLOCK - 1 |-> 0] \in [0..BLOCK - 1 -> Byte] /\ 0 \in 0..WORD - 1
  BY BytesAreBytes, WordFacts
<1>23. d \in Md5Context /\ d.finalized = TRUE /\ d.digest = whole
  BY <1>18, <1>19, <1>21, <1>22 DEF Md5Context
<1> QED
  BY <1>0, <1>20, <1>23

\* What memcpy copies is all that its source matters for.
LEMMA SameCopy ==
  ASSUME NEW buffer, NEW at \in Nat, NEW n \in Nat, NEW s, NEW t, \A k \in 1..n : s[k] = t[k]
  PROVE  memcpy(buffer, at, s, n) = memcpy(buffer, at, t, n)
<1>1. \A k \in at..at + n - 1 : k - at + 1 \in 1..n
  OBVIOUS
<1>2. \A k \in at..at + n - 1 : s[k - at + 1] = t[k - at + 1]
  BY <1>1
<1> QED
  BY <1>2 DEF memcpy

\* A longer piece is to update what its first bytes are, as many as its length
\* leaves in 32 bits.
LEMMA Md5Truncates ==
  ASSUME NEW c \in Md5Context, NEW input \in Seq(Byte)
  PROVE  \E taken \in Seq(Byte) :
           /\ Len(taken) < WORD
           /\ Len(input) < WORD => taken = input
           /\ Md5Update(c, input) = Md5Update(c, taken)
<1> DEFINE length == Size(input)
           z == 0
           taken == SubSeq(input, z + 1, z + length)
           index == (c.lo \div 8) % BLOCK
           firstpart == FirstPart(c)
           i == LoopEnd(c, length)
           counted == Md5Count(c, length)
<1>1. length \in Nat /\ length <= Len(input) /\ length < WORD /\ Len(input) \in Nat
  BY SizeFacts, LenProperties
<1>2. taken \in Seq(Byte) /\ Len(taken) = length /\ \A j \in 1..length : taken[j] = input[j]
  <2>1. z \in Nat /\ z + length <= Len(input) /\ \A j \in 1..length : z + j = j
    BY <1>1
  <2> HIDE DEF z, length
  <2>2. /\ taken \in Seq(Byte) /\ Len(taken) = length
        /\ \A j \in 1..length : taken[j] = input[z + j]
    BY <1>1, <2>1, SliceFacts
  <2> QED
    BY <2>1, <2>2
<1> HIDE DEF taken
<1>3. Size(taken) = length
  <2>1. Len(taken) < WORD
    BY <1>1, <1>2
  <2> QED
    BY <1>2, <2>1, SizeFacts
<1>4. Len(input) < WORD => taken = input
  <2> SUFFICES ASSUME Len(input) < WORD PROVE taken = input
    OBVIOUS
  <2>1. length = Len(input)
    BY SizeFacts
  <2> HIDE DEF length
  <2> QED
    BY <1>2, <2>1, SameSequence
<1>5. index \in 0..63 /\ firstpart \in 1..64
  <2>1. c.lo \in Nat
    BY WordFacts DEF Md5Context
  <2> DEFINE q == c.lo \div 8
  <2>2. q \in Nat
    BY <2>1
  <2>3. index = q % 64 /\ firstpart = 64 - index
    BY DEF FirstPart, BLOCK
  <2> HIDE DEF q, index, firstpart
  <2>4. index = q % 64 /\ firstpart = 64 - index
    BY <2>3
  <2>5. q % 64 \in 0..63
    BY <2>2
  <2>6. index \in 0..63
    BY <2>4, <2>5
  <2>7. firstpart \in 1..64
    <3>1. \A j \in 0..63 : 64 - j \in 1..64
      OBVIOUS
    <3> QED
      BY <2>4, <2>6, <3>1
  <2> QED
    BY <2>6, <2>7
<1> HIDE DEF length, index, firstpart
<1>7. \A a \in Nat, b \in Nat : a + b <= length => SubSeq(input, a + 1, a + b) = SubSeq(taken, a + 1, a + b)
  <2> SUFFICES ASSUME NEW a \in Nat, NEW b \in Nat, a + b <= length
               PROVE  SubSeq(input, a + 1, a + b) = SubSeq(taken, a + 1, a + b)
    OBVIOUS
  <2>1. a + b <= Len(input) /\ a + b <= Len(taken)
    BY <1>1, <1>2
  <2> DEFINE s == SubSeq(input, a + 1, a + b)
             t == SubSeq(taken, a + 1, a + b)
  <2>2. s \in Seq(Byte) /\ Len(s) = b /\ \A k \in 1..b : s[k] = input[a + k]
    BY <2>1, SliceFacts
  <2>3. t \in Seq(Byte) /\ Len(t) = b /\ \A k \in 1..b : t[k] = taken[a + k]
    <3>1. taken \in Seq(Byte) /\ a + b <= Len(taken)
      BY <1>2, <2>1
    <3>2. /\ SubSeq(taken, a + 1, a + b) \in Seq(Byte)
          /\ Len(SubSeq(taken, a + 1, a + b)) = b
          /\ \A k \in 1..b : SubSeq(taken, a + 1, a + b)[k] = taken[a + k]
      BY <3>1, SliceFacts
    <3> QED
      BY <3>2
  <2> HIDE DEF s, t
  <2>4. \A k \in 1..b : a + k \in 1..length
    BY <1>1
  <2>5. \A k \in 1..b : s[k] = t[k]
    BY <1>2, <2>2, <2>3, <2>4
  <2>6. Len(s) = Len(t)
    BY <2>2, <2>3
  <2>7. s = t
    BY <2>2, <2>3, <2>5, <2>6, SameSequence
  <2> QED
    BY <2>7 DEF s, t
<1> DEFINE Whole(p) == SubSeq(p, firstpart + 1, i)
           Rest(p) == SubSeq(p, i + 1, length)
           Filled(p) == memcpy(c.buffer, index, p, firstpart)
           Short(p) == [counted EXCEPT !.buffer = memcpy(@, index, p, length)]
           Long(p) == [counted EXCEPT !.absorbed = @ \o Slice(Filled(p), 0, BLOCK) \o Whole(p),
                                      !.buffer = memcpy(Filled(p), 0, Rest(p), length - i)]
<1>8. /\ Md5Update(c, input) = IF length < firstpart THEN Short(input) ELSE Long(input)
      /\ Md5Update(c, taken) = IF length < firstpart THEN Short(taken) ELSE Long(taken)
  BY <1>3 DEF Md5Update, length, index, firstpart
<1>9. CASE length < firstpart
  <2>1. memcpy(counted.buffer, index, input, length) = memcpy(counted.buffer, index, taken, length)
    <3> HIDE DEF counted
    <3>1. index \in Nat /\ length \in Nat /\ \A k \in 1..length : input[k] = taken[k]
      BY <1>1, <1>2, <1>5
    <3> QED
      BY <3>1, SameCopy
  <2>2. Short(input) = Short(taken)
    BY <2>1
  <2> QED
    BY <1>1, <1>2, <1>4, <1>8, <1>9, <2>2
<1>10. CASE ~ (length < firstpart)
  <2>1. \E w \in Nat, r \in Nat : i = firstpart + w /\ length = i + r
    <3> DEFINE l == length - firstpart
               w == BLOCK * (l \div BLOCK)
    <3>1. l \in Nat
      BY <1>1, <1>5, <1>10
    <3> HIDE DEF l
    <3>2. w \in Nat /\ l % BLOCK \in Nat /\ l = w + (l % BLOCK)
      BY <3>1 DEF BLOCK
    <3>3. i = firstpart + w
      BY DEF LoopEnd, l, firstpart
    <3> HIDE DEF i, w
    <3>4. length = i + (l % BLOCK)
      BY <1>1, <1>5, <3>1, <3>2, <3>3 DEF l
    <3> QED
      BY <3>2, <3>3, <3>4
  <2>2. PICK w \in Nat, r \in Nat : i = firstpart + w /\ length = i + r
    BY <2>1
  <2> HIDE DEF i
  <2>3. Filled(input) = Filled(taken)
    <3>1. firstpart \in Nat /\ index \in Nat /\ length \in Nat /\ firstpart <= length
      BY <1>1, <1>5, <1>10
    <3>2. \A k \in 1..firstpart : k \in 1..length
      BY <3>1
    <3>3. \A k \in 1..firstpart : input[k] = taken[k]
      BY <1>2, <3>2
    <3>4. memcpy(c.buffer, index, input, firstpart) = memcpy(c.buffer, index, taken, firstpart)
      BY <3>1, <3>3, SameCopy
    <3> QED
      BY <3>4
  <2>4. Whole(input) = Whole(taken)
    <3>1. firstpart \in Nat /\ firstpart + w <= length
      BY <1>5, <2>2
    <3>2. SubSeq(input, firstpart + 1, firstpart + w) = SubSeq(taken, firstpart + 1, firstpart + w)
      BY <1>7, <3>1
    <3> QED
      BY <2>2, <3>2
  <2>5. Rest(input) = Rest(taken)
    <3>1. i \in Nat /\ i + r <= length
      BY <1>1, <1>5, <2>2
    <3>2. SubSeq(input, i + 1, i + r) = SubSeq(taken, i + 1, i + r)
      BY <1>7, <3>1
    <3> QED
      BY <2>2, <3>2
  <2> HIDE DEF Filled, Whole, Rest
  <2>6. Long(input) = Long(taken)
    BY <2>3, <2>4, <2>5
  <2> QED
    BY <1>1, <1>2, <1>4, <1>8, <1>10, <2>6
<1> QED
  BY <1>9, <1>10

-----------------------------------------------------------------------------
(* SHA-256.                                                                *)

\* The object has been given the message m.
Sha256Holds(c, m) ==
  /\ c \in Sha256Context
  /\ Holds(c.absorbed, c.m_block, c.m_len, m)
  /\ c.m_tot_len = Len(c.absorbed) % WORD

\* Whether a piece fills the block.
LEMMA Room ==
  ASSUME NEW k \in 0..63, NEW len \in Nat
  PROVE  /\ (k + len < BLOCK <=> len < BLOCK - k)
         /\ k + len < BLOCK => k + len \in 0..63
         /\ ~ (k + len < BLOCK) => BLOCK <= k + len
BY DEF BLOCK

\* update continues the message.
LEMMA Sha256UpdateFacts ==
  ASSUME NEW c, NEW m, Sha256Holds(c, m), NEW message_ \in Seq(Byte)
  PROVE  Sha256Holds(Sha256Update(c, message_), m \o message_)
<1> DEFINE len == Len(message_)
           size == 128
           k == c.m_len
           p == BLOCK - k
           whole == BLOCK * ((len - p) \div BLOCK)
           rest == (len - p) % BLOCK
           block1 == memcpy(c.m_block, k, message_, len)
           block == memcpy(c.m_block, k, message_, p)
           su == SubSeq(message_, p + 1, p + whole)
           sl == Slice(block, 0, BLOCK)
           absorbed2 == (c.absorbed \o sl) \o su
           block2 == memcpy(block, 0, SubSeq(message_, (p + whole) + 1, len), rest)
           tot == (c.m_tot_len + whole + BLOCK) % WORD
           kept == [c EXCEPT !.m_block = block1, !.m_len = c.m_len + len]
           d == [[c EXCEPT !.absorbed = c.absorbed \o (sl \o su)]
                   EXCEPT !.m_block = block2, !.m_len = rest, !.m_tot_len = tot]
<1>1. c \in Sha256Context
  BY DEF Sha256Holds
<1>a. Holds(c.absorbed, c.m_block, k, m)
  BY DEF Sha256Holds
<1>b. k \in 0..63
  <2> HIDE DEF k
  <2> QED
    BY <1>a DEF Holds, BLOCK
<1>c. size \in Nat /\ size >= BLOCK /\ c.m_block \in [0..size - 1 -> Byte]
  BY <1>1 DEF BLOCK, Sha256Context
<1>d. len \in Nat
  BY LenProperties
<1>e. m \in Seq(Byte) /\ c.absorbed \in Seq(Byte) /\ Len(m) = Len(c.absorbed) + k
  BY <1>a DEF Holds
<1>f. m \o message_ \in Seq(Byte) /\ Len(m \o message_) = Len(m) + len
  BY <1>e, ConcatFacts
<1>g. /\ (k + len < BLOCK <=> len < BLOCK - k)
      /\ k + len < BLOCK => k + len \in 0..63
      /\ ~ (k + len < BLOCK) => BLOCK <= k + len
  <2> HIDE DEF k, len
  <2> QED
    BY <1>b, <1>d, Room
<1>2. ASSUME c.m_len + len < BLOCK
      PROVE  Sha256Update(c, message_) = kept
  <2>1. len < BLOCK - c.m_len
    BY <1>2, <1>g
  <2> QED
    BY <1>2, <2>1 DEF Sha256Update, UpdateFrom
<1>3. ASSUME ~ (c.m_len + len < BLOCK)
      PROVE  Sha256Update(c, message_) = d
  <2>1. ~ (len < BLOCK - c.m_len)
    BY <1>3, <1>g
  <2> QED
    BY <1>3, <2>1 DEF Sha256Update, UpdateFrom, Absorb
<1>4. CASE c.m_len + len < BLOCK
  <2> HIDE DEF size
  <2>1. block1 \in [0..size - 1 -> Byte] /\ Holds(c.absorbed, block1, k + len, m \o message_)
    BY <1>a, <1>c, <1>4, Keeping
  <2> HIDE DEF block1
  <2>2. k + len \in 0..63
    BY <1>4, <1>g
  <2>a. block1 \in [0..2 * BLOCK - 1 -> Byte]
    BY <2>1 DEF size, BLOCK
  <2> DEFINE kl == c.m_len + len
  <2>c. kl \in 0..BLOCK - 1 /\ kl = k + len
    BY <2>2 DEF BLOCK
  <2>d. kept = [c EXCEPT !.m_block = block1, !.m_len = kl]
    OBVIOUS
  <2> HIDE DEF k, len, kl
  <2>3. /\ kept \in Sha256Context /\ kept.absorbed = c.absorbed /\ kept.m_block = block1
        /\ kept.m_len = k + len /\ kept.m_tot_len = c.m_tot_len
    BY <1>1, <2>a, <2>c, <2>d DEF Sha256Context
  <2> HIDE DEF kept
  <2>4. Holds(kept.absorbed, kept.m_block, kept.m_len, m \o message_)
    BY <2>1, <2>3
  <2>5. kept.m_tot_len = Len(kept.absorbed) % WORD
    BY <2>3 DEF Sha256Holds
  <2> QED
    BY <1>2, <1>4, <2>3, <2>4, <2>5 DEF Sha256Holds
<1>5. CASE ~ (c.m_len + len < BLOCK)
  <2> HIDE DEF size
  <2>1. BLOCK <= k + Len(message_)
    BY <1>5, <1>g
  <2>2. /\ block2 \in [0..size - 1 -> Byte] /\ Holds(absorbed2, block2, rest, m \o message_)
        /\ p \in 1..BLOCK /\ whole \in Nat /\ rest \in 0..BLOCK - 1
        /\ len = (p + whole) + rest
    BY <1>a, <1>c, <2>1, Absorbing
  <2>3. /\ block \in [0..size - 1 -> Byte]
    <3> HIDE DEF p
    <3>0. p \in 1..64 /\ whole \in Nat /\ rest \in 0..63 /\ len = (p + whole) + rest
      BY <2>2 DEF BLOCK
    <3> HIDE DEF k, len, whole, rest
    <3>a. k \in Nat /\ p \in Nat /\ p <= len
      BY <1>b, <3>0
    <3>1. k \in Nat /\ p \in Nat /\ p <= Len(message_)
      BY <3>a DEF len
    <3>2. Copied(block, c.m_block, size, k, message_, p)
      BY <1>c, <3>1, CopyFacts
    <3> HIDE DEF block
    <3> QED
      BY <3>2 DEF Copied
  <2>4. sl \in Seq(Byte)
    <3> HIDE DEF block
    <3>1. BLOCK \in Nat /\ BLOCK <= size
      BY <1>c DEF BLOCK
    <3> QED
      BY <1>c, <2>3, <3>1, BlockFacts
  <2>5. su \in Seq(Byte)
    <3> HIDE DEF p, whole, rest
    <3>0. p \in 1..64 /\ whole \in Nat /\ rest \in 0..63 /\ len = (p + whole) + rest
      BY <2>2 DEF BLOCK
    <3>a. p \in Nat /\ whole \in Nat /\ p + whole <= len
      <4> HIDE DEF len
      <4> QED
        BY <3>0
    <3>1. p \in Nat /\ whole \in Nat /\ p + whole <= Len(message_)
      BY <3>a
    <3> QED
      BY <3>1, SliceFacts
  <2> HIDE DEF sl, su
  <2>6. c.absorbed \o (sl \o su) = absorbed2
    BY <1>e, <2>4, <2>5, Associative
  <2> HIDE DEF absorbed2, block2, p, whole, rest
  <2>7. absorbed2 \in Seq(Byte) /\ Len(m \o message_) = Len(absorbed2) + rest
    BY <2>2 DEF Holds
  <2>8. Len(absorbed2) = Len(c.absorbed) + (whole + BLOCK)
    <3>1. Len(absorbed2) \in Nat /\ Len(c.absorbed) \in Nat
      BY <1>e, <2>7, LenProperties
    <3>2. Len(absorbed2) + rest = Len(c.absorbed) + k + len
      BY <1>e, <1>f, <2>7, <3>1, <1>b, <1>d
    <3>3. k + p = BLOCK
      <4> HIDE DEF k
      <4> QED
        BY <1>b DEF p, BLOCK
    <3>4. p \in 1..64 /\ whole \in Nat /\ rest \in 0..63 /\ len = (p + whole) + rest
      BY <2>2 DEF BLOCK
    <3> HIDE DEF len, k
    <3>5. k \in 0..63
      BY <1>b
    <3> DEFINE a == Len(absorbed2)
               b == Len(c.absorbed)
    <3>6. a \in Nat /\ b \in Nat /\ a + rest = b + k + len
      BY <3>1, <3>2
    <3> HIDE DEF a, b
    <3>7. a = b + (whole + BLOCK)
      BY <3>3, <3>4, <3>5, <3>6 DEF BLOCK
    <3> QED
      BY <3>7 DEF a, b
  <2>9. tot = Len(absorbed2) % WORD /\ tot \in 0..WORD - 1
    <3> DEFINE w == WORD
               a == Len(c.absorbed)
               b == whole + BLOCK
    <3>1. w \in Nat \ {0} /\ a \in Nat /\ b \in Nat
      BY <1>e, <2>2, WordFacts, LenProperties DEF BLOCK
    <3>2. tot = (c.m_tot_len + b) % w
      <4>1. c.m_tot_len \in Nat
        BY <1>1, WordFacts DEF Sha256Context
      <4>2. c.m_tot_len + whole + BLOCK = c.m_tot_len + b
        BY <4>1, <2>2 DEF BLOCK
      <4> QED
        BY <4>2
    <3>3. c.m_tot_len = a % w
      BY DEF Sha256Holds
    <3> HIDE DEF w, a, b, tot
    <3>4. ((a % w) + b) % w = (a + b) % w
      BY <3>1, ModAdd
    <3>5. tot = (a + b) % w
      BY <3>2, <3>3, <3>4
    <3>6. a + b \in Nat
      BY <3>1
    <3>7. (a + b) % w \in 0..w - 1
      BY <3>1, <3>6
    <3> QED
      BY <2>8, <3>5, <3>7 DEF a, b, w
  <2> HIDE DEF tot
  <2>a. block2 \in [0..2 * BLOCK - 1 -> Byte]
    BY <2>2 DEF size, BLOCK
  <2>b. absorbed2 \in Seq(Byte) /\ rest \in 0..BLOCK - 1 /\ tot \in 0..WORD - 1
    BY <2>2, <2>7, <2>9
  <2>c. c.absorbed \o (sl \o su) = absorbed2
    BY <2>6
  <2> DEFINE joined == c.absorbed \o (sl \o su)
  <2>d. d = [[c EXCEPT !.absorbed = joined] EXCEPT !.m_block = block2, !.m_len = rest, !.m_tot_len = tot]
    OBVIOUS
  <2>e. joined \in Seq(Byte) /\ joined = absorbed2
    BY <2>b, <2>c
  <2> HIDE DEF joined, k, len, kept, block1, block
  <2>10. /\ d \in Sha256Context /\ d.absorbed = absorbed2 /\ d.m_block = block2
         /\ d.m_len = rest /\ d.m_tot_len = tot
    BY <1>1, <2>a, <2>b, <2>d, <2>e DEF Sha256Context
  <2> HIDE DEF d
  <2>11. Holds(d.absorbed, d.m_block, d.m_len, m \o message_)
    BY <2>2, <2>10
  <2>12. d.m_tot_len = Len(d.absorbed) % WORD
    BY <2>9, <2>10
  <2> QED
    BY <1>3, <1>5, <2>10, <2>11, <2>12 DEF Sha256Holds
<1> QED
  BY <1>4, <1>5

\* b is the buffer, but for q bytes z from offset k on.
Cleared(b, buffer, size, k, z, q) ==
  /\ b \in [0..size - 1 -> Byte]
  /\ \A i \in 0..size - 1 : i < k \/ i >= k + q => b[i] = buffer[i]
  /\ \A i \in 1..q : k + i <= size => b[k + i - 1] = z

\* memset clears what it is asked to.
LEMMA ClearFacts ==
  ASSUME NEW size \in Nat, NEW buffer \in [0..size - 1 -> Byte], NEW k \in Nat, NEW q \in Nat,
         NEW z \in Byte
  PROVE  Cleared(memset(buffer, k, z, q), buffer, size, k, z, q)
<1> DEFINE zeros == Repeat(z, q)
           zeroed == memcpy(buffer, k, zeros, q)
<1>1. zeros \in Seq(Byte) /\ Len(zeros) = q /\ \A i \in 1..q : zeros[i] = z
  BY RepeatFacts
<1>2. zeros \in Seq(Byte) /\ q <= Len(zeros)
  BY <1>1
<1> HIDE DEF zeros
<1>3. Copied(zeroed, buffer, size, k, zeros, q)
  BY <1>2, CopyFacts
<1>4. zeroed = memset(buffer, k, z, q)
  BY DEF memset, zeros
<1> HIDE DEF zeroed
<1> QED
  BY <1>1, <1>3, <1>4 DEF Copied, Cleared

\* ... the first of them the mark.
Marked(b, buffer, size, k, q) ==
  /\ b \in [0..size - 1 -> Byte]
  /\ \A i \in 0..k - 1 : b[i] = buffer[i]
  /\ b[k] = 128
  /\ \A i \in 2..q : k + i <= size => b[k + i - 1] = 0

\* The mark and zeros behind what waits in the block.
LEMMA MarkedFacts ==
  ASSUME NEW size \in Nat, NEW buffer \in [0..size - 1 -> Byte], NEW k \in Nat, NEW q \in Nat,
         k < size
  PROVE  Marked([memset(buffer, k, 0, q) EXCEPT ![k] = 128], buffer, size, k, q)
<1> DEFINE z == 0
           zeroed == memset(buffer, k, z, q)
           marked == [zeroed EXCEPT ![k] = 128]
<1>1. z \in Byte
  BY BytesAreBytes
<1> HIDE DEF z
<1>2. Cleared(zeroed, buffer, size, k, z, q)
  BY <1>1, ClearFacts
<1> HIDE DEF zeroed
<1>a. zeroed \in [0..size - 1 -> Byte]
  BY <1>2 DEF Cleared
<1>3. /\ marked \in [0..size - 1 -> Byte] /\ marked[k] = 128
      /\ \A i \in 0..size - 1 : i # k => marked[i] = zeroed[i]
  BY <1>a, BytesAreBytes
<1> HIDE DEF marked
<1>4. ASSUME NEW i \in 0..k - 1 PROVE marked[i] = buffer[i]
  <2>1. i \in 0..size - 1 /\ i < k /\ i # k
    OBVIOUS
  <2>2. zeroed[i] = buffer[i]
    BY <1>2, <2>1 DEF Cleared
  <2> QED
    BY <1>3, <2>1, <2>2
<1>5. ASSUME NEW i \in 2..q, k + i <= size PROVE marked[k + i - 1] = 0
  <2>1. i \in 1..q /\ k + i - 1 \in 0..size - 1 /\ k + i - 1 # k
    BY <1>5
  <2>2. zeroed[k + i - 1] = z
    BY <1>2, <1>5, <2>1 DEF Cleared
  <2> QED
    BY <1>3, <2>1, <2>2 DEF z
<1>6. Marked(marked, buffer, size, k, q)
  BY <1>3, <1>4, <1>5 DEF Marked
<1> QED
  BY <1>6 DEF marked, zeroed, z

\* What final makes of the block: the k bytes in it, the mark, zeros up to the
\* last four of its pm bytes, and there the length.
EndBlock(buffer, k, pm, bytes) ==
  memcpy([memset(buffer, k, 0, pm - k) EXCEPT ![k] = 128], pm - 4, bytes, 4)

IsEnd(block, buffer, size, k, pm, bytes) ==
  /\ block \in [0..size - 1 -> Byte]
  /\ \A i \in 0..k - 1 : block[i] = buffer[i]
  /\ block[k] = 128
  /\ \A i \in k + 1..pm - 5 : block[i] = 0
  /\ \A i \in 1..4 : block[(pm - 4) + i - 1] = bytes[i]

\* The block of final has each of its parts in its place.
LEMMA EndBlockFacts ==
  ASSUME NEW size \in Nat, NEW buffer \in [0..size - 1 -> Byte], NEW k \in Nat, NEW pm \in Nat,
         pm <= size, k + 9 <= pm, NEW bytes \in Seq(Byte), 4 <= Len(bytes)
  PROVE  IsEnd(EndBlock(buffer, k, pm, bytes), buffer, size, k, pm, bytes)
<1> DEFINE q == pm - k
           marked == [memset(buffer, k, 0, q) EXCEPT ![k] = 128]
           at == pm - 4
           four == 4
           block == memcpy(marked, at, bytes, four)
<1>1. EndBlock(buffer, k, pm, bytes) = block
  BY DEF EndBlock
<1>2. q \in Nat /\ at \in Nat /\ four \in Nat /\ k + q = pm /\ at + four = pm /\ k < size
  OBVIOUS
<1>3. four <= Len(bytes)
  BY DEF four
<1> HIDE DEF q, at, four
<1>a. q \in Nat /\ k < size
  BY <1>2
<1>4. Marked(marked, buffer, size, k, q)
  BY <1>a, MarkedFacts
<1>5. marked \in [0..size - 1 -> Byte] /\ marked[k] = 128
  BY <1>4 DEF Marked
<1>6. \A i \in 0..k - 1 : marked[i] = buffer[i]
  BY <1>4 DEF Marked
<1>7. \A i \in 2..q : k + i <= size => marked[k + i - 1] = 0
  BY <1>4 DEF Marked
<1> HIDE DEF marked
<1>b. Copied(block, marked, size, at, bytes, four)
  <2>1. at \in Nat /\ four \in Nat /\ marked \in [0..size - 1 -> Byte]
    BY <1>2, <1>5
  <2> QED
    BY <1>3, <2>1, CopyFacts
<1> HIDE DEF block
<1>8. /\ block \in [0..size - 1 -> Byte]
      /\ \A i \in 0..size - 1 : i < at \/ i >= at + four => block[i] = marked[i]
      /\ \A i \in 1..four : at + i <= size => block[at + i - 1] = bytes[i]
  BY <1>b DEF Copied
<1>9. ASSUME NEW i \in 0..k - 1 PROVE block[i] = buffer[i]
  <2>1. i \in 0..size - 1 /\ i < k /\ i # k /\ i < at
    BY DEF at
  <2> QED
    BY <1>6, <1>8, <2>1
<1>10. block[k] = 128
  <2>1. k \in 0..size - 1 /\ k < at
    BY DEF at
  <2> QED
    BY <1>5, <1>8, <2>1
<1>11. ASSUME NEW i \in k + 1..pm - 5 PROVE block[i] = 0
  <2>1. i \in 0..size - 1 /\ i < at
    BY DEF at
  <2>2. PICK j \in 2..q : k + j <= size /\ k + j - 1 = i
    <3>1. i - k + 1 \in 2..q /\ k + (i - k + 1) <= size /\ k + (i - k + 1) - 1 = i
      BY DEF q
    <3> QED
      BY <3>1
  <2>3. marked[k + j - 1] = 0
    BY <1>7, <2>2
  <2> QED
    BY <1>8, <2>1, <2>2, <2>3
<1>12. ASSUME NEW i \in 1..4 PROVE block[(pm - 4) + i - 1] = bytes[i]
  <2>1. i \in 1..four /\ at + i <= size
    BY DEF at, four
  <2>2. block[at + i - 1] = bytes[i]
    BY <1>8, <2>1
  <2> QED
    BY <2>2 DEF at
<1>13. block \in [0..size - 1 -> Byte]
  BY <1>8
<1> QED
  BY <1>1, <1>9, <1>10, <1>11, <1>12, <1>13 DEF IsEnd

\* The n bytes of m, the mark and zeros, p of them, four more zeros, and bytes.
IsPadded(w, m, n, p, bytes) ==
  /\ w \in Seq(Byte) /\ Len(w) = n + p + 8
  /\ \A i \in 1..n : w[i] = m[i]
  /\ w[n + 1] = 128
  /\ \A i \in n + 2..n + p + 4 : w[i] = 0
  /\ \A i \in 1..4 : w[n + p + 4 + i] = bytes[i]

\* There is one padding of m that ends with bytes.
LEMMA OnePadding ==
  ASSUME NEW n \in Nat, NEW p \in Nat \ {0}, NEW m, NEW bytes, NEW v, NEW w,
         IsPadded(v, m, n, p, bytes), IsPadded(w, m, n, p, bytes)
  PROVE  v = w
<1>1. /\ v \in Seq(Byte) /\ w \in Seq(Byte) /\ Len(v) = n + p + 8 /\ Len(w) = n + p + 8
  BY DEF IsPadded
<1>2. ASSUME NEW i \in 1..n + p + 8 PROVE v[i] = w[i]
  <2>1. CASE i <= n
    <3>1. i \in 1..n
      BY <2>1
    <3> QED
      BY <3>1 DEF IsPadded
  <2>2. CASE i = n + 1
    BY <2>2 DEF IsPadded
  <2>3. CASE i > n + 1 /\ i <= n + p + 4
    <3>1. i \in n + 2..n + p + 4
      BY <2>3
    <3> QED
      BY <3>1 DEF IsPadded
  <2>4. CASE i > n + p + 4
    <3>1. PICK j \in 1..4 : i = n + p + 4 + j
      <4>1. i - (n + p + 4) \in 1..4 /\ i = n + p + 4 + (i - (n + p + 4))
        BY <2>4
      <4> QED
        BY <4>1
    <3>2. v[n + p + 4 + j] = bytes[j] /\ w[n + p + 4 + j] = bytes[j]
      BY DEF IsPadded
    <3> QED
      BY <3>1, <3>2
  <2> QED
    BY <2>1, <2>2, <2>3, <2>4
<1>3. Len(v) = Len(w) /\ \A i \in 1..Len(v) : v[i] = w[i]
  BY <1>1, <1>2
<1> QED
  BY <1>1, <1>3, SameSequence

\* The standard's padding of a message shorter than 2^32 bits.
LEMMA StandardPadding ==
  ASSUME NEW m \in Seq(Byte), 8 * Len(m) < WORD
  PROVE  IsPadded(Sha256Padded(m), m, Len(m), PadLength(Len(m)), BigEndian((8 * Len(m)) % WORD))
<1> DEFINE n == Len(m)
           p == PadLength(n)
           t == Pad(n)
           hi == BigEndian((8 * n) \div WORD)
           lo == BigEndian((8 * n) % WORD)
           w1 == m \o t
           w2 == w1 \o hi
           w == w2 \o lo
<1>1. n \in Nat
  BY LenProperties
<1>2. 8 * n < WORD
  OBVIOUS
<1> HIDE DEF n
<1>3. p \in 1..64 /\ t \in Seq(Byte) /\ Len(t) = p /\ t[1] = 128 /\ \A i \in 2..p : t[i] = 0
  <2>1. p \in 1..64
    BY <1>1, PadFacts
  <2>2. t \in Seq(Byte) /\ Len(t) = p
    BY <1>1, PadFacts
  <2>3. t[1] = 128
    BY <1>1, PadFacts
  <2>4. \A i \in 2..p : t[i] = 0
    BY <1>1, PadFacts
  <2> QED
    BY <2>1, <2>2, <2>3, <2>4
<1>4. (8 * n) \div WORD = 0 /\ (8 * n) % WORD \in Nat
  <2> DEFINE b == 8 * n
             z == 0
             x == WORD
  <2>1. b \in Nat /\ b < x /\ z \in Nat /\ x \in Nat \ {0}
    BY <1>1, <1>2, WordFacts
  <2>2. b = x * z + b
    BY <2>1
  <2> HIDE DEF b, z, x
  <2>3. (x * z + b) \div x = z
    BY <2>1, DivModUnique
  <2>4. b % x \in Nat
    BY <2>1, DivMod
  <2> QED
    BY <2>2, <2>3, <2>4 DEF b, z, x
<1>5. hi \in Seq(Byte) /\ Len(hi) = 4 /\ \A i \in 1..4 : hi[i] = 0
  <2> DEFINE z == 0
  <2>1. z \in Nat /\ hi = BigEndian(z)
    BY <1>4
  <2>2. \A i \in 1..4 : hi[i] = 0
    BY <2>1, BigEndianZero
  <2> HIDE DEF z, hi
  <2>3. BigEndian(z) \in Seq(Byte) /\ Len(BigEndian(z)) = 4
    BY <2>1, BigEndianFacts
  <2> QED
    BY <2>1, <2>2, <2>3
<1>6. lo \in Seq(Byte) /\ Len(lo) = 4
  BY <1>4, BigEndianFacts
<1>7. Sha256Padded(m) = w
  BY DEF Sha256Padded, n
<1> HIDE DEF p, t, hi, lo
<1>8. /\ w1 \in Seq(Byte) /\ Len(w1) = n + p
      /\ \A i \in 1..n : w1[i] = m[i]
      /\ \A i \in 1..p : w1[n + i] = t[i]
  <2>1. t \in Seq(Byte)
    BY <1>3
  <2>2. /\ w1 \in Seq(Byte) /\ Len(w1) = Len(m) + Len(t)
        /\ \A i \in 1..Len(m) : w1[i] = m[i]
        /\ \A i \in 1..Len(t) : w1[Len(m) + i] = t[i]
    BY <2>1, ConcatFacts
  <2>3. Len(m) = n /\ Len(t) = p
    BY <1>3 DEF n
  <2> QED
    BY <2>2, <2>3
<1> HIDE DEF w1
<1>9. /\ w2 \in Seq(Byte) /\ Len(w2) = (n + p) + 4
      /\ \A i \in 1..n + p : w2[i] = w1[i]
      /\ \A i \in 1..4 : w2[(n + p) + i] = hi[i]
  <2>1. w1 \in Seq(Byte) /\ hi \in Seq(Byte)
    BY <1>5, <1>8
  <2>2. /\ w2 \in Seq(Byte) /\ Len(w2) = Len(w1) + Len(hi)
        /\ \A i \in 1..Len(w1) : w2[i] = w1[i]
        /\ \A i \in 1..Len(hi) : w2[Len(w1) + i] = hi[i]
    BY <2>1, ConcatFacts
  <2>3. Len(w1) = n + p /\ Len(hi) = 4
    BY <1>5, <1>8
  <2> QED
    BY <2>2, <2>3
<1> HIDE DEF w2
<1>10. /\ w \in Seq(Byte) /\ Len(w) = ((n + p) + 4) + 4
       /\ \A i \in 1..(n + p) + 4 : w[i] = w2[i]
       /\ \A i \in 1..4 : w[((n + p) + 4) + i] = lo[i]
  <2>1. w2 \in Seq(Byte) /\ lo \in Seq(Byte)
    BY <1>6, <1>9
  <2>2. /\ w \in Seq(Byte) /\ Len(w) = Len(w2) + Len(lo)
        /\ \A i \in 1..Len(w2) : w[i] = w2[i]
        /\ \A i \in 1..Len(lo) : w[Len(w2) + i] = lo[i]
    BY <2>1, ConcatFacts
  <2>3. Len(w2) = (n + p) + 4 /\ Len(lo) = 4
    BY <1>6, <1>9
  <2> QED
    BY <2>2, <2>3
<1> HIDE DEF w
<1>11. ASSUME NEW i \in 1..n PROVE w[i] = m[i]
  <2>1. i \in 1..n + p /\ i \in 1..(n + p) + 4
    BY <1>1, <1>3
  <2> QED
    BY <1>8, <1>9, <1>10, <2>1
<1>12. w[n + 1] = 128
  <2>1. n + 1 \in 1..n + p /\ n + 1 \in 1..(n + p) + 4 /\ 1 \in 1..p
    BY <1>1, <1>3
  <2>2. w[n + 1] = w2[n + 1] /\ w2[n + 1] = w1[n + 1] /\ w1[n + 1] = t[1]
    BY <1>8, <1>9, <1>10, <2>1
  <2> QED
    BY <1>3, <2>2
<1>13. ASSUME NEW i \in n + 2..n + p + 4 PROVE w[i] = 0
  <2>0. i \in 1..(n + p) + 4 /\ w[i] = w2[i]
    BY <1>1, <1>3, <1>10
  <2>1. CASE i <= n + p
    <3>1. PICK j \in 2..p : i = n + j
      <4>1. i - n \in 2..p /\ i = n + (i - n)
        BY <1>1, <1>3, <2>1
      <4> QED
        BY <4>1
    <3>2. i \in 1..n + p /\ j \in 1..p
      BY <1>1, <2>1
    <3>3. w2[i] = w1[i] /\ w1[n + j] = t[j] /\ t[j] = 0
      BY <1>3, <1>8, <1>9, <3>2
    <3> QED
      BY <2>0, <3>1, <3>3
  <2>2. CASE i > n + p
    <3>1. PICK j \in 1..4 : i = (n + p) + j
      <4>1. i - (n + p) \in 1..4 /\ i = (n + p) + (i - (n + p))
        BY <1>1, <1>3, <2>2
      <4> QED
        BY <4>1
    <3>2. w2[(n + p) + j] = hi[j] /\ hi[j] = 0
      BY <1>5, <1>9
    <3> QED
      BY <2>0, <3>1, <3>2
  <2> QED
    BY <1>1, <1>3, <2>1, <2>2
<1>14. ASSUME NEW i \in 1..4 PROVE w[n + p + 4 + i] = lo[i]
  BY <1>10
<1>15. Len(w) = n + p + 8 /\ w \in Seq(Byte)
  BY <1>1, <1>3, <1>10
<1>16. IsPadded(w, m, n, p, lo)
  BY <1>11, <1>12, <1>13, <1>14, <1>15 DEF IsPadded
<1> QED
  BY <1>7, <1>16 DEF n, p, lo

\* tail is the pm bytes of block, which has k bytes of buffer, the mark, zeros
\* and bytes, and ends eight bytes behind a padding of p.
Ends(tail, block, buffer, k, p, pm, bytes) ==
  /\ pm = k + p + 8 /\ p \in 1..64
  /\ tail \in Seq(Byte) /\ Len(tail) = pm
  /\ \A i \in 1..pm : tail[i] = block[i - 1]
  /\ \A i \in 0..k - 1 : block[i] = buffer[i]
  /\ block[k] = 128
  /\ \A i \in k + 1..pm - 5 : block[i] = 0
  /\ \A i \in 1..4 : block[(pm - 4) + i - 1] = bytes[i]

\* What has been absorbed and the block that final makes of the rest.
LEMMA EndPadding ==
  ASSUME NEW absorbed, NEW buffer, NEW k, NEW m, Holds(absorbed, buffer, k, m),
         NEW block, NEW tail, NEW pm, NEW p, NEW bytes, Ends(tail, block, buffer, k, p, pm, bytes)
  PROVE  IsPadded(absorbed \o tail, m, Len(m), p, bytes)
<1> DEFINE a == Len(absorbed)
           n == Len(m)
           w == absorbed \o tail
<1>1. absorbed \in Seq(Byte) /\ a \in Nat /\ n \in Nat /\ n = a + k /\ k \in 0..63
  BY LenProperties DEF Holds, BLOCK
<1>2. p \in 1..64
  BY DEF Ends
<1>3. \A i \in 1..a : absorbed[i] = m[i]
  BY DEF Holds
<1>4. \A i \in 0..k - 1 : buffer[i] = m[a + i + 1]
  BY DEF Holds
<1>5. pm = k + p + 8
  BY DEF Ends
<1>a. tail \in Seq(Byte)
  BY DEF Ends
<1>b. Len(tail) = pm
  BY DEF Ends
<1>6. /\ w \in Seq(Byte) /\ Len(w) = a + pm
      /\ \A i \in 1..a : w[i] = absorbed[i]
      /\ \A i \in 1..pm : w[a + i] = tail[i]
  <2>1. /\ w \in Seq(Byte) /\ Len(w) = Len(absorbed) + Len(tail)
        /\ \A i \in 1..Len(absorbed) : w[i] = absorbed[i]
        /\ \A i \in 1..Len(tail) : w[Len(absorbed) + i] = tail[i]
    BY <1>1, <1>a, ConcatFacts
  <2> QED
    BY <1>b, <2>1
<1> HIDE DEF a, n, w
<1>7. \A i \in 1..pm : w[a + i] = block[i - 1]
  BY <1>6 DEF Ends
<1>8. ASSUME NEW i \in 1..n PROVE w[i] = m[i]
  <2>1. CASE i <= a
    <3>1. i \in 1..a
      BY <1>1, <2>1
    <3> QED
      BY <1>3, <1>6, <3>1
  <2>2. CASE i > a
    <3>1. PICK j \in 0..k - 1 : i = a + j + 1
      <4>1. i - a - 1 \in 0..k - 1 /\ i = a + (i - a - 1) + 1
        BY <1>1, <2>2
      <4> QED
        BY <4>1
    <3>2. j + 1 \in 1..pm /\ (j + 1) - 1 = j /\ a + (j + 1) = i
      BY <1>1, <1>2, <1>5, <3>1
    <3>3. w[i] = block[j]
      BY <1>7, <3>2
    <3>4. block[j] = buffer[j] /\ buffer[j] = m[i]
      BY <1>4, <3>1 DEF Ends
    <3> QED
      BY <3>3, <3>4
  <2> QED
    BY <1>1, <2>1, <2>2
<1>9. w[n + 1] = 128
  <2>1. k + 1 \in 1..pm /\ (k + 1) - 1 = k /\ a + (k + 1) = n + 1
    BY <1>1, <1>2, <1>5
  <2>2. w[a + (k + 1)] = block[k]
    BY <1>7, <2>1
  <2>3. block[k] = 128
    BY DEF Ends
  <2> QED
    BY <2>1, <2>2, <2>3
<1>10. ASSUME NEW i \in n + 2..n + p + 4 PROVE w[i] = 0
  <2>1. PICK j \in k + 1..pm - 5 : i = a + (j + 1)
    <3>1. i - a - 1 \in k + 1..pm - 5 /\ i = a + ((i - a - 1) + 1)
      BY <1>1, <1>2, <1>5
    <3> QED
      BY <3>1
  <2>2. j + 1 \in 1..pm /\ (j + 1) - 1 = j
    BY <1>1, <1>2, <1>5
  <2>3. w[a + (j + 1)] = block[j]
    BY <1>7, <2>2
  <2>4. block[j] = 0
    BY DEF Ends
  <2> QED
    BY <2>1, <2>3, <2>4
<1>11. ASSUME NEW i \in 1..4 PROVE w[n + p + 4 + i] = bytes[i]
  <2>1. (pm - 4) + i \in 1..pm /\ n + p + 4 + i = a + ((pm - 4) + i)
    BY <1>1, <1>2, <1>5
  <2> DEFINE x == (pm - 4) + i
  <2>a. block[(pm - 4) + i - 1] = bytes[i]
    BY DEF Ends
  <2>b. x - 1 = (pm - 4) + i - 1
    BY <1>1, <1>2, <1>5
  <2>2. block[x - 1] = bytes[i]
    BY <2>a, <2>b
  <2>3. x \in 1..pm /\ n + p + 4 + i = a + x
    BY <2>1
  <2> HIDE DEF x
  <2>4. w[a + x] = block[x - 1]
    BY <1>7, <2>3
  <2> QED
    BY <2>2, <2>3, <2>4
<1>12. w \in Seq(Byte) /\ Len(w) = n + p + 8
  BY <1>1, <1>2, <1>5, <1>6
<1>13. IsPadded(w, m, n, p, bytes)
  BY <1>8, <1>9, <1>10, <1>11, <1>12 DEF IsPadded
<1> QED
  BY <1>13 DEF w, n

\* The low word of the length in bits, from what has been absorbed and the rest.
LEMMA CountedBits ==
  ASSUME NEW a \in Nat, NEW k \in Nat, 8 * (a + k) < WORD
  PROVE  (((a % WORD) + k) * 8) % WORD = (8 * (a + k)) % WORD
<1> DEFINE w == WORD
<1>1. w \in Nat \ {0} /\ a < w
  BY WordFacts
<1> HIDE DEF w
<1>2. a % w = a
  BY <1>1
<1>3. (a + k) * 8 = 8 * (a + k)
  OBVIOUS
<1> QED
  BY <1>2, <1>3 DEF w

\* final leaves the object well typed, with the standard's padding of a message
\* shorter than 2^32 bits absorbed.
LEMMA Sha256FinalFacts ==
  ASSUME NEW c, NEW m, Sha256Holds(c, m)
  PROVE  /\ Sha256Final(c) \in Sha256Context
         /\ 8 * Len(m) < WORD => Sha256Final(c).absorbed = Sha256Padded(m)
<1> DEFINE size == 128
           k == c.m_len
           a == Len(c.absorbed)
           n == Len(m)
           p == PadLength(n)
           nb == IF BLOCK - 9 < c.m_len % BLOCK THEN 2 ELSE 1
           len_b == ((c.m_tot_len + c.m_len) * 8) % WORD
           pm == nb * BLOCK
           bytes == BigEndian(len_b)
           block == EndBlock(c.m_block, k, pm, bytes)
           tail == Slice(block, 0, pm)
           d == [[c EXCEPT !.m_block = block] EXCEPT !.absorbed = c.absorbed \o tail]
<1>0. Sha256Final(c) = d
  <2>1. c \in Sha256Context
    BY DEF Sha256Holds
  <2>2. [c EXCEPT !.m_block = block].absorbed = c.absorbed
    BY <2>1 DEF Sha256Context
  <2>3. Sha256Final(c) = Absorb([c EXCEPT !.m_block = block], tail)
    BY DEF Sha256Final, EndBlock
  <2> HIDE DEF block, tail
  <2> QED
    BY <2>2, <2>3 DEF Absorb
<1>1. c \in Sha256Context /\ Holds(c.absorbed, c.m_block, k, m) /\ c.m_tot_len = Len(c.absorbed) % WORD
  BY DEF Sha256Holds
<1>2. k \in 0..63 /\ a \in Nat /\ n \in Nat /\ n = a + k /\ n % 64 = k
  <2>1. Len(m) \in Nat /\ Len(m) % BLOCK = k
    BY <1>1, HeldIsLength
  <2>2. k \in 0..63 /\ n = a + k /\ a \in Nat
    <3> HIDE DEF k
    <3> QED
      BY <1>1, LenProperties DEF Holds, BLOCK
  <2> QED
    BY <2>1, <2>2 DEF BLOCK
<1>3. c.m_tot_len = a % WORD /\ c.m_tot_len \in Nat /\ c.m_len = k
  BY <1>1, WordFacts DEF Sha256Context
<1>4. c.m_block \in [0..size - 1 -> Byte] /\ size \in Nat
  BY <1>1 DEF Sha256Context, BLOCK
<1> HIDE DEF k, a, n
<1>5. p = (IF n % 64 < 56 THEN 56 - (n % 64) ELSE 120 - (n % 64)) /\ p \in 1..64
  <2>1. p = (IF n % 64 < 56 THEN 56 - (n % 64) ELSE 120 - (n % 64))
    BY <1>2, PadFacts
  <2>2. p \in 1..64
    BY <1>2, PadFacts
  <2> QED
    BY <2>1, <2>2
<1> HIDE DEF p
<1>6. pm = k + p + 8 /\ pm \in Nat /\ pm <= size
  <2>1. p = IF k < 56 THEN 56 - k ELSE 120 - k
    BY <1>2, <1>5
  <2>2. c.m_len % BLOCK = k
    BY <1>2, <1>3 DEF BLOCK
  <2>3. nb = IF 55 < k THEN 2 ELSE 1
    BY <2>2 DEF BLOCK
  <2> HIDE DEF nb
  <2>4. pm = nb * 64
    BY DEF BLOCK
  <2> HIDE DEF pm
  <2>5. CASE 55 < k
    <3>1. pm = 128 /\ p = 120 - k
      BY <1>2, <2>1, <2>3, <2>4, <2>5
    <3> QED
      BY <1>2, <3>1
  <2>6. CASE ~ (55 < k)
    <3>1. pm = 64 /\ p = 56 - k
      BY <1>2, <2>1, <2>3, <2>4, <2>6
    <3> QED
      BY <1>2, <3>1
  <2> QED
    BY <2>5, <2>6
<1> HIDE DEF pm
<1>7. len_b \in Nat
  <2> DEFINE x == (c.m_tot_len + c.m_len) * 8
             w == WORD
  <2>1. x \in Nat /\ w \in Nat \ {0}
    BY <1>2, <1>3, WordFacts
  <2> HIDE DEF x, w
  <2>2. x % w \in Nat
    BY <2>1, DivMod
  <2> QED
    BY <2>2 DEF x, w
<1>8. bytes \in Seq(Byte) /\ 4 <= Len(bytes)
  <2> HIDE DEF len_b
  <2>1. bytes \in Seq(Byte) /\ Len(bytes) = 4
    BY <1>7, BigEndianFacts
  <2> HIDE DEF bytes
  <2> QED
    BY <2>1
<1> HIDE DEF bytes, size
<1>9. /\ block \in [0..size - 1 -> Byte]
      /\ \A i \in 0..k - 1 : block[i] = c.m_block[i]
      /\ block[k] = 128
      /\ \A i \in k + 1..pm - 5 : block[i] = 0
      /\ \A i \in 1..4 : block[(pm - 4) + i - 1] = bytes[i]
  <2> DEFINE buffer == c.m_block
  <2>1. k \in Nat /\ pm \in Nat /\ pm <= size /\ k + 9 <= pm
    BY <1>2, <1>5, <1>6
  <2>2. buffer \in [0..size - 1 -> Byte] /\ size \in Nat
    BY <1>4
  <2> HIDE DEF buffer
  <2>3. IsEnd(EndBlock(buffer, k, pm, bytes), buffer, size, k, pm, bytes)
    BY <1>8, <2>1, <2>2, EndBlockFacts
  <2>4. IsEnd(block, c.m_block, size, k, pm, bytes)
    BY <2>3 DEF buffer
  <2> HIDE DEF block
  <2> QED
    BY <2>4 DEF IsEnd
<1> HIDE DEF block
<1>10. tail \in Seq(Byte) /\ Len(tail) = pm /\ \A i \in 1..pm : tail[i] = block[i - 1]
  BY <1>4, <1>6, <1>9, BlockFacts
<1> HIDE DEF tail
<1>11. Ends(tail, block, c.m_block, k, p, pm, bytes)
  BY <1>5, <1>6, <1>9, <1>10 DEF Ends
<1>12. d \in Sha256Context /\ d.absorbed = c.absorbed \o tail
  <2> DEFINE joined == c.absorbed \o tail
  <2>1. joined \in Seq(Byte)
    <3>1. c.absorbed \in Seq(Byte) /\ tail \in Seq(Byte)
      BY <1>1, <1>10 DEF Sha256Context
    <3> QED
      BY <3>1, ConcatFacts
  <2>2. block \in [0..2 * BLOCK - 1 -> Byte]
    BY <1>9 DEF size, BLOCK
  <2>3. d = [[c EXCEPT !.m_block = block] EXCEPT !.absorbed = joined]
    OBVIOUS
  <2> HIDE DEF joined, d
  <2>4. c \in Sha256Context
    BY <1>1
  <2>5. d \in Sha256Context /\ d.absorbed = joined
    BY <2>1, <2>2, <2>3, <2>4 DEF Sha256Context
  <2> QED
    BY <2>5 DEF joined
<1> HIDE DEF d
<1>13. ASSUME 8 * n < WORD PROVE d.absorbed = Sha256Padded(m)
  <2>1. IsPadded(c.absorbed \o tail, m, Len(m), p, bytes)
    BY <1>1, <1>11, EndPadding DEF k
  <2>2. IsPadded(Sha256Padded(m), m, Len(m), PadLength(Len(m)), BigEndian((8 * Len(m)) % WORD))
    <3>1. m \in Seq(Byte) /\ 8 * Len(m) < WORD
      BY <1>1, <1>13 DEF n, Holds
    <3> QED
      BY <3>1, StandardPadding
  <2>3. bytes = BigEndian((8 * Len(m)) % WORD)
    <3>1. 8 * (a + k) < WORD /\ a \in Nat /\ k \in Nat
      BY <1>2, <1>13
    <3>2. (((a % WORD) + k) * 8) % WORD = (8 * (a + k)) % WORD
      BY <3>1, CountedBits
    <3>3. len_b = (8 * n) % WORD
      BY <1>2, <1>3, <3>2
    <3> HIDE DEF len_b
    <3> QED
      BY <3>3 DEF bytes, n
  <2>4. p = PadLength(Len(m))
    BY DEF p, n
  <2>5. n \in Nat /\ p \in Nat \ {0} /\ n = Len(m)
    BY <1>2, <1>5 DEF n
  <2>6. IsPadded(c.absorbed \o tail, m, n, p, bytes) /\ IsPadded(Sha256Padded(m), m, n, p, bytes)
    BY <2>1, <2>2, <2>3, <2>4, <2>5
  <2>7. c.absorbed \o tail = Sha256Padded(m)
    BY <2>5, <2>6, OnePadding
  <2> QED
    BY <1>12, <2>7
<1> QED
  BY <1>0, <1>12, <1>13 DEF n

-----------------------------------------------------------------------------
(* The client.                                                             *)

\* No piece has as many bytes as a word counts.
WordPieces == Lengths \subseteq 0..WORD - 1

\* Until the digests are asked for, both objects hold what they have been
\* given, and MD5 has no digest; from then on MD5 has the digest of it, and
\* SHA256 has that of a message whose bits one word counts.
Inv ==
  /\ TypeOK
  /\ ~ done => /\ Sha256Holds(sha, message)
               /\ \E m : Md5Holds(md5, m) /\ (WordPieces => m = message)
               /\ ~ md5.finalized
  /\ done => /\ md5.finalized /\ (WordPieces => md5.digest = Md5Padded(message))
             /\ 8 * fed < WORD => sha.absorbed = Sha256Padded(message)

\* The first n bytes of what the client has ...
LEMMA PrefixFacts ==
  ASSUME NEW n \in 0..Len(Message)
  PROVE  /\ SubSeq(Message, 1, n) \in Seq(Byte) /\ Len(SubSeq(Message, 1, n)) = n
         /\ \A i \in 1..n : SubSeq(Message, 1, n)[i] = Message[i]
<1> DEFINE z == 0
           s == SubSeq(Message, z + 1, z + n)
<1>1. z \in Nat /\ n \in Nat /\ z + n <= Len(Message) /\ Message \in Seq(Byte)
  BY ClientAssumption, LenProperties
<1>2. SubSeq(Message, 1, n) = s /\ \A i \in 1..n : z + i = i
  BY <1>1
<1> HIDE DEF z, s
<1>3. s \in Seq(Byte) /\ Len(s) = n /\ \A i \in 1..n : s[i] = Message[z + i]
  BY <1>1, SliceFacts DEF s
<1> QED
  BY <1>2, <1>3

\* ... continued by the next piece of it.
LEMMA PrefixGrows ==
  ASSUME NEW n \in Nat, NEW k \in Nat, n + k <= Len(Message)
  PROVE  /\ SubSeq(Message, n + 1, n + k) \in Seq(Byte)
         /\ SubSeq(Message, 1, n + k) = SubSeq(Message, 1, n) \o SubSeq(Message, n + 1, n + k)
<1> DEFINE s == SubSeq(Message, 1, n)
           t == SubSeq(Message, n + 1, n + k)
           u == SubSeq(Message, 1, n + k)
           l == n + k
<1>0. Message \in Seq(Byte) /\ Len(Message) \in Nat
  BY ClientAssumption, LenProperties
<1>1. t \in Seq(Byte) /\ Len(t) = k /\ \A i \in 1..k : t[i] = Message[n + i]
  BY <1>0, SliceFacts
<1>2. s \in Seq(Byte) /\ Len(s) = n /\ \A i \in 1..n : s[i] = Message[i]
  <2>1. n \in 0..Len(Message)
    BY <1>0
  <2> QED
    BY <2>1, PrefixFacts
<1>3. u \in Seq(Byte) /\ Len(u) = n + k /\ \A i \in 1..n + k : u[i] = Message[i]
  <2>1. l \in 0..Len(Message)
    BY <1>0
  <2>2. u = SubSeq(Message, 1, l)
    OBVIOUS
  <2> HIDE DEF l, u
  <2>3. u \in Seq(Byte) /\ Len(u) = l /\ \A i \in 1..l : u[i] = Message[i]
    BY <2>1, <2>2, PrefixFacts
  <2> QED
    BY <2>3 DEF l
<1> HIDE DEF s, t, u
<1>4. /\ s \o t \in Seq(Byte) /\ Len(s \o t) = n + k
      /\ \A i \in 1..n : (s \o t)[i] = s[i]
      /\ \A i \in 1..k : (s \o t)[n + i] = t[i]
  <2>1. s \in Seq(Byte) /\ t \in Seq(Byte)
    BY <1>1, <1>2
  <2>2. /\ s \o t \in Seq(Byte) /\ Len(s \o t) = Len(s) + Len(t)
        /\ \A i \in 1..Len(s) : (s \o t)[i] = s[i]
        /\ \A i \in 1..Len(t) : (s \o t)[Len(s) + i] = t[i]
    BY <2>1, ConcatFacts
  <2> QED
    BY <1>1, <1>2, <2>2
<1>5. ASSUME NEW i \in 1..n + k PROVE u[i] = (s \o t)[i]
  <2>1. CASE i <= n
    <3>1. i \in 1..n
      BY <2>1
    <3> QED
      BY <1>2, <1>3, <1>4, <3>1
  <2>2. CASE i > n
    <3>1. PICK j \in 1..k : i = n + j
      <4>1. i - n \in 1..k /\ i = n + (i - n)
        BY <2>2
      <4> QED
        BY <4>1
    <3>2. (s \o t)[n + j] = t[j] /\ t[j] = Message[n + j]
      BY <1>1, <1>4
    <3> QED
      BY <1>3, <3>1, <3>2
  <2>3. i <= n \/ i > n
    OBVIOUS
  <2> QED
    BY <2>1, <2>2, <2>3
<1>6. u = s \o t
  <2> DEFINE v == s \o t
  <2>1. v \in Seq(Byte) /\ u \in Seq(Byte) /\ Len(u) = Len(v) /\ \A i \in 1..Len(u) : u[i] = v[i]
    BY <1>3, <1>4, <1>5
  <2> HIDE DEF v
  <2>2. u = v
    BY <2>1, SameSequence
  <2> QED
    BY <2>2 DEF v
<1> QED
  BY <1>1, <1>6 DEF s, t, u

\* Both objects are made empty.
LEMMA InitInv == Init => Inv
<1> SUFFICES ASSUME Init PROVE Inv
  OBVIOUS
<1>1. PICK byte \in Memory : md5 = Md5Init([i \in 0..BLOCK - 1 |-> byte])
  BY DEF Init
<1>2. byte \in Byte /\ 0 \in Byte /\ 0 \in 0..WORD - 1
  BY ClientAssumption, BytesAreBytes, WordFacts
<1>3. message \in Seq(Byte) /\ Len(message) = 0 /\ fed \in 0..Len(Message)
  <2>1. fed = 0 /\ Len(Message) \in Nat
    BY ClientAssumption, LenProperties DEF Init
  <2>2. fed \in 0..Len(Message)
    BY <2>1
  <2>3. SubSeq(Message, 1, fed) \in Seq(Byte) /\ Len(SubSeq(Message, 1, fed)) = fed
    BY <2>2, PrefixFacts
  <2> QED
    BY <2>1, <2>2, <2>3 DEF message
<1> DEFINE m == message
<1> HIDE DEF m
<1>4. \A buffer : Holds(<<>>, buffer, 0, message)
  BY <1>3 DEF Holds, BLOCK
<1>5. sha \in Sha256Context /\ sha.absorbed = <<>> /\ sha.m_len = 0 /\ sha.m_tot_len = 0
  BY <1>2 DEF Init, Sha256Init, Sha256Context, BLOCK
<1>6. /\ md5 \in Md5Context /\ md5.absorbed = <<>> /\ md5.lo = 0 /\ md5.hi = 0
      /\ md5.finalized = FALSE /\ md5.digest = <<>>
  BY <1>1, <1>2 DEF Md5Init, Md5Context
<1>7. 0 % WORD = 0 /\ 0 \div WORD = 0 /\ 0 % BLOCK = 0
  <2> DEFINE w == WORD
  <2>1. w \in Nat \ {0}
    BY WordFacts
  <2> HIDE DEF w
  <2>2. 0 % w = 0 /\ 0 \div w = 0
    BY <2>1
  <2> QED
    BY <2>2 DEF w, BLOCK
<1>8. Sha256Holds(sha, message)
  BY <1>4, <1>5, <1>7 DEF Sha256Holds
<1>9. Md5Holds(md5, message)
  <2>1. Md5Counted(md5, Len(message))
    BY <1>3, <1>6, <1>7 DEF Md5Counted
  <2>2. Holds(md5.absorbed, md5.buffer, Len(message) % BLOCK, message)
    BY <1>3, <1>4, <1>6, <1>7
  <2> QED
    BY <1>6, <2>1, <2>2 DEF Md5Holds
<1>10. done = FALSE
  BY DEF Init
<1> QED
  BY <1>3, <1>5, <1>6, <1>8, <1>9, <1>10 DEF Inv, TypeOK

\* A piece continues the message of both.
LEMMA UpdateInv ==
  ASSUME Inv, NEW length \in Lengths, Update(length)
  PROVE  Inv'
<1> DEFINE piece == SubSeq(Message, fed + 1, fed + length)
<1>1. ~ done /\ ~ done' /\ fed + length <= Len(Message) /\ fed' = fed + length
  BY DEF Update
<1>2. sha' = Sha256Update(sha, piece) /\ md5' = Md5Update(md5, piece)
  BY DEF Update
<1>3. Sha256Holds(sha, message) /\ ~ md5.finalized
  BY <1>1 DEF Inv
<1>m. PICK m : Md5Holds(md5, m) /\ (WordPieces => m = message)
  BY <1>1 DEF Inv
<1>4. length \in Nat /\ fed \in Nat /\ Len(Message) \in Nat
  BY ClientAssumption, LenProperties DEF Inv, TypeOK
<1>5. fed' \in 0..Len(Message) /\ done' = FALSE
  BY <1>1, <1>4 DEF Update, Inv, TypeOK
<1>6. piece \in Seq(Byte) /\ message' = message \o piece
  <2>1. /\ piece \in Seq(Byte)
        /\ SubSeq(Message, 1, fed + length) = SubSeq(Message, 1, fed) \o piece
    BY <1>1, <1>4, PrefixGrows
  <2> QED
    BY <1>1, <2>1 DEF message
<1>s. WordPieces => Len(piece) < WORD
  <2>1. Len(piece) = length
    <3> DEFINE n == fed
    <3>1. n \in Nat /\ length \in Nat /\ n + length <= Len(Message) /\ Message \in Seq(Byte)
      BY <1>1, <1>4, ClientAssumption
    <3>2. piece = SubSeq(Message, n + 1, n + length)
      OBVIOUS
    <3> HIDE DEF n, piece
    <3> QED
      BY <3>1, <3>2, SliceFacts
  <2>2. WordPieces => length \in 0..WORD - 1
    BY DEF WordPieces
  <2> HIDE DEF piece
  <2> QED
    BY <2>1, <2>2, WordFacts
<1> HIDE DEF piece
<1>7. Sha256Holds(Sha256Update(sha, piece), message \o piece)
  BY <1>3, <1>6, Sha256UpdateFacts
<1>c. md5 \in Md5Context
  BY <1>m DEF Md5Holds
<1>t. PICK taken \in Seq(Byte) :
             /\ Len(taken) < WORD
             /\ Len(piece) < WORD => taken = piece
             /\ Md5Update(md5, piece) = Md5Update(md5, taken)
  BY <1>6, <1>c, Md5Truncates
<1>u. md5' = Md5Update(md5, taken)
  BY <1>2, <1>t
<1>v. taken \in Seq(Byte) /\ Len(taken) < WORD /\ Md5Holds(md5, m)
  BY <1>m, <1>t
<1>w. /\ Md5Holds(Md5Update(md5, taken), m \o taken)
      /\ Md5Update(md5, taken).finalized = md5.finalized
  BY <1>v, Md5UpdateFacts
<1>8. Md5Holds(md5', m \o taken)
  BY <1>u, <1>w
<1>9. md5'.finalized = md5.finalized
  BY <1>u, <1>w
<1>10. Sha256Holds(sha', message') /\ ~ md5'.finalized
  BY <1>2, <1>3, <1>6, <1>7, <1>9
<1>12. WordPieces => m \o taken = message'
  BY <1>6, <1>m, <1>s, <1>t
<1>13. \E mm : Md5Holds(md5', mm) /\ (WordPieces => mm = message')
  BY <1>8, <1>12
<1>11. sha' \in Sha256Context /\ md5' \in Md5Context
  BY <1>8, <1>10 DEF Sha256Holds, Md5Holds
<1>14. WordPieces' = WordPieces
  BY DEF WordPieces
<1> QED
  BY <1>1, <1>5, <1>10, <1>11, <1>13, <1>14 DEF Inv, TypeOK

\* The ends make the paddings.
LEMMA FinishInv ==
  ASSUME Inv, Finish
  PROVE  Inv'
<1>1. /\ ~ done /\ done' = TRUE /\ fed' = fed
      /\ sha' = Sha256Final(sha) /\ md5' = Md5Finalize(md5)
  BY DEF Finish
<1>2. Sha256Holds(sha, message) /\ ~ md5.finalized
  BY <1>1 DEF Inv
<1>m. PICK m : Md5Holds(md5, m) /\ (WordPieces => m = message)
  BY <1>1 DEF Inv
<1>3. message' = message
  BY <1>1 DEF message
<1>4. fed \in 0..Len(Message) /\ Len(message) = fed
  <2>1. fed \in 0..Len(Message)
    BY DEF Inv, TypeOK
  <2> QED
    BY <2>1, PrefixFacts DEF message
<1>5. Sha256Final(sha) \in Sha256Context
  BY <1>2, Sha256FinalFacts
<1>6. 8 * Len(message) < WORD => Sha256Final(sha).absorbed = Sha256Padded(message)
  BY <1>2, Sha256FinalFacts
<1>7. md5' = Md5Digest(md5)
  BY <1>1, <1>2 DEF Md5Finalize
<1>8. Md5Digest(md5) \in Md5Context
  BY <1>m, Md5DigestFacts
<1>9. Md5Digest(md5).finalized = TRUE
  BY <1>m, Md5DigestFacts
<1>10. WordPieces => Md5Digest(md5).digest = Md5Padded(message)
  BY <1>m, Md5DigestFacts
<1>11. 8 * fed < WORD => sha'.absorbed = Sha256Padded(message)
  BY <1>1, <1>4, <1>6
<1> QED
  BY <1>1, <1>3, <1>4, <1>5, <1>7, <1>8, <1>9, <1>10, <1>11 DEF Inv, TypeOK

\* md5.finalized keeps a second finalize from changing anything.
LEMMA NextInv == Inv /\ [Next]_vars => Inv'
<1> SUFFICES ASSUME Inv, [Next]_vars PROVE Inv'
  OBVIOUS
<1>1. ASSUME NEW length \in Lengths, Update(length) PROVE Inv'
  BY <1>1, UpdateInv
<1>2. CASE Finish
  BY <1>2, FinishInv
<1>3. CASE FinishMd5Again
  <2>1. md5' = md5 /\ sha' = sha /\ fed' = fed /\ done' = done
    BY <1>3 DEF FinishMd5Again, Inv, Md5Finalize
  <2>2. message' = message
    BY <2>1 DEF message
  <2> QED
    BY <2>1, <2>2 DEF Inv, TypeOK
<1>4. CASE UNCHANGED vars
  <2>1. md5' = md5 /\ sha' = sha /\ fed' = fed /\ done' = done
    BY <1>4 DEF vars
  <2>2. message' = message
    BY <2>1 DEF message
  <2> QED
    BY <2>1, <2>2 DEF Inv, TypeOK
<1> QED
  BY <1>1, <1>2, <1>3, <1>4 DEF Next

\* The invariant holds of every run.
LEMMA Invariance == Spec => []Inv
<1>1. Init => Inv
  BY InitInv
<1>2. Inv /\ [Next]_vars => Inv'
  BY NextInv
<1> QED
  BY <1>1, <1>2, PTL DEF Spec

-----------------------------------------------------------------------------

\* update, final and finalize keep both objects what their classes declare:
\* lengths that index the block, counters of a word, bytes in every place.
THEOREM TypeCorrect == Spec => []TypeOK
<1>1. Inv => TypeOK
  BY DEF Inv
<1> QED
  BY <1>1, Invariance, PTL

\* For every message shorter than 2^32 bits and all pieces it can come in,
\* SHA256 has hashed exactly the padding FIPS 180-4 asks for.
THEOREM Sha256IsExact == Spec => []Sha256Exact
<1>1. Inv => Sha256Exact
  BY DEF Inv, Sha256Exact
<1> QED
  BY <1>1, Invariance, PTL

\* For every message and all pieces of less than 2^32 bytes it can come in,
\* hexdigest is empty until finalize, and then is of exactly the padding RFC
\* 1321 asks for, however often finalize is called.
THEOREM Md5IsExact ==
  ASSUME Lengths \subseteq 0..WORD - 1
  PROVE  Spec => []Md5Exact
<1>1. Inv => Md5Exact
  BY DEF Inv, Md5Exact, hexdigest, WordPieces
<1> QED
  BY <1>1, Invariance, PTL
=============================================================================

-------------------------------- MODULE Md5 ---------------------------------
(***************************************************************************)
(* class MD5: as Sha256, with the number of bits in two words.  state is   *)
(* modelled by the bytes it has absorbed.                                  *)
(***************************************************************************)
EXTENDS DigestBytes

Md5Context ==
  [buffer : [0..BLOCK - 1 -> Byte], lo : 0..WORD - 1, hi : 0..WORD - 1,
   absorbed : Seq(Byte), finalized : BOOLEAN, digest : Seq(Byte)]

\* init leaves buffer as the memory was.
Md5Init(memory) ==
  [buffer |-> memory, lo |-> 0, hi |-> 0, absorbed |-> <<>>, finalized |-> FALSE, digest |-> <<>>]

\* Faulty: count has no carry.
Md5CountLow(c, length) == [c EXCEPT !.lo = (@ + 8 * length) % WORD]

\* count is 64 bits in two words.
Md5Count(c, length) ==
  LET bits  == (8 * length) % WORD
      lo    == (c.lo + bits) % WORD
      carry == IF lo < bits THEN 1 ELSE 0
  IN  [c EXCEPT !.lo = lo, !.hi = (@ + carry + ((8 * length) \div WORD)) % WORD]

\* size_type has 32 bits: of what it is given update takes the rest by 2^32.
Size(input) == Len(input) % WORD

\* How many bytes fill buffer, and where the loop over the whole blocks behind
\* these ends.
FirstPart(c) == BLOCK - ((c.lo \div 8) % BLOCK)
LoopEnd(c, length) == FirstPart(c) + BLOCK * ((length - FirstPart(c)) \div BLOCK)

\* The test that ends the loop adds blocksize to i, in 32 bits: for the longest
\* pieces the sum runs over and the loop does not end.
Md5Returns(c, input) ==
  Size(input) >= FirstPart(c) => LoopEnd(c, Size(input)) + BLOCK < WORD

\* update: fill buffer; if it is full absorb it and the whole blocks behind it,
\* and buffer the rest.
Md5Update(c, input) ==
  LET length    == Size(input)
      index     == (c.lo \div 8) % BLOCK
      firstpart == FirstPart(c)
      i         == LoopEnd(c, length)
      filled    == memcpy(c.buffer, index, input, firstpart)
      counted   == Md5Count(c, length)
  IN  IF length < firstpart
      THEN [counted EXCEPT !.buffer = memcpy(@, index, input, length)]
      ELSE [counted EXCEPT
              !.absorbed = @ \o Slice(filled, 0, BLOCK) \o SubSeq(input, firstpart + 1, i),
              !.buffer = memcpy(filled, 0, SubSeq(input, i + 1, length), length - i)]

padding == <<128>> \o Repeat(0, BLOCK - 1)

\* finalize: pad to 56 mod 64, append the number of bits there was before that,
\* and clear buffer and count.
Md5Digest(c) ==
  LET bits   == LittleEndian(c.lo) \o LittleEndian(c.hi)
      index  == (c.lo \div 8) % BLOCK
      padLen == IF index < 56 THEN 56 - index ELSE 120 - index
      padded == Md5Update(c, SubSeq(padding, 1, padLen))
      final  == Md5Update(padded, bits)
  IN  [final EXCEPT !.digest = final.absorbed, !.buffer = [i \in 0..BLOCK - 1 |-> 0],
                    !.lo = 0, !.hi = 0, !.finalized = TRUE]

\* Faulty: a second finalize starts over.
Md5FinalizeAgain(c) == Md5Digest(c)

Md5Finalize(c) == IF c.finalized THEN c ELSE Md5Digest(c)

hexdigest(c) == IF c.finalized THEN c.digest ELSE <<>>

\* RFC 1321: the padded message, with its length in bits as 64 bits.
Md5Padded(m) ==
  m \o Pad(Len(m)) \o LittleEndian((8 * Len(m)) % WORD)
    \o LittleEndian(((8 * Len(m)) \div WORD) % WORD)
=============================================================================

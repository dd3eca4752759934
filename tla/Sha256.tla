------------------------------- MODULE Sha256 -------------------------------
(***************************************************************************)
(* class SHA256: a message that comes in pieces is absorbed block by       *)
(* block.  The hash m_h is a function of the bytes transform has been      *)
(* given, and is modelled by them: absorbed.                               *)
(***************************************************************************)
EXTENDS DigestBytes

Sha256Context ==
  [m_block : [0..2 * BLOCK - 1 -> Byte], m_len : 0..BLOCK - 1, m_tot_len : 0..WORD - 1,
   absorbed : Seq(Byte)]

\* SHA256() clears the object; init sets the lengths and the hash.
Sha256Init ==
  [m_block |-> [i \in 0..2 * BLOCK - 1 |-> 0], m_len |-> 0, m_tot_len |-> 0, absorbed |-> <<>>]

\* transform of whole blocks
Absorb(c, bytes) == [c EXCEPT !.absorbed = @ \o bytes]

\* update: fill m_block; if it is full, for which it takes threshold bytes,
\* absorb it and the whole blocks behind it, and keep the rest: what is behind
\* those blocks in shifted_message (or, if not shifts, in message).
UpdateFrom(c, message, threshold, shifts) ==
  LET len     == Len(message)
      tmp_len == BLOCK - c.m_len
      rem_len == IF len < tmp_len THEN len ELSE tmp_len
      block   == memcpy(c.m_block, c.m_len, message, rem_len)
      whole   == BLOCK * ((len - rem_len) \div BLOCK)
      rest    == (len - rem_len) % BLOCK
      rest_at == (IF shifts THEN rem_len ELSE 0) + whole
  IN  IF c.m_len + len < threshold
      THEN [c EXCEPT !.m_block = block, !.m_len = @ + len]
      ELSE [Absorb(c, Slice(block, 0, BLOCK) \o SubSeq(message, rem_len + 1, rem_len + whole))
              EXCEPT !.m_block = memcpy(block, 0, SubSeq(message, rest_at + 1, len), rest),
                     !.m_len = rest,
                     !.m_tot_len = (@ + whole + BLOCK) % WORD]

\* Faulty: the rest is taken from message and not from shifted_message.
Sha256UpdateUnshifted(c, message) == UpdateFrom(c, message, BLOCK, FALSE)

\* Faulty: a full block is kept.
Sha256UpdateLate(c, message) == UpdateFrom(c, message, BLOCK + 1, TRUE)

Sha256Update(c, message) == UpdateFrom(c, message, BLOCK, TRUE)

\* final: 0x80, zeros and the low word of the length in bits, in one block or
\* two; the high word stays 0.
Sha256Final(c) ==
  LET block_nb == IF BLOCK - 9 < c.m_len % BLOCK THEN 2 ELSE 1
      len_b    == ((c.m_tot_len + c.m_len) * 8) % WORD
      pm_len   == block_nb * BLOCK
      zeroed   == memset(c.m_block, c.m_len, 0, pm_len - c.m_len)
      marked   == [zeroed EXCEPT ![c.m_len] = 128]
      block    == memcpy(marked, pm_len - 4, BigEndian(len_b), 4)
  IN  Absorb([c EXCEPT !.m_block = block], Slice(block, 0, pm_len))

\* FIPS 180-4: the padded message, with its length in bits as 64 bits.
Sha256Padded(m) ==
  m \o Pad(Len(m)) \o BigEndian((8 * Len(m)) \div WORD) \o BigEndian((8 * Len(m)) % WORD)
=============================================================================

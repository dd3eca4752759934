------------------------------ MODULE Digests -------------------------------
(***************************************************************************)
(* A client that gives the same message, in pieces of any length, to an    *)
(* SHA256 and to an MD5 object, and then asks for the digests, of MD5      *)
(* perhaps more than once.  sha256() and md5(), which UTIL::GetSessionKey  *)
(* calls, are the clients with one piece.                                  *)
(***************************************************************************)
EXTENDS Sha256, Md5

CONSTANTS
  Message,    \* the bytes the client has
  Lengths,    \* the lengths of its pieces
  Memory      \* bytes an object can find in its memory

ASSUME ClientAssumption ==
  /\ Message \in Seq(Byte)
  /\ Lengths \subseteq Nat
  /\ Memory \subseteq Byte

VARIABLES
  sha,        \* the SHA256 object
  md5,        \* the MD5 object
  fed,        \* how many bytes of Message they have been given
  done        \* the digests have been asked for

vars == <<sha, md5, fed, done>>

TypeOK ==
  /\ sha \in Sha256Context
  /\ md5 \in Md5Context
  /\ fed \in 0..Len(Message)
  /\ done \in BOOLEAN

Init ==
  /\ sha = Sha256Init
  /\ \E byte \in Memory : md5 = Md5Init([i \in 0..BLOCK - 1 |-> byte])
  /\ fed = 0
  /\ done = FALSE

\* There is no step when update does not return.
Update(length) ==
  /\ ~ done
  /\ fed + length <= Len(Message)
  /\ LET piece == SubSeq(Message, fed + 1, fed + length)
     IN  /\ sha' = Sha256Update(sha, piece)
         /\ Md5Returns(md5, piece)
         /\ md5' = Md5Update(md5, piece)
  /\ fed' = fed + length
  /\ UNCHANGED done

Finish ==
  /\ ~ done
  /\ sha' = Sha256Final(sha)
  /\ md5' = Md5Finalize(md5)
  /\ done' = TRUE
  /\ UNCHANGED fed

FinishMd5Again ==
  /\ done
  /\ md5' = Md5Finalize(md5)
  /\ UNCHANGED <<sha, fed, done>>

Next ==
  \/ \E length \in Lengths : Update(length)
  \/ Finish
  \/ FinishMd5Again

Spec == Init /\ [][Next]_vars

-----------------------------------------------------------------------------
(* Properties. *)

message == SubSeq(Message, 1, fed)

\* Whatever pieces the message came in, SHA256 has hashed exactly its padding:
\* no byte lost, repeated or taken from an earlier block, at every length up to
\* the 2^32 bits the code counts.
Sha256Exact ==
  done /\ 8 * fed < WORD => sha.absorbed = Sha256Padded(message)

\* The same of MD5, which counts 64 bits, as long as no piece has 2^32 bytes
\* (Lengths); and the digest does not change when it is asked for again.
Md5Exact == hexdigest(md5) = IF done THEN Md5Padded(message) ELSE <<>>
=============================================================================

--------------------------- MODULE ChunkedStream ---------------------------
(***************************************************************************)
(* The framing of an encrypted file (src/internal/crypto/crypto.go) and    *)
(* how serveClaimedFile delivers it.  EncryptReader cuts the file into     *)
(* chunks and seals each with its number as additional data; DecryptReader *)
(* reads frames until the stored object ends.                              *)
(*                                                                         *)
(* The cipher is taken for what it promises: a frame opens only if it was  *)
(* sealed with the key of the file under the number the reader expects.    *)
(***************************************************************************)
EXTENDS Naturals, Sequences, SequencesExt

CONSTANT ChunkSize

ASSUME ChunkAssumption == ChunkSize \in Nat \ {0}

VARIABLES
  size,    \* the FileSize of the item
  stored,  \* the frames of the object it names
  read,    \* frames DecryptReader has read, opened and written
  written  \* the bytes it has written, as places in the file

streamVars == <<size, stored, read, written>>

(* The chunk of the file that begins at from; number is the additional     *)
(* data it is sealed with.                                                 *)
Chunk(number, from, len) == [number |-> number, from |-> from, len |-> len]

(* Stored in place of a frame that was cut short or altered, or that comes *)
(* from another file: it cannot be opened under any number.                *)
Damaged == Chunk(0, 0, 0)

(* EncryptReader: full chunks until the file ends, and the rest of it, if  *)
(* there is one.  Numbers count from 1 here, so that Damaged has none.     *)
EncryptReader(bytes) ==
  [n \in 1 .. (bytes + ChunkSize - 1) \div ChunkSize |->
     LET from == (n - 1) * ChunkSize IN
     Chunk(n, from, IF bytes - from < ChunkSize THEN bytes - from ELSE ChunkSize)]

(* gcm.Open with the number of the frames read so far.                     *)
Opens(frame, n) == frame # Damaged /\ frame.number = n

(* The bytes of the file that a frame holds.                               *)
Plain(frame) == [b \in 1 .. frame.len |-> frame.from + b]

(* Mutant: the header announces the size of what is stored.                *)
CompleteWhenStoredIs == read = Len(stored)

(* What the client takes for a complete download: Content-Length is the    *)
(* FileSize of the item, and the connection closes early when less is      *)
(* written.                                                                *)
Complete == Len(written) = size

-----------------------------------------------------------------------------
(* Objects a storage may hold for a file: its frames lost, repeated, out   *)
(* of order or damaged.                                                    *)
Objects(bytes) ==
  LET frames == EncryptReader(bytes)
  IN  UNION {[1..n -> ToSet(frames) \cup {Damaged}] : n \in 0 .. Len(frames) + 1}

StreamInit ==
  /\ size \in 0 .. 3 * ChunkSize
  /\ stored \in Objects(size)
  /\ read = 0 /\ written = <<>>

(* DecryptReader writes what it has opened before it reads the next frame, *)
(* and stops at the first that does not open.                              *)
DecryptReader ==
  /\ read < Len(stored)
  /\ Opens(stored[read + 1], read + 1)
  /\ read' = read + 1
  /\ written' = written \o Plain(stored[read + 1])
  /\ UNCHANGED <<size, stored>>

StreamSpec == StreamInit /\ [][DecryptReader]_streamVars

-----------------------------------------------------------------------------
(* Whatever becomes of the stored object, only a beginning of the file is  *)
(* ever sent, and a download that looks complete to the client is the      *)
(* whole file.  DecryptReader alone does not see an object that was cut    *)
(* between two frames; the announced length does.  A file that is stored   *)
(* whole is sent whole: empty, a multiple of the chunk size, or with a     *)
(* rest.                                                                   *)
DamageIsNoticed ==
  LET whole == [b \in 1..size |-> b] IN
  /\ IsPrefix(written, whole)
  /\ Complete => written = whole
  /\ stored = EncryptReader(size) /\ read = Len(stored) => Complete
=============================================================================

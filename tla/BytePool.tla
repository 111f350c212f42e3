------------------------------ MODULE BytePool ------------------------------
(***************************************************************************)
(* The sync.Pool bytePool and the bytes of its buffers, which all          *)
(* goroutines that receive IGMP share.  Of the bytes a buffer holds we     *)
(* keep which packet wrote them: a cell is the packet last read into it.   *)
(***************************************************************************)
EXTENDS Naturals

CONSTANTS
  Bufs, NoBuf,      \* buffers, and "no buffer"
  BufLen,           \* cells of a buffer: each packet fills a prefix of them
  NoPkt             \* the content of a cell nothing was read into

VARIABLES
  bytePool,         \* how often each buffer is in the pool
  data              \* for each cell of a buffer, the packet that wrote it

Types == {"query", "v1", "v2", "v3", "leave", "other"}

Cells(P) == [1 .. BufLen -> P \cup {NoPkt}]
Zeros    == [i \in 1 .. BufLen |-> NoPkt]

\* Get takes a buffer of the pool as it is ...
Reuse(b) ==
  /\ bytePool[b] > 0
  /\ bytePool' = [bytePool EXCEPT ![b] = @ - 1]
  /\ UNCHANGED data

\* ... or New makes one, with zeros in it.  A buffer nobody put back is garbage,
\* so New may hand it out again.
New(b) ==
  /\ bytePool[b] = 0
  /\ data' = [data EXCEPT ![b] = Zeros]
  /\ UNCHANGED bytePool

PutBack(b) == bytePool' = [bytePool EXCEPT ![b] = @ + 1]

\* Reading p overwrites a prefix of the buffer and leaves the rest as it was.
Fill(cells, p) == [i \in 1 .. BufLen |-> IF i <= p.len THEN p ELSE cells[i]]
=============================================================================

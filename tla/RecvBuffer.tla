----------------------------- MODULE RecvBuffer -----------------------------
(***************************************************************************)
(* The receive buffer of ServerCore/RecvBuffer.cpp with the session that   *)
(* is to use it: it receives at WritePos, reports what came with OnWrite,  *)
(* consumes from ReadPos with OnRead, and calls Clean in between.  The     *)
(* bytes of the stream are numbered, so that order and loss can be seen.   *)
(***************************************************************************)
EXTENDS Integers, Sequences

CONSTANTS
  BufferSize,    (* _bufferSize                                            *)
  BufferCount    (* BUFFER_COUNT                                           *)

ASSUME RecvBufferAssumption ==
  BufferSize \in Nat \ {0} /\ BufferCount \in Nat \ {0}

Capacity == BufferSize * BufferCount

VARIABLES
  readPos, writePos,   (* _readPos, _writePos                              *)
  buffer,              (* _buffer                                          *)
  pending,             (* the bytes received and not yet read              *)
  nextByte,            (* the next byte of the stream                      *)
  cleaned              (* whether Clean was the last call                  *)

bufferVars == <<readPos, writePos, buffer, pending, nextByte, cleaned>>

(* Numbers of bytes are reused once more than Capacity bytes lie between.  *)
Bytes == 0 .. Capacity
Junk  == -1

DataSize == writePos - readPos
FreeSize == Capacity - writePos

BufferInit ==
  /\ readPos = 0
  /\ writePos = 0
  /\ buffer = [i \in 0 .. Capacity - 1 |-> Junk]
  /\ pending = <<>>
  /\ nextByte = 0
  /\ cleaned = FALSE

(* An OnWrite that compares with the wrong size.                           *)
MutFits(n) == n <= Capacity - DataSize

Fits(n) == n <= FreeSize

(* recv put n bytes at WritePos and OnWrite(n) is called; what does not    *)
(* fit is refused and leaves the cursor where it was.  The result is       *)
(* false in either case (RecvBuffer.cpp:53, 58): a constant, which nothing *)
(* reads, so no variable keeps it.                                         *)
OnWrite(n) ==
  /\ Fits(n)
  /\ LET came == [i \in 1 .. n |-> (nextByte + i - 1) % (Capacity + 1)]
     IN  /\ buffer' = [i \in DOMAIN buffer |->
                         IF i \in writePos .. writePos + n - 1
                         THEN came[i - writePos + 1] ELSE buffer[i]]
         /\ pending' = pending \o came
  /\ nextByte' = (nextByte + n) % (Capacity + 1)
  /\ writePos' = writePos + n
  /\ cleaned' = FALSE
  /\ UNCHANGED readPos

(* OnRead(n); more than there is, is refused.  The result is false here    *)
(* too, in either case (RecvBuffer.cpp:41, 46).                            *)
OnRead(n) ==
  /\ n <= DataSize
  /\ readPos' = readPos + n
  /\ pending' = SubSeq(pending, n + 1, Len(pending))
  /\ cleaned' = FALSE
  /\ UNCHANGED <<writePos, buffer, nextByte>>

(* memcpy_s(data, n, data + from, n): bytes past the end are any bytes.    *)
Moved(from, n) ==
  [i \in DOMAIN buffer |->
     IF i >= n THEN buffer[i]
     ELSE IF from + i \in DOMAIN buffer THEN buffer[from + i] ELSE Junk]

(* A Clean that resets _readPos before it subtracts it.                    *)
MutMovedCursors == readPos' = 0 /\ writePos' = writePos - readPos'

MovedCursors == writePos' = writePos - readPos /\ readPos' = 0

(* A Clean that waits until nothing is free.                               *)
MutIsShort == FreeSize = 0

IsShort == FreeSize < BufferSize

(* Clean: the cursors fall back to the start when no data is left, and the *)
(* data is moved there when less than one buffer is free.                  *)
Clean ==
  /\ IF DataSize = 0
     THEN readPos' = 0 /\ writePos' = 0 /\ UNCHANGED buffer
     ELSE IF IsShort
     THEN MovedCursors /\ buffer' = Moved(writePos, DataSize)
     ELSE UNCHANGED <<readPos, writePos, buffer>>
  /\ cleaned' = TRUE
  /\ UNCHANGED <<pending, nextByte>>

BufferNext ==
  \/ \E n \in 1 .. Capacity : OnWrite(n) \/ OnRead(n)
  \/ Clean

BufferSpec == BufferInit /\ [][BufferNext]_bufferVars

-----------------------------------------------------------------------------
(* Properties                                                              *)

(* The cursors stay in order and inside the buffer (RecvBuffer.h:7).       *)
BufferTypeOK ==
  /\ readPos \in 0 .. writePos
  /\ writePos \in 0 .. Capacity
  /\ buffer \in [0 .. Capacity - 1 -> Bytes \cup {Junk}]
  /\ pending \in Seq(Bytes)
  /\ nextByte \in Bytes
  /\ cleaned \in BOOLEAN

(* Through any order of OnWrite, OnRead and Clean the cursors delimit as   *)
(* many bytes as were received and not read (RecvBuffer.h:30).             *)
NoByteCountLost == DataSize = Len(pending)

(* RecvBuffer.cpp:24: after a Clean a whole buffer can be received, unless *)
(* the unread data itself takes that room.                                 *)
CleanMakesRoom ==
  cleaned => FreeSize >= BufferSize \/ DataSize > Capacity - BufferSize

(* RecvBuffer.h:9: the data between r and w is the valid data.             *)
ValidBetweenCursors ==
  \A i \in 1 .. Len(pending) : buffer[readPos + i - 1] = pending[i]

=============================================================================

----------------------------- MODULE LineReader -----------------------------
(***************************************************************************)
(* From the bytes a client sends to the lines the command loop gets: the   *)
(* buffer of xdebug_fd_read_line_delim in debugger/handler_dbgp.c, which   *)
(* is kept between two reads.  A byte is a character; NUL ends a line.     *)
(***************************************************************************)
EXTENDS Integers, Sequences, SequencesExt

CONSTANTS
  MaxPacket,    \* DBGP_MAX_PACKET_SIZE
  Lines         \* what a client sends: a sequence of lines without NUL

NUL == "NUL"

ASSUME ReaderAssumption ==
  /\ MaxPacket \in Nat
  /\ Lines \in Seq(Seq(STRING))
  /\ \A i \in 1..Len(Lines) : \A j \in 1..Len(Lines[i]) : Lines[i][j] # NUL

Slice(line, i, j) == SubSeq(line, i, j - 1)         \* the characters i <= k < j
-----------------------------------------------------------------------------
(* The reader: bytes in flight, the buffer kept between two reads, and what   *)
(* the command loop got, one line at a time.                                  *)
VARIABLES
  in_flight,   \* sent by the client, not received
  unsent,      \* lines the client has still to send
  buffer,      \* context->buffer
  read,        \* the lines xdebug_fd_read_line_delim has returned
  reader       \* "idle", "reading" (inside the function) or "closed"

readerVars == <<in_flight, unsent, buffer, read, reader>>

ReaderInit ==
  /\ in_flight = <<>> /\ unsent = Lines /\ buffer = <<>> /\ read = <<>> /\ reader = "idle"

\* The client sends a line, whether or not the last one was answered.
SendLine ==
  /\ unsent # <<>>
  /\ in_flight' = in_flight \o Append(Head(unsent), NUL)
  /\ unsent' = Tail(unsent)
  /\ UNCHANGED <<buffer, read, reader>>

StartReading ==
  /\ reader = "idle" /\ reader' = "reading"
  /\ UNCHANGED <<in_flight, unsent, buffer, read>>

Complete(b) == b # <<>> /\ b[Len(b)] = NUL

\* recv brings some of what is in flight; too much for a packet ends the connection.
Receive ==
  /\ reader = "reading" /\ ~Complete(buffer)
  /\ \E n \in 1..Len(in_flight) :
       /\ in_flight' = SubSeq(in_flight, n + 1, Len(in_flight))
       /\ IF Len(buffer) + n + 1 > MaxPacket
          THEN buffer' = <<>> /\ reader' = "closed"
          ELSE buffer' = buffer \o SubSeq(in_flight, 1, n) /\ UNCHANGED reader
  /\ UNCHANGED <<unsent, read>>

\* The client has closed the connection, or recv fails: a line that is not
\* complete is lost.
ReceiveNothing ==
  /\ reader = "reading" /\ ~Complete(buffer)
  /\ buffer' = <<>> /\ reader' = "closed"
  /\ UNCHANGED <<in_flight, unsent, read>>

\* The first line of the buffer is returned, the rest stays for the next read.
FirstNul(b) == CHOOSE i \in 1..Len(b) : b[i] = NUL /\ \A j \in 1..(i - 1) : b[j] # NUL

\* Faulty: what came behind the line is thrown away with it.
ReturnLineAlone ==
  /\ reader = "reading" /\ Complete(buffer)
  /\ read' = Append(read, Slice(buffer, 1, FirstNul(buffer)))
  /\ buffer' = <<>>
  /\ reader' = "idle"
  /\ UNCHANGED <<in_flight, unsent>>

ReturnLine ==
  /\ reader = "reading" /\ Complete(buffer)
  /\ LET n == FirstNul(buffer)
     IN  /\ read' = Append(read, Slice(buffer, 1, n))
         /\ buffer' = SubSeq(buffer, n + 1, Len(buffer))
  /\ reader' = "idle"
  /\ UNCHANGED <<in_flight, unsent>>

ReaderNext == SendLine \/ StartReading \/ Receive \/ ReceiveNothing \/ ReturnLine
ReaderSpec == ReaderInit /\ [][ReaderNext]_readerVars
-----------------------------------------------------------------------------
\* What was read is what was sent, line by line and in order, however the
\* bytes were cut into packets and however many lines were sent ahead; until
\* the connection is closed nothing is lost in between (handler_dbgp.c:2461).
LinesArriveWhole ==
  /\ IsPrefix(read, Lines)
  /\ reader # "closed" =>
       FlattenSeq([i \in 1..Len(read) |-> Append(read[i], NUL)]) \o buffer \o in_flight
       = FlattenSeq([i \in 1..(Len(Lines) - Len(unsent)) |-> Append(Lines[i], NUL)])
=============================================================================

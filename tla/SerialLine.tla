----------------------------- MODULE SerialLine -----------------------------
(***************************************************************************)
(* SASSerialPort::read: how the receive thread cuts the bytes of the SAS   *)
(* UART into messages.  The UART strips the address byte, so the code has  *)
(* only the command byte to go by: a table gives the length of the message *)
(* it starts, or says that the next byte does.  The buffer is static: what *)
(* has been read of a message stays there when a read times out, and also  *)
(* when the port is closed and opened again.                               *)
(*                                                                         *)
(* The host is external.  It puts whole messages on the line; the line     *)
(* delivers their bytes one by one, with any delay, and may lose some.     *)
(***************************************************************************)
EXTENDS Integers, Sequences, SequencesExt

CONSTANTS
  Composed,        \* messages (sequences of bytes) of the formats the tables know
  Unknown,         \* messages of other formats: the host may send them too
  MaxMessageSize,  \* SASCommPort::MAX_MESSAGE_SIZE, the size of its buffer
  MaxDataLength,   \* the largest value of a length byte: 255, or a smaller scale
  MaxWaiting,      \* bound of the model: bytes on the line when the host sends
  MaxLosses        \* bound of the model: bytes the line loses

Byte == 0..255
Messages == Composed \cup Unknown

ASSUME SerialAssumption ==
  /\ Messages \subseteq Seq(Byte) \ {<<>>}
  /\ \A m \in Composed : Len(m) <= MaxMessageSize
  /\ {MaxMessageSize, MaxDataLength} \subseteq Nat \ {0}
  /\ {MaxWaiting, MaxLosses} \subseteq Nat
  /\ MaxMessageSize >= 8   \* the longest of the fixed lengths

\* The formats of the messages: a command with game number and CRC; with lock
\* code, condition, timeout and CRC; with length, data and CRC; or alone.
ASSUME FormatAssumption ==
  \A m \in Composed :
    /\ m[1] # 0
    /\ Len(m) = CASE m[1] \in {160, 82, 83} -> 5
                  [] m[1] = 116 -> 8
                  [] m[1] \in {111, 175, 114, 115, 117, 118} \cup 123..127 -> 4 + m[2]
                  [] OTHER -> 1
    /\ m[1] \in {111, 175, 114, 115, 117, 118} \cup 123..127
         => Len(m) >= 2 /\ m[2] <= MaxDataLength

VARIABLES
  isOpen,     \* SASSerialPort::isOpen_
  line,       \* bytes of the UART that GetBuffer has not returned yet
  rx,         \* staticRxBuffer, up to staticRxBufferLen
  message,    \* what the last completed read() returned
  intended,   \* history: the message the host meant by it, if that is known
  whole,      \* history: nothing in rx and line has been damaged ...
  underWay,   \* history: ... and these are the messages in it
  losses      \* history: bytes lost

lineVars == <<isOpen, line, rx, message, intended, whole, underWay, losses>>

NoMessage == <<>>

\* hasLengthField: 0x6F, 0xAF, 0x72, 0x73, 0x75, 0x76, 0x7B .. 0x7F.
HasLengthField(cmd) == cmd \in {111, 175, 114, 115, 117, 118} \cup 123..127

\* Slip: the parameters of 0x53 are forgotten.
FixedLengthWithout53(cmd) ==
  CASE cmd \in {160, 82} -> 5
    [] cmd = 116 -> 8
    [] OTHER -> 1

\* getSASCommandLength: 0xA0, 0x52, 0x53 and 0x74 have parameters.
FixedLength(cmd) ==
  CASE cmd \in {160, 82, 83} -> 5
    [] cmd = 116 -> 8
    [] OTHER -> 1

\* The buffer from the first byte on that can be a command (any but zero).
Begun(buffer) ==
  LET zeros == {i \in 0..Len(buffer) : \A j \in 1..i : buffer[j] = 0}
      junk == CHOOSE i \in zeros : \A j \in zeros : j <= i
  IN  SubSeq(buffer, junk + 1, Len(buffer))

\* How many bytes of it the read in progress waits for.
Awaited(begun) ==
  IF begun = <<>> THEN 1
  ELSE IF ~HasLengthField(begun[1]) THEN FixedLength(begun[1])
  ELSE IF Len(begun) < 2 THEN 2
  ELSE 4 + Min({begun[2], MaxDataLength})   \* command, length, data, CRC
Complete(begun) == begun # <<>> /\ Len(begun) >= Awaited(begun)

LineInit ==
  /\ isOpen = FALSE
  /\ line = <<>> /\ rx = <<>>
  /\ message = NoMessage /\ intended = NoMessage
  /\ whole = TRUE /\ underWay = <<>>
  /\ losses = 0

\* With nothing under way there is nothing to be damaged.
Damage(buffer, bytes) ==
  /\ whole' = (buffer = <<>> /\ bytes = <<>>)
  /\ underWay' = <<>>

-----------------------------------------------------------------------------
(* The host and the line.                                                  *)

HostSends(m) ==
  /\ isOpen
  /\ Len(line) <= MaxWaiting
  /\ line' = line \o m
  /\ IF whole /\ m \in Composed
       THEN underWay' = Append(underWay, m) /\ UNCHANGED whole
       ELSE Damage(rx, line')
  /\ UNCHANGED <<isOpen, rx, message, intended, losses>>

LoseByte ==
  \E i \in DOMAIN line :
    /\ losses < MaxLosses
    /\ losses' = losses + 1
    /\ line' = RemoveAt(line, i)
    /\ Damage(rx, line')
    /\ UNCHANGED <<isOpen, rx, message, intended>>

-----------------------------------------------------------------------------
(* read().  Its polls of the UART end with the message complete, or with a *)
(* timeout that changes nothing here: the next read goes on where it was.  *)

\* Slip: it takes what the UART has, not what the message still needs.
FetchAhead ==
  /\ isOpen
  /\ line # <<>>
  /\ rx' = Append(rx, Head(line))
  /\ line' = Tail(line)
  /\ UNCHANGED <<isOpen, message, intended, whole, underWay, losses>>

\* GetBuffer may return any number of the bytes asked for; they are added to
\* the buffer alike.
Fetch ==
  /\ isOpen
  /\ line # <<>>
  /\ Begun(rx) = <<>> => rx = <<>>
  /\ ~Complete(Begun(rx))
  /\ rx' = Append(rx, Head(line))
  /\ line' = Tail(line)
  /\ UNCHANGED <<isOpen, message, intended, whole, underWay, losses>>

\* Slip: returns without resetting the length.
DiscardNothing ==
  /\ isOpen
  /\ rx # <<>>
  /\ Begun(rx) = <<>>
  /\ UNCHANGED lineVars

\* Only zeros: no command among them, all of it is discarded.
Discard ==
  /\ isOpen
  /\ rx # <<>>
  /\ Begun(rx) = <<>>
  /\ rx' = <<>>
  /\ IF whole THEN UNCHANGED <<whole, underWay>> ELSE Damage(rx', line)
  /\ UNCHANGED <<isOpen, line, message, intended, losses>>

\* The message is copied as far as the caller's buffer goes and what was
\* copied is removed, with the zeros before it.
Return ==
  LET begun == Begun(rx)
      toCopy == Min({Awaited(begun), MaxMessageSize})
  IN  /\ isOpen
      /\ Complete(begun)
      /\ message' = SubSeq(begun, 1, toCopy)
      /\ rx' = SubSeq(begun, toCopy + 1, Len(begun))
      /\ IF whole
           THEN /\ intended' = Head(underWay)
                /\ underWay' = Tail(underWay)
                /\ UNCHANGED whole
           ELSE /\ intended' = NoMessage
                /\ Damage(rx', line)
      /\ UNCHANGED <<isOpen, line, losses>>

-----------------------------------------------------------------------------
(* open() and close().  Opening clears the buffer of the UART, or fails to *)
(* ("Non-fatal, continue anyway"); neither touches the static buffer.      *)

Open ==
  /\ ~isOpen
  /\ isOpen' = TRUE
  /\ line' \in {<<>>, line}
  /\ IF line' = line THEN UNCHANGED <<whole, underWay>> ELSE Damage(rx, line')
  /\ UNCHANGED <<rx, message, intended, losses>>

Close ==
  /\ isOpen' = FALSE
  /\ UNCHANGED <<line, rx, message, intended, whole, underWay, losses>>

-----------------------------------------------------------------------------

\* The types of the variables.
LineTypeOK ==
  /\ isOpen \in BOOLEAN
  /\ line \in Seq(Byte)
  /\ rx \in Seq(Byte)
  /\ message \in Seq(Byte)
  /\ intended \in Composed \cup {NoMessage}
  /\ whole \in BOOLEAN
  /\ underWay \in Seq(Composed)
  /\ losses \in 0..MaxLosses

\* Whatever a read was waiting for when it timed out and however the bytes
\* trickle in, a message of the formats the tables know is handed over as it
\* was sent, unless something lost or unknown was still under way with it.
WholeMessages == intended # NoMessage => message = intended

\* The static buffer has 512 bytes and its length is counted on past them.
\* That never happens because read() does not take bytes beyond the message
\* it is at; a message cut at the caller's 256 leaves at most its own rest.
NoReadAhead ==
  Len(Begun(rx)) <= Max({Awaited(Begun(rx)), 4 + MaxDataLength - MaxMessageSize})

=============================================================================

------------------------ MODULE SerialFramingProofs ------------------------
(***************************************************************************)
(* For every number of commands: what the reader of the firmware makes of  *)
(* the serial line, with nothing lost and with one byte lost or one reset  *)
(* anywhere, and how soon it finds the start of a command again.           *)
(***************************************************************************)
EXTENDS SerialFraming, SequenceTheorems, TLAPS

-----------------------------------------------------------------------------
(* The invariant.                                                          *)

\* What is left on the line is the end of the command written last.
EndOfCommand ==
    /\ cmd \in State
    /\ line \in Seq(Byte) /\ Len(line) <= 9
    /\ \A i \in 1..Len(line) : line[i] = Bytes(cmd)[9 - Len(line) + i]

\* The counts of the reader stay within a byte, and it has kept the bytes it read as
\* far as there is room for them.
ReaderCounts ==
    /\ next_char \in {"CCMD", "CPKTDST", "CPKTLEN", "CPKTDATA"}
    /\ left \in Byte /\ msg_len \in Byte
    /\ msg_buf \in Seq(Byte)
    /\ next_char # "CPKTDATA" => msg_len = 0 /\ msg_buf = <<>>
    /\ next_char = "CPKTDATA" =>
          /\ left >= 1 /\ msg_len + left <= 255
          /\ Len(msg_buf) = IF msg_len < MsgSize THEN msg_len ELSE MsgSize

History ==
    /\ heard \in [type: Byte, fan: 0..1, written: BOOLEAN]
    /\ lag \in Nat /\ faults \in 0..MaxFaults

\* The packet being read is the payload of the command on the line.
InPayload ==
    /\ msg_len + left = 6 /\ Len(line) = left
    /\ \A i \in 1..msg_len : msg_buf[i] = Payload(cmd)[i]

\* As long as nothing was lost, each byte is taken for what it is.
InFrame ==
    faults = 0 =>
        /\ heard.written
        /\ IF line = <<>> THEN next_char = "CCMD" /\ lag = 0
           ELSE /\ lag = 1
                /\ \/ next_char = "CCMD" /\ Len(line) = 9
                   \/ next_char = "CPKTDST" /\ Len(line) = 8
                   \/ next_char = "CPKTLEN" /\ Len(line) = 7
                   \/ next_char = "CPKTDATA" /\ InPayload

\* The packets that one fault can produce.  One of six bytes is a command, or a command
\* that has lost a byte and ends with the start of the next; what is taken for a packet
\* of two bytes starts in the middle of a command, never with its length.
Packets ==
    next_char = "CPKTDATA" =>
        /\ msg_len + left \in {1, 2, 6, Start}
        /\ msg_len + left = 6 =>
              InPayload \/ (faults = 1 /\ (Len(line) = left - 1
                                           \/ (left = 1 /\ Len(line) = 9)))
        /\ msg_len + left = 2 =>
              IF msg_len = 0
              THEN Len(line) \in {0, 1, 2, 3, 9} \/ (Len(line) = 8 /\ faults = 1)
              ELSE msg_buf[1] \notin 3..7

Harmless ==
    ~heard.written =>
        IF heard.type = DamperCmd THEN heard.fan = 0 ELSE heard.type \notin 3..7

\* How many bytes ago, lag commands of nine bytes less those still on the line, a command
\* was heard: while the reader takes bytes for a destination or a length, no more than
\* one command; and a start taken for a length costs no more than it counts.
Lost ==
    /\ next_char = "CCMD"     => lag <= 9 /\ (Len(line) # 9 => lag <= 8)
    /\ next_char = "CPKTDST"  => (Len(line) = 8 /\ lag <= 9) \/ 9 * lag <= 9 + Len(line)
    /\ next_char = "CPKTLEN"  => (Len(line) = 7 /\ lag <= 9) \/ 9 * lag <= 10 + Len(line)
    /\ next_char = "CPKTDATA" =>
          (InPayload /\ lag <= 9) \/ 9 * lag + left <= 72 + Len(line)

FramingType == EndOfCommand /\ ReaderCounts /\ History

FramingInv ==
    /\ FramingType /\ InFrame
    /\ faults <= 1 => Packets /\ Harmless /\ Lost

-----------------------------------------------------------------------------
(* The bytes of a command.                                                 *)

LEMMA ByteNumber == \A b \in Byte : b \in Nat /\ b <= 255
BY DEF Byte

\* Where the elements of two byte strings are when they are put together.
LEMMA ConcatBytes ==
    ASSUME NEW a \in Seq(Byte), NEW b \in Seq(Byte), NEW m \in Nat, NEW n \in Nat,
           Len(a) = m, Len(b) = n
    PROVE  /\ a \o b \in Seq(Byte) /\ Len(a \o b) = m + n
           /\ \A i \in 1..m : (a \o b)[i] = a[i]
           /\ \A i \in 1..n : (a \o b)[m + i] = b[i]
<1>1. /\ a \o b \in Seq(Byte) /\ Len(a \o b) = Len(a) + Len(b)
      /\ \A i \in 1..(Len(a) + Len(b)) :
            (a \o b)[i] = IF i <= Len(a) THEN a[i] ELSE b[i - Len(a)]
  BY ConcatProperties, Zenon
<1>2. ASSUME NEW i \in 1..m PROVE (a \o b)[i] = a[i]
  <2>1. i \in 1..(Len(a) + Len(b)) /\ i <= Len(a)
    OBVIOUS
  <2>2. QED
    BY <1>1, <2>1
<1>3. ASSUME NEW i \in 1..n PROVE (a \o b)[m + i] = b[i]
  <2>1. /\ m + i \in 1..(Len(a) + Len(b)) /\ ~(m + i <= Len(a))
        /\ (m + i) - Len(a) = i
    OBVIOUS
  <2>2. QED
    BY <1>1, <2>1
<1>4. QED
  BY <1>1, <1>2, <1>3

\* Six numbers of one bit or two: no start, no length of a command among them.
LEMMA PayloadBytes ==
    ASSUME NEW s \in State
    PROVE  /\ Payload(s) \in Seq(Byte) /\ Len(Payload(s)) = 6
           /\ \A i \in 1..6 : Payload(s)[i] \in 0..2
           /\ Payload(s)[1] = 0 /\ Payload(s)[2] = 0
           /\ Payload(s)[6] = s.fan /\ s.fan \in 0..1
<1> DEFINE a == <<0, 0>>
           b == s.damper
           c == <<s.fan>>
<1>1. b \in [1..3 -> 0..2] /\ s.fan \in 0..1
  BY DEF State
<1>2. a \in Seq(Byte) /\ Len(a) = 2 /\ a[1] = 0 /\ a[2] = 0
  BY DEF Byte
<1>3. b \in Seq(Byte) /\ Len(b) = 3 /\ \A i \in 1..3 : b[i] \in 0..2
  <2>1. b \in [1..3 -> Byte]
    BY <1>1 DEF Byte
  <2>2. b \in Seq(Byte)
    BY <2>1, SeqDef
  <2>3. Len(b) = 3
    BY <2>1, <2>2, LenProperties
  <2>4. QED
    BY <1>1, <2>2, <2>3
<1>4. c \in Seq(Byte) /\ Len(c) = 1 /\ c[1] = s.fan
  BY <1>1 DEF Byte
<1>5. Payload(s) = (a \o b) \o c
  BY DEF Payload
<1> HIDE DEF a, b, c
<1>6. /\ a \o b \in Seq(Byte) /\ Len(a \o b) = 2 + 3
      /\ \A i \in 1..2 : (a \o b)[i] = a[i]
      /\ \A i \in 1..3 : (a \o b)[2 + i] = b[i]
  <2>1. 2 \in Nat /\ 3 \in Nat
    OBVIOUS
  <2>2. QED
    BY <1>2, <1>3, <2>1, ConcatBytes, Zenon
<1> DEFINE p == (a \o b) \o c
<1>7. /\ p \in Seq(Byte) /\ Len(p) = 5 + 1
      /\ \A i \in 1..5 : p[i] = (a \o b)[i]
      /\ \A i \in 1..1 : p[5 + i] = c[i]
  <2>1. Len(a \o b) = 5 /\ 5 \in Nat /\ 1 \in Nat
    BY <1>6
  <2>2. QED
    BY <1>4, <1>6, <2>1, ConcatBytes, Zenon
<1> HIDE DEF p
<1>8. /\ p[1] = 0 /\ p[2] = 0 /\ p[6] = s.fan
      /\ p[3] = b[1] /\ p[4] = b[2] /\ p[5] = b[3]
  <2>1. p[1] = a[1] /\ p[2] = a[2]
    BY <1>6, <1>7
  <2>2. p[2 + 1] = b[1] /\ p[2 + 2] = b[2] /\ p[2 + 3] = b[3]
    BY <1>6, <1>7
  <2>3. p[5 + 1] = c[1]
    BY <1>7
  <2>4. QED
    BY <1>2, <1>4, <2>1, <2>2, <2>3
<1>9. \A i \in 1..6 : p[i] \in 0..2
  <2>1. b[1] \in 0..2 /\ b[2] \in 0..2 /\ b[3] \in 0..2
    BY <1>3
  <2>2. \A i \in 1..6 : i = 1 \/ i = 2 \/ i = 3 \/ i = 4 \/ i = 5 \/ i = 6
    OBVIOUS
  <2>3. QED
    BY <1>1, <1>8, <2>1, <2>2
<1>10. Payload(s) = p /\ Len(p) = 6
  BY <1>5, <1>7 DEF p
<1>11. QED
  BY <1>1, <1>7, <1>8, <1>9, <1>10

\* The start, id 1, the length and the payload (dampersteensy.go:24-60).
LEMMA CommandBytes ==
    ASSUME NEW s \in State
    PROVE  /\ Bytes(s) \in Seq(Byte) /\ Len(Bytes(s)) = 9
           /\ Bytes(s)[1] = Start /\ Bytes(s)[2] = 1 /\ Bytes(s)[3] = 6
           /\ \A i \in 1..6 : Bytes(s)[3 + i] = Payload(s)[i]
<1> DEFINE a == <<Start, 1, Length(s)>>
           b == Payload(s)
<1>1. b \in Seq(Byte) /\ Len(b) = 6
  BY PayloadBytes
<1>2. a \in Seq(Byte) /\ Len(a) = 3 /\ a[1] = Start /\ a[2] = 1 /\ a[3] = 6
  BY <1>1 DEF Length, Start, Byte
<1>3. Bytes(s) = a \o b
  BY DEF Bytes
<1> HIDE DEF a, b
<1>4. /\ a \o b \in Seq(Byte) /\ Len(a \o b) = 3 + 6
      /\ \A i \in 1..3 : (a \o b)[i] = a[i]
      /\ \A i \in 1..6 : (a \o b)[3 + i] = b[i]
  <2>1. 3 \in Nat /\ 6 \in Nat
    OBVIOUS
  <2>2. QED
    BY <1>1, <1>2, <2>1, ConcatBytes, Zenon
<1>5. /\ (a \o b)[1] = Start /\ (a \o b)[2] = 1 /\ (a \o b)[3] = 6
      /\ Len(a \o b) = 9
  BY <1>2, <1>4
<1>6. \A i \in 1..6 : (a \o b)[3 + i] = Payload(s)[i]
  BY <1>4 DEF b
<1>7. QED
  BY <1>3, <1>4, <1>5, <1>6

\* The byte that is read next, by what is left on the line.
LEMMA NextByte ==
    ASSUME EndOfCommand, line # <<>>
    PROVE  /\ Len(line) \in 1..9 /\ Head(line) \in Byte
           /\ Len(line) = 9 => Head(line) = Start
           /\ Len(line) = 8 => Head(line) = 1
           /\ Len(line) = 7 => Head(line) = 6
           /\ Len(line) <= 6 =>
                 Head(line) = Payload(cmd)[7 - Len(line)] /\ Head(line) \in 0..2
           /\ Tail(line) \in Seq(Byte) /\ Len(Tail(line)) = Len(line) - 1
           /\ \A i \in 1..Len(Tail(line)) :
                 Tail(line)[i] = Bytes(cmd)[9 - Len(Tail(line)) + i]
<1>1. /\ cmd \in State /\ line \in Seq(Byte) /\ Len(line) <= 9
      /\ \A i \in 1..Len(line) : line[i] = Bytes(cmd)[9 - Len(line) + i]
  BY DEF EndOfCommand
<1>2. Len(line) \in 1..9
  <2>1. Len(line) \in Nat \ {0}
    BY <1>1, EmptySeq
  <2>2. \A i \in Nat \ {0} : i <= 9 => i \in 1..9
    OBVIOUS
  <2>3. QED
    BY <1>1, <2>1, <2>2, Zenon
<1>3. /\ Head(line) = line[1] /\ Head(line) \in Byte
      /\ Tail(line) \in Seq(Byte) /\ Len(Tail(line)) = Len(line) - 1
      /\ \A i \in 1..Len(Tail(line)) : Tail(line)[i] = line[i + 1]
  BY <1>1, HeadTailProperties
<1>4. Head(line) = Bytes(cmd)[10 - Len(line)]
  <2>1. line[1] = Bytes(cmd)[9 - Len(line) + 1]
    BY <1>1, <1>2
  <2>2. 9 - Len(line) + 1 = 10 - Len(line)
    BY <1>2
  <2>3. QED
    BY <1>3, <2>1, <2>2
<1>5. ASSUME Len(line) <= 6
      PROVE  Head(line) = Payload(cmd)[7 - Len(line)] /\ Head(line) \in 0..2
  <2>1. 7 - Len(line) \in 1..6 /\ 3 + (7 - Len(line)) = 10 - Len(line)
    BY <1>2, <1>5
  <2>2. /\ Bytes(cmd)[3 + (7 - Len(line))] = Payload(cmd)[7 - Len(line)]
        /\ Payload(cmd)[7 - Len(line)] \in 0..2
    BY <1>1, <2>1, CommandBytes, PayloadBytes
  <2>3. QED
    BY <1>4, <2>1, <2>2
<1>6. ASSUME NEW i \in 1..Len(Tail(line))
      PROVE  Tail(line)[i] = Bytes(cmd)[9 - Len(Tail(line)) + i]
  <2>1. i + 1 \in 1..Len(line)
    BY <1>2, <1>3
  <2>2. 9 - Len(line) + (i + 1) = 9 - Len(Tail(line)) + i
    BY <1>2, <1>3
  <2>3. line[i + 1] = Bytes(cmd)[9 - Len(line) + (i + 1)]
    BY <1>1, <2>1
  <2>4. QED
    BY <1>3, <2>2, <2>3
<1>7. /\ Len(line) = 9 => Head(line) = Start
      /\ Len(line) = 8 => Head(line) = 1
      /\ Len(line) = 7 => Head(line) = 6
  <2>1. Bytes(cmd)[1] = Start /\ Bytes(cmd)[2] = 1 /\ Bytes(cmd)[3] = 6
    BY <1>1, CommandBytes
  <2>2. 10 - 9 = 1 /\ 10 - 8 = 2 /\ 10 - 7 = 3
    OBVIOUS
  <2>3. QED
    BY <1>4, <2>1, <2>2
<1>8. QED
  BY <1>2, <1>3, <1>5, <1>6, <1>7

\* Reading or losing a byte leaves the end of the same command.
LEMMA LineRead ==
    ASSUME EndOfCommand, line # <<>>, line' = Tail(line), cmd' = cmd
    PROVE  /\ EndOfCommand' /\ Len(line) \in 1..9 /\ Len(line') = Len(line) - 1
           /\ line' = <<>> <=> Len(line') = 0
<1>1. /\ line' \in Seq(Byte) /\ Len(line) \in 1..9 /\ Len(line') = Len(line) - 1
      /\ \A i \in 1..Len(line') : line'[i] = Bytes(cmd)[9 - Len(line') + i]
  BY NextByte
<1>2. line' = <<>> <=> Len(line') = 0
  <2>1. Len(<<>>) = 0 /\ \A q \in Seq(Byte) : q # <<>> => Len(q) # 0
    BY EmptySeq
  <2>2. QED
    BY <1>1, <2>1
<1>3. cmd' \in State /\ Len(line') <= 9
  BY <1>1 DEF EndOfCommand
<1>4. \A i \in 1..Len(line') : line'[i] = Bytes(cmd')[9 - Len(line') + i]
  <2>1. Bytes(cmd') = Bytes(cmd)
    OBVIOUS
  <2>2. QED
    BY <1>1, <2>1
<1>5. EndOfCommand'
  BY <1>1, <1>3, <1>4 DEF EndOfCommand
<1>6. QED
  BY <1>1, <1>2, <1>5

\* Writing a command puts all of it on the line.
LEMMA LineWritten ==
    ASSUME NEW s \in State, Write(s)
    PROVE  EndOfCommand' /\ Len(line') = 9 /\ line' # <<>>
<1>1. line' = Bytes(s) /\ cmd' = s
  BY DEF Write
<1>2. Bytes(s) \in Seq(Byte) /\ Len(Bytes(s)) = 9
  BY CommandBytes
<1>3. line' \in Seq(Byte) /\ Len(line') = 9 /\ cmd' \in State
  BY <1>1, <1>2
<1>4. \A i \in 1..Len(line') : line'[i] = Bytes(cmd')[9 - Len(line') + i]
  <2>1. ASSUME NEW i \in 1..9 PROVE 9 - Len(line') + i = i
    BY <1>3
  <2>2. line' = Bytes(cmd')
    BY <1>1
  <2>3. QED
    BY <1>3, <2>1, <2>2
<1>5. line' # <<>>
  <2>1. \A q \in Seq(Byte) : Len(q) = 9 => q # <<>>
    BY EmptySeq
  <2>2. QED
    BY <1>3, <2>1
<1>6. EndOfCommand'
  BY <1>3, <1>4 DEF EndOfCommand
<1>7. QED
  BY <1>3, <1>5, <1>6

-----------------------------------------------------------------------------
(* The host and the faults.                                                *)

LEMMA WriteInv ==
    ASSUME FramingInv, NEW s \in State, Write(s)
    PROVE  FramingInv'
<1>1. /\ EndOfCommand' /\ Len(line') = 9 /\ line' # <<>>
      /\ line = <<>> /\ Len(line) = 0 /\ lag' = lag + 1
      /\ UNCHANGED <<next_char, left, msg_len, msg_buf, heard, faults>>
  <2>1. Len(<<>>) = 0
    OBVIOUS
  <2>2. QED
    BY <2>1, LineWritten DEF Write
<1>2. lag \in Nat /\ left \in Nat /\ (next_char = "CPKTDATA" => left >= 1)
  BY DEF FramingInv, FramingType, History, ReaderCounts, Byte
<1>3. ReaderCounts' /\ History'
  BY <1>1, <1>2 DEF FramingInv, FramingType, ReaderCounts, History
<1>4. InFrame'
  BY <1>1 DEF FramingInv, InFrame
<1>5. next_char = "CPKTDATA" => ~InPayload
  BY <1>1, <1>2 DEF InPayload
<1>6. ASSUME faults <= 1 PROVE Packets' /\ Harmless' /\ Lost'
  <2>1. Packets /\ Harmless /\ Lost
    BY <1>6 DEF FramingInv
  <2>2. Packets'
    BY <1>1, <1>2, <1>5, <2>1 DEF Packets, FramingInv, FramingType, ReaderCounts, Byte
  <2>3. Lost'
    BY <1>1, <1>2, <1>5, <2>1 DEF Lost
  <2>4. QED
    BY <1>1, <2>1, <2>2, <2>3 DEF Harmless
<1>7. QED
  BY <1>1, <1>3, <1>4, <1>6 DEF FramingInv, FramingType

\* What one fault may hit.
LEMMA FaultFirst ==
    ASSUME FramingInv, Fault
    PROVE  /\ faults' \in 0..MaxFaults /\ faults' # 0
           /\ faults' <= 1 => faults = 0 /\ faults' = 1
BY BoundAssumption DEF FramingInv, FramingType, History, Fault

LEMMA LoseInv ==
    ASSUME FramingInv, Lose
    PROVE  FramingInv'
<1>1. /\ EndOfCommand' /\ Len(line) \in 1..9 /\ Len(line') = Len(line) - 1
      /\ line # <<>>
      /\ UNCHANGED <<cmd, next_char, left, msg_len, msg_buf, heard, lag>>
  BY LineRead DEF FramingInv, FramingType, Lose
<1>2. /\ faults' \in 0..MaxFaults /\ faults' # 0
      /\ faults' <= 1 => faults = 0 /\ faults' = 1
  BY FaultFirst DEF Lose
<1>3. ReaderCounts' /\ History'
  BY <1>1, <1>2 DEF FramingInv, FramingType, ReaderCounts, History
<1>4. ASSUME faults' <= 1 PROVE Packets' /\ Harmless' /\ Lost'
  <2>1. /\ Packets /\ heard.written /\ lag = 1
        /\ \/ next_char = "CCMD" /\ Len(line) = 9
           \/ next_char = "CPKTDST" /\ Len(line) = 8
           \/ next_char = "CPKTLEN" /\ Len(line) = 7
           \/ next_char = "CPKTDATA" /\ InPayload
    BY <1>1, <1>2, <1>4 DEF FramingInv, InFrame
  <2>2. left \in Nat /\ msg_len \in Nat /\ (next_char = "CPKTDATA" => left >= 1)
    BY DEF FramingInv, FramingType, ReaderCounts, Byte
  <2>3. Packets'
    BY <1>1, <1>2, <1>4, <2>1, <2>2 DEF Packets, InPayload
  <2>4. Lost'
    BY <1>1, <2>1, <2>2 DEF Lost, InPayload
  <2>5. QED
    BY <1>1, <2>1, <2>3, <2>4 DEF Harmless
<1>5. QED
  BY <1>1, <1>2, <1>3, <1>4 DEF FramingInv, FramingType, InFrame

LEMMA ResetInv ==
    ASSUME FramingInv, Reset
    PROVE  FramingInv'
<1>1. /\ next_char' = "CCMD" /\ left' = 0 /\ msg_len' = 0 /\ msg_buf' = <<>>
      /\ UNCHANGED <<cmd, line, heard, lag>>
  BY DEF Reset
<1>2. /\ faults' \in 0..MaxFaults /\ faults' # 0
      /\ faults' <= 1 => faults = 0 /\ faults' = 1
  BY FaultFirst DEF Reset
<1>3. EndOfCommand' /\ ReaderCounts' /\ History'
  BY <1>1, <1>2
     DEF FramingInv, FramingType, EndOfCommand, ReaderCounts, History, Byte
<1>4. ASSUME faults' <= 1 PROVE Packets' /\ Harmless' /\ Lost'
  BY <1>1, <1>2, <1>4 DEF FramingInv, InFrame, Packets, Harmless, Lost
<1>5. QED
  BY <1>2, <1>3, <1>4 DEF FramingInv, FramingType, InFrame

-----------------------------------------------------------------------------
(* The reader.                                                             *)

\* Only the start of a command is taken for one (main.cpp:305-312).
LEMMA ReadKeyInv ==
    ASSUME FramingInv, Read, ReadKey(Head(line))
    PROVE  FramingInv'
<1>1. /\ EndOfCommand' /\ Len(line) \in 1..9 /\ Len(line') = Len(line) - 1
      /\ line' = <<>> <=> Len(line') = 0
      /\ line # <<>> /\ UNCHANGED <<cmd, faults>>
  BY LineRead DEF FramingInv, FramingType, Read
<1>2. /\ next_char = "CCMD"
      /\ UNCHANGED <<left, msg_len, msg_buf, heard, lag>>
  BY DEF ReadKey
<1>3. next_char' = IF Len(line) = 9 THEN "CPKTDST" ELSE "CCMD"
  <2>1. /\ Len(line) = 9 => Head(line) = Start
        /\ Len(line) = 8 => Head(line) = 1
        /\ Len(line) = 7 => Head(line) = 6
        /\ Len(line) <= 6 => Head(line) \in 0..2
    BY <1>1, NextByte DEF FramingInv, FramingType
  <2>2. Head(line) = Start <=> Len(line) = 9
    BY <1>1, <2>1 DEF Start
  <2>3. QED
    BY <2>2 DEF ReadKey
<1>4. ReaderCounts' /\ History'
  BY <1>1, <1>2, <1>3 DEF FramingInv, FramingType, ReaderCounts, History
<1>5. InFrame'
  BY <1>1, <1>2, <1>3 DEF FramingInv, InFrame
<1>6. Lost => Lost'
  <2>1. lag \in Nat
    BY DEF FramingInv, FramingType, History
  <2>2. QED
    BY <1>1, <1>2, <1>3, <2>1 DEF Lost
<1>7. Packets' /\ (Harmless => Harmless')
  BY <1>2, <1>3 DEF Packets, Harmless
<1>8. QED
  BY <1>1, <1>4, <1>5, <1>6, <1>7 DEF FramingInv, FramingType

LEMMA ReadDstInv ==
    ASSUME FramingInv, Read, ReadDst(Head(line))
    PROVE  FramingInv'
<1>1. /\ EndOfCommand' /\ Len(line) \in 1..9 /\ Len(line') = Len(line) - 1
      /\ line' = <<>> <=> Len(line') = 0
      /\ line # <<>> /\ UNCHANGED <<cmd, faults>>
  BY LineRead DEF FramingInv, FramingType, Read
<1>2. /\ next_char = "CPKTDST" /\ next_char' = "CPKTLEN"
      /\ UNCHANGED <<left, msg_len, msg_buf, heard, lag>>
  BY DEF ReadDst
<1>3. ReaderCounts' /\ History'
  BY <1>1, <1>2 DEF FramingInv, FramingType, ReaderCounts, History
<1>4. InFrame'
  BY <1>1, <1>2 DEF FramingInv, InFrame
<1>5. Lost => Lost'
  <2>1. lag \in Nat
    BY DEF FramingInv, FramingType, History
  <2>2. QED
    BY <1>1, <1>2, <2>1 DEF Lost
<1>6. Packets' /\ (Harmless => Harmless')
  BY <1>2 DEF Packets, Harmless
<1>7. QED
  BY <1>1, <1>3, <1>4, <1>5, <1>6 DEF FramingInv, FramingType

\* A length of 0 is none; any other starts a packet (main.cpp:233-249).
LEMMA ReadLenInv ==
    ASSUME FramingInv, Read, NEW c, c = Head(line), ReadLen(c)
    PROVE  FramingInv'
<1>1. /\ EndOfCommand' /\ line # <<>> /\ UNCHANGED <<cmd, faults>>
  BY LineRead DEF FramingInv, FramingType, Read
<1>2. /\ next_char = "CPKTLEN" /\ UNCHANGED <<heard, lag>>
      /\ c = 0 => /\ next_char' = "CPKTDST"
                  /\ UNCHANGED <<left, msg_len, msg_buf>>
      /\ c # 0 => /\ next_char' = "CPKTDATA" /\ left' = c
                  /\ msg_len' = 0 /\ msg_buf' = <<>>
  BY DEF ReadLen, AfterLen
<1>3. PICK n \in 1..9 : Len(line) = n /\ Len(line') = n - 1 /\ (line' = <<>> <=> n = 1)
  <2>1. /\ Len(line) \in 1..9 /\ Len(line') = Len(line) - 1
        /\ line' = <<>> <=> Len(line') = 0
    BY LineRead DEF FramingInv, FramingType, Read
  <2>2. \A i \in 1..9 : i - 1 = 0 <=> i = 1
    OBVIOUS
  <2>3. QED
    BY <2>1, <2>2
<1>4. /\ c \in Nat /\ c \in {0, 1, 2, 6, 62}
      /\ n = 9 => c = 62
      /\ n = 8 => c = 1
      /\ n = 7 => c = 6
      /\ n \in {5, 6} => c = 0
      /\ n <= 4 => c \in {0, 1, 2}
  <2>1. /\ n = 9 => c = Start
        /\ n = 8 => c = 1
        /\ n = 7 => c = 6
        /\ n <= 6 => c = Payload(cmd)[7 - n] /\ c \in 0..2
    BY <1>1, <1>3, NextByte DEF FramingInv, FramingType
  <2>2. Payload(cmd)[1] = 0 /\ Payload(cmd)[2] = 0
    BY PayloadBytes DEF FramingInv, FramingType, EndOfCommand
  <2>3. n \in {5, 6} => c = 0
    <3>1. 7 - 6 = 1 /\ 7 - 5 = 2 /\ 5 <= 6 /\ 6 <= 6
      OBVIOUS
    <3>2. QED
      BY <2>1, <2>2, <3>1
  <2>4. QED
    BY <2>1, <2>3 DEF Start
<1>5. ReaderCounts' /\ History'
  <2>1. <<>> \in Seq(Byte) /\ Len(<<>>) = 0
    OBVIOUS
  <2>2. CASE c = 0
    BY <1>1, <1>2, <2>2 DEF FramingInv, FramingType, ReaderCounts, History
  <2>3. CASE c # 0
    <3>1. c \in Byte /\ 0 \in Byte /\ c >= 1 /\ 0 + c <= 255 /\ 0 < MsgSize
      BY <1>4, <2>3 DEF Byte, MsgSize
    <3>2. ReaderCounts'
      BY <1>2, <2>1, <2>3, <3>1 DEF ReaderCounts
    <3>3. QED
      BY <1>1, <1>2, <3>2 DEF FramingInv, FramingType, History
  <2>4. QED
    BY <2>2, <2>3
<1>6. n = 7 => next_char' = "CPKTDATA" /\ InPayload'
  BY <1>2, <1>3, <1>4 DEF InPayload
<1>7. InFrame'
  <2>1. faults = 0 => n = 7 /\ heard.written /\ lag = 1
    BY <1>1, <1>2, <1>3 DEF FramingInv, InFrame
  <2>2. n = 7 => line' # <<>>
    BY <1>3
  <2>3. QED
    BY <1>1, <1>2, <1>6, <2>1, <2>2 DEF InFrame
<1>8. Lost => Lost'
  <2>1. HAVE Lost
  <2>2. lag \in Nat /\ ((n = 7 /\ lag <= 9) \/ 9 * lag <= 10 + n)
    BY <1>2, <1>3, <2>1 DEF FramingInv, FramingType, History, Lost
  <2>3. CASE c = 0
    <3>1. 9 * lag <= 9 + (n - 1)
      BY <1>4, <2>2, <2>3
    <3>2. QED
      BY <1>2, <1>3, <2>3, <3>1 DEF Lost
  <2>4. CASE c # 0
    <3>1. (n = 7 /\ lag <= 9) \/ 9 * lag + c <= 72 + (n - 1)
      BY <1>4, <2>2, <2>4
    <3>2. QED
      BY <1>2, <1>3, <1>6, <2>4, <3>1 DEF Lost
  <2>5. QED
    BY <2>3, <2>4
<1>9. Packets' /\ (Harmless => Harmless')
  <2>1. CASE c = 0
    BY <1>2, <2>1 DEF Packets, Harmless
  <2>2. CASE c # 0
    <3>1. /\ c \in {1, 2, 6, 62} /\ 0 + c = c
          /\ c = 6 => n = 7
          /\ c = 2 => n - 1 \in {0, 1, 2, 3, 9}
      BY <1>4, <2>2
    <3>2. QED
      BY <1>2, <1>3, <1>6, <2>2, <3>1 DEF Packets, Harmless, Start
  <2>3. QED
    BY <2>1, <2>2
<1>10. QED
  BY <1>1, <1>5, <1>7, <1>8, <1>9 DEF FramingInv, FramingType

\* The bytes of the packet that are kept, with the one that is read.
Kept(c) == IF msg_len < MsgSize THEN Append(msg_buf, c) ELSE msg_buf

LEMMA KeptBytes ==
    ASSUME ReaderCounts, next_char = "CPKTDATA", NEW c \in Byte
    PROVE  /\ Kept(c) \in Seq(Byte)
           /\ Len(Kept(c)) = IF msg_len + 1 < MsgSize THEN msg_len + 1 ELSE MsgSize
           /\ \A i \in 1..Len(msg_buf) : Kept(c)[i] = msg_buf[i]
           /\ msg_len < MsgSize => Kept(c)[msg_len + 1] = c
<1>1. /\ msg_buf \in Seq(Byte) /\ msg_len \in Nat
      /\ Len(msg_buf) = IF msg_len < MsgSize THEN msg_len ELSE MsgSize
  BY DEF ReaderCounts, Byte
<1>2. CASE msg_len < MsgSize
  <2>1. Kept(c) = Append(msg_buf, c) /\ Len(msg_buf) = msg_len
    BY <1>1, <1>2 DEF Kept
  <2>2. /\ Append(msg_buf, c) \in Seq(Byte)
        /\ Len(Append(msg_buf, c)) = msg_len + 1
        /\ \A i \in 1..msg_len : Append(msg_buf, c)[i] = msg_buf[i]
        /\ Append(msg_buf, c)[msg_len + 1] = c
    BY <1>1, <2>1, AppendProperties
  <2>3. msg_len + 1 = IF msg_len + 1 < MsgSize THEN msg_len + 1 ELSE MsgSize
    BY <1>1, <1>2 DEF MsgSize
  <2>4. QED
    BY <2>1, <2>2, <2>3
<1>3. CASE ~(msg_len < MsgSize)
  <2>1. Kept(c) = msg_buf
    BY <1>3 DEF Kept
  <2>2. QED
    BY <1>1, <1>3, <2>1 DEF MsgSize
<1>4. QED
  BY <1>2, <1>3

\* A packet keeps or gives a typed history, whatever its bytes are (comm.cpp:95-120).
LEMMA InjectType ==
    ASSUME History, NEW len \in Nat, NEW buf \in Seq(Byte), len >= 1,
           Len(buf) = IF len < MsgSize THEN len ELSE MsgSize, Inject(len, buf)
    PROVE  /\ heard' \in [type: Byte, fan: 0..1, written: BOOLEAN]
           /\ lag' \in Nat
<1> DEFINE written == line' = <<>> /\ len = Len(buf) /\ buf = Payload(cmd)
           fan == IF len = 6 THEN buf[6] % 2 ELSE 0
<1>1. CASE Passes(len, buf)
  <2>1. /\ heard' = [type |-> buf[1], fan |-> fan, written |-> written]
        /\ lag' = IF written THEN 0 ELSE lag
    BY <1>1 DEF Inject
  <2>2. buf[1] \in Byte
    <3>1. 1 \in 1..Len(buf)
      BY DEF MsgSize
    <3>2. QED
      BY <3>1, ElementOfSeq
  <2>3. fan \in 0..1
    <3>1. CASE len = 6
      <4>1. 6 \in 1..Len(buf)
        BY <3>1 DEF MsgSize
      <4>2. buf[6] \in Byte
        BY <4>1, ElementOfSeq
      <4>3. \A n \in Nat : n % 2 \in 0..1
        OBVIOUS
      <4>4. buf[6] \in Nat
        BY <4>2, ByteNumber
      <4>5. QED
        BY <3>1, <4>3, <4>4
    <3>2. QED
      BY <3>1
  <2>4. written \in BOOLEAN
    OBVIOUS
  <2> HIDE DEF written, fan
  <2>5. QED
    BY <2>1, <2>2, <2>3, <2>4 DEF History
<1>2. CASE ~Passes(len, buf)
  BY <1>2 DEF Inject, History
<1>3. QED
  BY <1>1, <1>2

\* What is read of a packet whose bytes go on (main.cpp:248-257).
LEMMA PayloadKept ==
    ASSUME ReaderCounts, EndOfCommand, next_char = "CPKTDATA", line # <<>>, InPayload,
           NEW c, c = Head(line)
    PROVE  \A i \in 1..(msg_len + 1) : Kept(c)[i] = Payload(cmd)[i]
<1>1. msg_len \in Nat /\ left \in Nat /\ left >= 1 /\ msg_len + left = 6
  BY DEF ReaderCounts, InPayload, Byte
<1>2. c \in Byte /\ c = Payload(cmd)[msg_len + 1]
  <2>1. Len(line) = left /\ left <= 6 /\ 7 - left = msg_len + 1
    BY <1>1 DEF InPayload
  <2>2. QED
    BY <2>1, NextByte
<1>3. msg_len < MsgSize /\ Len(msg_buf) = msg_len
  BY <1>1 DEF ReaderCounts, MsgSize
<1>4. /\ \A i \in 1..msg_len : Kept(c)[i] = msg_buf[i]
      /\ Kept(c)[msg_len + 1] = c
  BY <1>2, <1>3, KeptBytes
<1>5. \A i \in 1..msg_len : Kept(c)[i] = Payload(cmd)[i]
  BY <1>4 DEF InPayload
<1>6. \A i \in 1..(msg_len + 1) : i \in 1..msg_len \/ i = msg_len + 1
  BY <1>1
<1>7. QED
  BY <1>2, <1>4, <1>5, <1>6

\* A byte of a packet that goes on.
LEMMA ReadOnInv ==
    ASSUME FramingInv, Read, NEW c, c = Head(line), ReadData(c), left # 1
    PROVE  FramingInv'
<1>1. /\ EndOfCommand' /\ EndOfCommand /\ line # <<>> /\ UNCHANGED <<cmd, faults>>
  BY LineRead DEF FramingInv, FramingType, Read
<1>2. PICK n \in 1..9 : Len(line) = n /\ Len(line') = n - 1 /\ (line' = <<>> <=> n = 1)
  <2>1. /\ Len(line) \in 1..9 /\ Len(line') = Len(line) - 1
        /\ line' = <<>> <=> Len(line') = 0
    BY LineRead DEF FramingInv, FramingType, Read
  <2>2. \A i \in 1..9 : i - 1 = 0 <=> i = 1
    OBVIOUS
  <2>3. QED
    BY <2>1, <2>2
<1>3. /\ next_char = "CPKTDATA" /\ UNCHANGED <<next_char, heard, lag>>
      /\ left' = left - 1 /\ msg_len' = msg_len + 1 /\ msg_buf' = Kept(c)
  BY DEF ReadData, Kept
<1>4. /\ ReaderCounts /\ History /\ left \in Nat /\ msg_len \in Nat
      /\ left >= 2 /\ msg_len + left <= 255
      /\ msg_len' + left' = msg_len + left
  <2>1. ReaderCounts /\ History
    BY DEF FramingInv, FramingType
  <2>2. left \in Nat /\ msg_len \in Nat /\ left >= 1 /\ msg_len + left <= 255
    BY <1>3, <2>1 DEF ReaderCounts, Byte
  <2>3. QED
    BY <1>3, <2>1, <2>2
<1>5. c \in Byte
  BY <1>1, NextByte
<1>6. ReaderCounts' /\ History'
  <2>1. left - 1 \in Byte /\ msg_len + 1 \in Byte /\ left - 1 >= 1
    BY <1>4 DEF Byte
  <2>2. /\ Kept(c) \in Seq(Byte)
        /\ Len(Kept(c)) = IF msg_len + 1 < MsgSize THEN msg_len + 1 ELSE MsgSize
    BY <1>3, <1>4, <1>5, KeptBytes
  <2>3. ReaderCounts'
    BY <1>3, <1>4, <2>1, <2>2 DEF ReaderCounts
  <2>4. QED
    BY <1>1, <1>3, <1>4, <2>3 DEF History
<1>7. InPayload => InPayload' /\ line' # <<>>
  <2>1. HAVE InPayload
  <2>2. n = left /\ msg_len + left = 6
    BY <1>2, <2>1 DEF InPayload
  <2>3. n - 1 = left - 1 /\ n # 1
    BY <1>4, <2>2
  <2>4. \A i \in 1..(msg_len + 1) : Kept(c)[i] = Payload(cmd)[i]
    BY <1>1, <1>3, <1>4, <2>1, PayloadKept
  <2>5. \A i \in 1..msg_len' : msg_buf'[i] = Payload(cmd')[i]
    <3>1. Payload(cmd') = Payload(cmd)
      BY <1>1
    <3>2. QED
      BY <1>3, <2>4, <3>1
  <2>6. QED
    BY <1>2, <1>3, <1>4, <2>2, <2>3, <2>5 DEF InPayload
<1>8. InFrame'
  BY <1>1, <1>3, <1>7 DEF FramingInv, InFrame
<1>9. Lost => Lost'
  <2>1. HAVE Lost
  <2>2. lag \in Nat /\ ((InPayload /\ lag <= 9) \/ 9 * lag + left <= 72 + n)
    BY <1>2, <1>3, <1>4, <2>1 DEF History, Lost
  <2>3. (InPayload /\ lag <= 9) \/ 9 * lag + (left - 1) <= 72 + (n - 1)
    BY <1>4, <2>2
  <2>4. QED
    BY <1>2, <1>3, <1>7, <2>3 DEF Lost
<1>10. Packets /\ Harmless => Packets' /\ Harmless'
  <2>1. HAVE Packets /\ Harmless
  <2>2. msg_len + left \in {1, 2, 6, Start}
    BY <1>3, <2>1 DEF Packets
  <2>3. msg_len + left = 6 => InPayload' \/ (faults = 1 /\ n - 1 = (left - 1) - 1)
    <3>1. msg_len + left = 6 => InPayload \/ (faults = 1 /\ n = left - 1)
      BY <1>2, <1>3, <1>4, <2>1 DEF Packets
    <3>2. n = left - 1 => n - 1 = (left - 1) - 1
      BY <1>4
    <3>3. QED
      BY <1>7, <3>1, <3>2
  <2>4. msg_len + left = 2 => msg_len' # 0 /\ msg_buf'[1] \notin 3..7
    <3>1. HAVE msg_len + left = 2
    <3>2. msg_len = 0
      BY <1>4, <3>1
    <3>3. n \in {0, 1, 2, 3, 9} \/ n = 8
      BY <1>2, <1>3, <2>1, <3>1, <3>2 DEF Packets
    <3>4. /\ n = 9 => c = Start
          /\ n = 8 => c = 1
          /\ n <= 6 => c \in 0..2
      BY <1>1, <1>2, NextByte
    <3>5. c \notin 3..7
      BY <3>3, <3>4 DEF Start
    <3>6. Kept(c)[0 + 1] = c
      BY <1>3, <1>4, <1>5, <3>2, KeptBytes DEF MsgSize
    <3>7. QED
      BY <1>3, <3>2, <3>5, <3>6
  <2>5. QED
    BY <1>1, <1>2, <1>3, <1>4, <2>1, <2>2, <2>3, <2>4 DEF Packets, Harmless
<1>11. QED
  BY <1>1, <1>6, <1>8, <1>9, <1>10 DEF FramingInv, FramingType

\* What the last byte of a packet makes heard, by its length and its first and last
\* byte (main.cpp:250-257, comm.cpp:95-120).
LEMMA InjectHeard ==
    ASSUME NEW len \in Nat, NEW buf, Inject(len, buf)
    PROVE  \/ UNCHANGED <<heard, lag>>
           \/ /\ Passes(len, buf) /\ heard'.type = buf[1]
              /\ heard'.fan = IF len = 6 THEN buf[6] % 2 ELSE 0
              /\ heard'.written <=> (line' = <<>> /\ len = Len(buf) /\ buf = Payload(cmd))
              /\ lag' = IF heard'.written THEN 0 ELSE lag
<1> DEFINE written == line' = <<>> /\ len = Len(buf) /\ buf = Payload(cmd)
           fan == IF len = 6 THEN buf[6] % 2 ELSE 0
<1>1. CASE Passes(len, buf)
  <2>1. /\ heard' = [type |-> buf[1], fan |-> fan, written |-> written]
        /\ lag' = IF written THEN 0 ELSE lag
    BY <1>1 DEF Inject
  <2> HIDE DEF written, fan
  <2>2. heard'.type = buf[1] /\ heard'.fan = fan /\ heard'.written = written
    BY <2>1
  <2>3. lag' = IF heard'.written THEN 0 ELSE lag
    BY <2>1, <2>2
  <2>4. QED
    BY <1>1, <2>2, <2>3 DEF written, fan
<1>2. CASE ~Passes(len, buf)
  BY <1>2 DEF Inject
<1>3. QED
  BY <1>1, <1>2

\* The last byte of a packet.
LEMMA ReadEndInv ==
    ASSUME FramingInv, Read, NEW c, c = Head(line), ReadData(c), left = 1
    PROVE  FramingInv'
<1> DEFINE len == msg_len + 1
<1>1. /\ EndOfCommand' /\ EndOfCommand /\ line # <<>> /\ UNCHANGED <<cmd, faults>>
  BY LineRead DEF FramingInv, FramingType, Read
<1>2. PICK n \in 1..9 : Len(line) = n /\ Len(line') = n - 1 /\ (line' = <<>> <=> n = 1)
  <2>1. /\ Len(line) \in 1..9 /\ Len(line') = Len(line) - 1
        /\ line' = <<>> <=> Len(line') = 0
    BY LineRead DEF FramingInv, FramingType, Read
  <2>2. \A i \in 1..9 : i - 1 = 0 <=> i = 1
    OBVIOUS
  <2>3. QED
    BY <2>1, <2>2
<1>3. /\ next_char = "CPKTDATA" /\ next_char' = "CCMD"
      /\ left' = left - 1 /\ msg_len' = 0 /\ msg_buf' = <<>>
      /\ Inject(len, Kept(c))
  BY DEF ReadData, Kept
<1>4. /\ ReaderCounts /\ History /\ msg_len \in Nat
      /\ len \in Nat /\ len >= 1 /\ len <= 255 /\ msg_len + left = len
  <2>1. ReaderCounts /\ History
    BY DEF FramingInv, FramingType
  <2>2. msg_len \in Nat /\ msg_len + 1 <= 255
    BY <1>3, <2>1 DEF ReaderCounts, Byte
  <2>3. QED
    BY <2>1, <2>2
<1>5. c \in Byte
  BY <1>1, NextByte
<1>6. /\ Kept(c) \in Seq(Byte)
      /\ Len(Kept(c)) = IF len < MsgSize THEN len ELSE MsgSize
      /\ len <= MsgSize => Kept(c)[len] = c
  <2>1. len <= MsgSize => msg_len < MsgSize
    BY <1>4 DEF MsgSize
  <2>2. QED
    BY <1>3, <1>4, <1>5, <2>1, KeptBytes
<1>7. ReaderCounts' /\ History'
  <2>1. <<>> \in Seq(Byte) /\ 0 \in Byte /\ left - 1 \in Byte
    BY DEF Byte
  <2>2. ReaderCounts'
    BY <1>3, <2>1 DEF ReaderCounts
  <2>3. /\ heard' \in [type: Byte, fan: 0..1, written: BOOLEAN]
        /\ lag' \in Nat
    BY <1>3, <1>4, <1>6, InjectType
  <2>4. QED
    BY <1>1, <1>4, <2>2, <2>3 DEF History
<1>8. \/ UNCHANGED <<heard, lag>>
      \/ /\ Passes(len, Kept(c)) /\ heard'.type = Kept(c)[1]
         /\ heard'.fan = IF len = 6 THEN Kept(c)[6] % 2 ELSE 0
         /\ lag' = IF heard'.written THEN 0 ELSE lag
  BY <1>3, <1>4, InjectHeard
<1>9. ASSUME InPayload
      PROVE  line' = <<>> /\ heard'.written /\ lag' = 0
  <2>1. n = 1 /\ len = 6
    BY <1>2, <1>4, <1>9 DEF InPayload
  <2>2. /\ \A i \in 1..6 : Kept(c)[i] = Payload(cmd)[i]
        /\ Len(Kept(c)) = 6
    <3>1. \A i \in 1..len : Kept(c)[i] = Payload(cmd)[i]
      BY <1>1, <1>3, <1>4, <1>9, PayloadKept
    <3>2. \A i \in 1..6 : Kept(c)[i] = Payload(cmd)[i]
      BY <2>1, <3>1
    <3>3. len < MsgSize
      BY <2>1 DEF MsgSize
    <3>4. QED
      BY <1>6, <2>1, <3>2, <3>3
  <2>3. Kept(c) = Payload(cmd)
    <3>1. Payload(cmd) \in Seq(Byte) /\ Len(Payload(cmd)) = 6
      BY <1>1, PayloadBytes DEF EndOfCommand
    <3>2. QED
      BY <1>6, <2>2, <3>1, SeqEqual
  <2>4. Kept(c)[1] = 0
    BY <1>1, <2>3, PayloadBytes DEF EndOfCommand
  <2>5. Passes(len, Kept(c))
    BY <2>1, <2>4 DEF Passes, TypeLen, MsgSize
  <2>6. heard' = [type |-> Kept(c)[1],
                  fan |-> IF len = 6 THEN Kept(c)[6] % 2 ELSE 0,
                  written |-> TRUE]
        /\ lag' = 0
    BY <1>2, <1>3, <2>1, <2>2, <2>3, <2>5 DEF Inject
  <2>7. QED
    BY <1>2, <2>1, <2>6
<1>10. InFrame'
  BY <1>1, <1>3, <1>9 DEF FramingInv, InFrame
<1>11. Lost => Lost'
  <2>1. HAVE Lost
  <2>2. lag \in Nat /\ (InPayload \/ 9 * lag + 1 <= 72 + n)
    BY <1>2, <1>3, <1>4, <2>1 DEF History, Lost
  <2>3. ~InPayload => lag <= 8
    BY <2>2
  <2>4. lag' <= 8
    BY <1>8, <1>9, <2>2, <2>3
  <2>5. lag' \in Nat
    BY <1>7 DEF History
  <2>6. lag' <= 9
    BY <2>4, <2>5
  <2>7. QED
    BY <1>3, <2>4, <2>6 DEF Lost
<1>12. ASSUME Packets, Harmless, ~heard'.written, ~UNCHANGED <<heard, lag>>
       PROVE  IF heard'.type = DamperCmd THEN heard'.fan = 0 ELSE heard'.type \notin 3..7
  <2>1. /\ Passes(len, Kept(c)) /\ heard'.type = Kept(c)[1]
        /\ heard'.fan = IF len = 6 THEN Kept(c)[6] % 2 ELSE 0
    BY <1>8, <1>12
  <2>2. ~InPayload
    BY <1>9, <1>12
  <2>3. len \in {1, 2, 6, Start}
    BY <1>3, <1>4, <1>12 DEF Packets
  <2>4. len \in 1..9 /\ len = TypeLen(Kept(c)[1])
    BY <2>1 DEF Passes, MsgSize
  <2>5. /\ n = 9 => c = Start
        /\ n = 8 => c = 1
        /\ n = 7 => c = 6
        /\ n <= 6 => c \in 0..2
    BY <1>1, <1>2, NextByte
  <2>6. CASE len = 1
    <3>1. Kept(c)[1] = c
      BY <1>6, <2>6 DEF MsgSize
    <3>2. TypeLen(c) = 1
      BY <2>4, <2>6, <3>1
    <3>3. c # 6
      BY <3>2 DEF TypeLen
    <3>4. c \notin 3..7 /\ c # 0
      BY <2>5, <3>2, <3>3 DEF Start, TypeLen
    <3>5. QED
      BY <2>1, <3>1, <3>4 DEF DamperCmd
  <2>7. CASE len = 2
    <3>1. msg_len # 0 /\ msg_buf[1] \notin 3..7
      <4>1. msg_len # 0 /\ msg_len + left = 2
        BY <1>4, <2>7
      <4>2. QED
        BY <1>3, <1>12, <4>1 DEF Packets
    <3>2. 1 \in 1..Len(msg_buf)
      <4>1. msg_len = 1
        BY <1>4, <2>7
      <4>2. Len(msg_buf) = 1
        BY <1>3, <1>4, <4>1 DEF ReaderCounts, MsgSize
      <4>3. QED
        BY <4>2
    <3>3. Kept(c)[1] = msg_buf[1]
      BY <1>3, <1>4, <1>5, <3>2, KeptBytes
    <3>4. TypeLen(Kept(c)[1]) = 2
      BY <2>4, <2>7
    <3>5. Kept(c)[1] # 0
      BY <3>4 DEF TypeLen
    <3>6. QED
      BY <2>1, <3>1, <3>3, <3>5 DEF DamperCmd
  <2>8. CASE len = 6
    <3>1. n = 9
      <4>1. Len(line) = left - 1 \/ Len(line) = 9
        BY <1>3, <1>4, <1>12, <2>2, <2>8 DEF Packets
      <4>2. QED
        BY <1>2, <4>1
    <3>2. Kept(c)[6] = 62
      BY <1>6, <2>5, <2>8, <3>1 DEF MsgSize, Start
    <3>3. heard'.fan = 0
      <4>1. 62 % 2 = 0
        OBVIOUS
      <4>2. QED
        BY <2>1, <2>8, <3>2, <4>1
    <3>4. Kept(c)[1] \notin 3..7
      BY <2>4, <2>8 DEF TypeLen
    <3>5. QED
      BY <2>1, <3>3, <3>4
  <2>9. QED
    BY <2>3, <2>4, <2>6, <2>7, <2>8 DEF Start
<1>13. Packets /\ Harmless => Packets' /\ Harmless'
  BY <1>3, <1>12 DEF Packets, Harmless
<1>14. QED
  BY <1>1, <1>7, <1>10, <1>11, <1>13 DEF FramingInv, FramingType

-----------------------------------------------------------------------------
(* Every step, and the properties.                                         *)

LEMMA InitInv == Init => FramingInv
<1> SUFFICES ASSUME Init PROVE FramingInv
  OBVIOUS
<1>1. EndOfCommand
  <2>1. <<>> \in Seq(Byte) /\ Len(<<>>) = 0
    OBVIOUS
  <2>2. AllOff \in State
    BY DEF AllOff, State
  <2>3. QED
    BY <2>1, <2>2 DEF Init, EndOfCommand
<1>2. ReaderCounts /\ History
  BY BoundAssumption
     DEF Init, ReaderCounts, History, Nothing, DamperCmd, Byte
<1>3. InFrame /\ Packets /\ Harmless /\ Lost
  BY DEF Init, InFrame, Packets, Harmless, Lost, Nothing, DamperCmd
<1>4. QED
  BY <1>1, <1>2, <1>3 DEF FramingInv, FramingType

LEMMA StepInv == FramingInv /\ [Next]_vars => FramingInv'
<1> SUFFICES ASSUME FramingInv, [Next]_vars PROVE FramingInv'
  OBVIOUS
<1>1. CASE \E s \in State : Write(s)
  BY <1>1, WriteInv
<1>2. CASE Read
  <2>1. PICK c : c = Head(line)
    OBVIOUS
  <2>2. CASE ReadKey(c)
    BY <1>2, <2>1, <2>2, ReadKeyInv
  <2>3. CASE ReadDst(c)
    BY <1>2, <2>1, <2>3, ReadDstInv
  <2>4. CASE ReadLen(c)
    BY <1>2, <2>1, <2>4, ReadLenInv
  <2>5. CASE ReadData(c)
    BY <1>2, <2>1, <2>5, ReadOnInv, ReadEndInv
  <2>6. QED
    BY <1>2, <2>1, <2>2, <2>3, <2>4, <2>5 DEF Read
<1>3. CASE Lose
  BY <1>3, LoseInv
<1>4. CASE Reset
  BY <1>4, ResetInv
<1>5. CASE UNCHANGED vars
  BY <1>5
     DEF vars, FramingInv, FramingType, EndOfCommand, ReaderCounts, History, InFrame,
         InPayload, Packets, Harmless, Lost
<1>6. QED
  BY <1>1, <1>2, <1>3, <1>4, <1>5 DEF Next

LEMMA Inductive == Spec => []FramingInv
BY InitInv, StepInv, PTL DEF Spec

\* Every variable keeps to its type: read_num_chars never wraps below 0, and what is
\* kept of a packet never outgrows its buffer, whatever is lost (main.cpp:224-260).
THEOREM TypeCorrect == Spec => []TypeOK
<1>1. FramingInv => TypeOK
  <2>1. SUFFICES ASSUME FramingInv PROVE Len(msg_buf) <= MsgSize
    BY <2>1 DEF FramingInv, FramingType, EndOfCommand, ReaderCounts, History, TypeOK
  <2>2. ReaderCounts /\ msg_len \in Nat
    BY <2>1 DEF FramingInv, FramingType, ReaderCounts, Byte
  <2>3. CASE next_char = "CPKTDATA"
    <3>1. Len(msg_buf) = IF msg_len < MsgSize THEN msg_len ELSE MsgSize
      BY <2>2, <2>3 DEF ReaderCounts
    <3>2. QED
      BY <2>2, <3>1 DEF MsgSize
  <2>4. CASE next_char # "CPKTDATA"
    <3>1. msg_buf = <<>>
      BY <2>2, <2>4 DEF ReaderCounts
    <3>2. Len(<<>>) <= MsgSize
      BY DEF MsgSize
    <3>3. QED
      BY <3>1, <3>2
  <2>5. QED
    BY <2>3, <2>4
<1>2. QED
  BY <1>1, Inductive, PTL

\* On a line that loses nothing every command is heard as it was written, and nothing
\* else is, however many there are (dampersteensy.go:24-60, main.cpp:224-320).
THEOREM CleanLineHears == Spec => []CleanLine
<1>1. FramingInv => CleanLine
  BY DEF FramingInv, InFrame, CleanLine
<1>2. QED
  BY <1>1, Inductive, PTL

\* With one byte lost or one reset, whichever and whenever, no message that was not
\* written runs the main fan, hands out ids or changes settings (main.cpp:233-257).
THEOREM OneFaultIsHarmless == Spec => []MangledHarmless
<1>1. FramingInv => MangledHarmless
  BY DEF FramingInv, Harmless, MangledHarmless
<1>2. QED
  BY <1>1, Inductive, PTL

\* ... and it costs nine commands at most: the start of a command taken for a length
\* swallows 62 bytes (main.cpp:239-257).
THEOREM ReaderResynchronises ==
    ASSUME MaxLag >= 9
    PROVE  Spec => []Resynchronises
<1>1. FramingInv => Resynchronises
  <2>1. SUFFICES ASSUME FramingInv, faults <= 1 PROVE lag <= 9
    BY <2>1, BoundAssumption DEF FramingInv, FramingType, History, Resynchronises
  <2>2. Lost /\ lag \in Nat /\ Len(line) \in Nat /\ Len(line) <= 9
        /\ left \in Nat /\ (next_char = "CPKTDATA" => left >= 1)
        /\ next_char \in {"CCMD", "CPKTDST", "CPKTLEN", "CPKTDATA"}
    BY <2>1 DEF FramingInv, FramingType, History, EndOfCommand, ReaderCounts, Byte
  <2>3. QED
    BY <2>2 DEF Lost
<1>2. QED
  BY <1>1, Inductive, PTL
=============================================================================

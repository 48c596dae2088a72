--------------------------- MODULE SerialFraming ---------------------------
(***************************************************************************)
(* The serial line from the ventilation interface to the microcontroller   *)
(* with bus id 1: the bytes of a damper command (ventilationinterface/     *)
(* dampersteensy.go), the reader of the firmware that finds the packets in *)
(* them (main.cpp) and the checks a packet passes before it is handled     *)
(* (comm.cpp).  A lost byte and a reset of the microcontroller, which may  *)
(* come in the middle of a command, each cost one of MaxFaults.            *)
(***************************************************************************)
EXTENDS Naturals, Sequences

CONSTANTS
    MaxFaults,  \* bound on faults
    MaxLag      \* commands that one fault may cost at most

ASSUME BoundAssumption == MaxFaults \in Nat /\ MaxLag \in Nat

VARIABLES
    cmd,        \* the command on the line, written last
    line,       \* its bytes that were not read yet
    next_char,  \* what the firmware takes the next byte for
    left,       \* read_num_chars
    msg_len,
    msg_buf,    \* its first bytes, as many as a message can have
    heard,      \* history: the last message that passed the checks
    lag,        \* history: commands written since one was heard as written
    faults      \* faults so far

vars == <<cmd, line, next_char, left, msg_len, msg_buf, heard, lag, faults>>

-----------------------------------------------------------------------------
(* The host.                                                               *)

\* A ventilation state in the numbers of damperteensy_cmdmap; 0 is closed and off.  Of
\* the states the arbiter publishes.
State == {s \in [damper: [1..3 -> 0..2], fan: 0..1] :
             s.fan = 1 => /\ \E d \in 1..3 : s.damper[d] = 0
                          /\ \E d \in 1..3 : s.damper[d] # 0}

\* Mutant: a start byte whose lowest bit is set.
StartOdd == 63

\* damperteensy_start_tx, '>'.
Start == 62

Payload(s) == <<0, 0>> \o s.damper \o <<s.fan>>

\* Mutant: the length counts itself.
LengthWithItself(s) == Len(Payload(s)) + 1

Length(s) == Len(Payload(s))

\* mkDamperCmdMsg
Bytes(s) == <<Start, 1, Length(s)>> \o Payload(s)

Write(s) ==
    /\ line = <<>>
    /\ line' = Bytes(s)
    /\ cmd' = s
    /\ lag' = lag + 1
    /\ UNCHANGED <<next_char, left, msg_len, msg_buf, heard, faults>>

-----------------------------------------------------------------------------
(* The checks of pjon_recv_handler and pjon_postrecv_handle_msg.           *)

DamperCmd == 0
MsgSize   == 10   \* sizeof(pjon_message_t) on the AVR, whose floats are not aligned

\* pjon_type_to_msg_length
TypeLen(type) ==
    CASE type = 0 -> 6          \* MSG_DAMPERCMD
      [] type = 1 -> 10         \* MSG_PRESSUREINFO
      [] type = 2 -> 3          \* MSG_ERROR
      [] type = 3 -> 5          \* MSG_UPDATESETTINGS
      [] type \in {6, 7} -> 2   \* MSG_PJONID_INFO, MSG_PJONID_SET
      [] OTHER -> 1

Passes(len, buf) == len \in 1..(MsgSize - 1) /\ len = TypeLen(buf[1])

-----------------------------------------------------------------------------
(* The reader of the firmware, one byte at a time.  The state of           *)
(* handle_serial2pjon is that of handle_serialdata whenever it is used.    *)

\* Among the keys only the start of a packet: no other byte of a command is one.
ReadKey(c) ==
    /\ next_char = "CCMD"
    /\ next_char' = IF c = Start THEN "CPKTDST" ELSE "CCMD"
    /\ UNCHANGED <<left, msg_len, msg_buf, heard, lag>>

\* Whatever the destination is, the packet is handled: here, or by whom it is sent to.
ReadDst(c) ==
    /\ next_char = "CPKTDST"
    /\ next_char' = "CPKTLEN"
    /\ UNCHANGED <<left, msg_len, msg_buf, heard, lag>>

\* Mutant: a length of 0 is taken for one, and read_num_chars wraps.
WrappingLen(c) == IF c = 0 THEN [to |-> "CPKTDATA", left |-> 256]
                           ELSE [to |-> "CPKTDATA", left |-> c]

AfterLen(c) == IF c = 0 THEN [to |-> "CPKTDST", left |-> left]
                        ELSE [to |-> "CPKTDATA", left |-> c]

ReadLen(c) ==
    /\ next_char = "CPKTLEN"
    /\ next_char' = AfterLen(c).to
    /\ left' = AfterLen(c).left
    /\ msg_len' = IF c = 0 THEN msg_len ELSE 0
    /\ msg_buf' = IF c = 0 THEN msg_buf ELSE <<>>
    /\ UNCHANGED <<heard, lag>>

\* pjon_inject_msg, once the packet is complete.
Inject(len, buf) ==
    LET written == line' = <<>> /\ len = Len(buf) /\ buf = Payload(cmd) IN
    IF Passes(len, buf)
    THEN /\ heard' = [type |-> buf[1], fan |-> IF len = 6 THEN buf[6] % 2 ELSE 0,
                      written |-> written]
         /\ lag' = IF written THEN 0 ELSE lag
    ELSE UNCHANGED <<heard, lag>>

ReadData(c) ==
    LET buf == IF msg_len < MsgSize THEN Append(msg_buf, c) ELSE msg_buf IN
    /\ next_char = "CPKTDATA"
    /\ left' = left - 1
    /\ IF left = 1
       THEN /\ next_char' = "CCMD" /\ msg_len' = 0 /\ msg_buf' = <<>>
            /\ Inject(msg_len + 1, buf)
       ELSE /\ msg_len' = msg_len + 1 /\ msg_buf' = buf
            /\ UNCHANGED <<next_char, heard, lag>>

\* handle_serialdata
Read ==
    LET c == Head(line) IN
    /\ line # <<>>
    /\ line' = Tail(line)
    /\ ReadKey(c) \/ ReadDst(c) \/ ReadLen(c) \/ ReadData(c)
    /\ UNCHANGED <<cmd, faults>>

-----------------------------------------------------------------------------
Fault == faults < MaxFaults /\ faults' = faults + 1

Lose ==
    /\ Fault
    /\ line # <<>>
    /\ line' = Tail(line)
    /\ UNCHANGED <<cmd, next_char, left, msg_len, msg_buf, heard, lag>>

Reset ==
    /\ Fault
    /\ next_char' = "CCMD" /\ left' = 0 /\ msg_len' = 0 /\ msg_buf' = <<>>
    /\ UNCHANGED <<cmd, line, heard, lag>>

AllOff  == [damper |-> [d \in 1..3 |-> 0], fan |-> 0]
Nothing == [type |-> DamperCmd, fan |-> 0, written |-> TRUE]

Init ==
    /\ cmd = AllOff
    /\ line = <<>>
    /\ next_char = "CCMD"
    /\ left = 0
    /\ msg_len = 0
    /\ msg_buf = <<>>
    /\ heard = Nothing
    /\ lag = 0
    /\ faults = 0

Next == (\E s \in State : Write(s)) \/ Read \/ Lose \/ Reset

Spec == Init /\ [][Next]_vars

-----------------------------------------------------------------------------
(* Properties.                                                             *)

Byte == 0..255

\* Every variable keeps to its type, the count of bytes left to its width.
TypeOK ==
    /\ cmd \in State /\ line \in Seq(Byte) /\ Len(line) <= 9
    /\ next_char \in {"CCMD", "CPKTDST", "CPKTLEN", "CPKTDATA"}
    /\ left \in Byte /\ msg_len \in Byte
    /\ msg_buf \in Seq(Byte) /\ Len(msg_buf) <= MsgSize
    /\ heard \in [type: Byte, fan: 0..1, written: BOOLEAN]
    /\ lag \in Nat /\ faults \in 0..MaxFaults

\* On a line that loses nothing, each command has been heard as it was written when its
\* bytes are read, and nothing else has (dampersteensy.go:24-60, main.cpp:224-320).
CleanLine ==
    faults = 0 => heard.written /\ (line = <<>> => lag = 0)

\* A byte lost anywhere makes the reader take one field for another, and commands nobody
\* wrote are heard: but none that runs the main fan, hands out ids or changes settings,
\* for the start of the next command ends up as the fan (main.cpp:233-257).
MangledHarmless ==
    faults <= 1 /\ ~heard.written =>
        IF heard.type = DamperCmd THEN heard.fan = 0 ELSE heard.type \notin 3..7

\* ... and the reader finds the start of a command again before many are lost, though it
\* may take that start for a length (main.cpp:239-246).
Resynchronises == faults <= 1 => lag <= MaxLag
=============================================================================

------------------------------ MODULE Framing ------------------------------
(***************************************************************************)
(* One TCP connection of the syslog output, byte by byte: the frames that  *)
(* _prepare_payload makes (syslog_handler.py), the stream they become, the *)
(* chunks recv cuts it into, and the loop that finds the messages again,   *)
(* in either receiver (syslog_receiver.py, syslog_server.py).              *)
(*                                                                         *)
(* A byte is a digit 0 .. 9, a space, a line feed or a letter, which       *)
(* stands for every other one; a line is the text of a formatter, encoded  *)
(* and with the header, if any.                                            *)
(***************************************************************************)
EXTENDS Integers, SequencesExt

CONSTANTS
    Lines,     \* the lines that are sent in this instance
    MaxBytes,  \* SYSLOG_MAX_MSG_BYTES
    MaxSent    \* bound on the frames of the connection

Space    == 10
LineFeed == 11
Letter   == 12
Digits   == 0 .. 9
Bytes    == 0 .. 12

Marker == <<Space, Letter>>              \* " [TRUNCATED]"

(* Every format begins a line with a letter, '<' or '{' and has a space in
   its fixed part; the marker fits. *)
ASSUME FramingAssumption ==
    /\ MaxBytes \in Nat /\ MaxBytes > Len(Marker) /\ MaxSent \in Nat
    /\ \A line \in Lines :
          /\ line \in Seq(Bytes) /\ line # <<>>
          /\ line[1] = Letter
          /\ \E n \in DOMAIN line : line[n] = Space

VARIABLES
    framing,  \* SYSLOG_TCP_FRAMING: newline or octet
    reader,   \* the program at the other end: receiver or server
    sent,     \* the lines whose frames sendall was given
    stream,   \* the bytes of their frames
    cut,      \* bytes that reach the reader once the connection broke, -1 before
    got,      \* bytes received so far
    buf,      \* the reader's buf
    out,      \* what it has written
    status    \* the reader: receiving, parsing or closed

vars == <<framing, reader, sent, stream, cut, got, buf, out, status>>

-----------------------------------------------------------------------------
(* The sender. *)

(* The line, cut to MaxBytes at a byte. *)
Payload(line) ==
    IF Len(line) > MaxBytes
    THEN SubSeq(line, 1, MaxBytes - Len(Marker)) \o Marker
    ELSE line

Blank(byte) == byte \in {Space, LineFeed}

(* rstrip(b"\r\n") *)
WithoutNewlines(b) ==
    SubSeq(b, 1, SelectLastInSeq(b, LAMBDA byte : byte # LineFeed))

(* strip() *)
Strip(b) ==
    LET first == SelectInSeq(b, LAMBDA byte : ~Blank(byte))
    IN  IF first = 0 THEN <<>>
        ELSE SubSeq(b, first, SelectLastInSeq(b, LAMBDA byte : ~Blank(byte)))

(* str(n) *)
Decimal(n) ==
    LET digits[k \in 0 .. n] == IF k < 10 THEN <<k>> ELSE Append(digits[k \div 10], k % 10)
    IN  digits[n]

FrameOfLine(kind, line) ==               \* mutant: the length before the truncation
    IF kind = "newline"
    THEN Append(WithoutNewlines(Payload(line)), LineFeed)
    ELSE Append(Decimal(Len(line)), Space) \o Payload(line)

(* The frame of a line under either framing. *)
Frame(kind, line) ==
    IF kind = "newline"
    THEN Append(WithoutNewlines(Payload(line)), LineFeed)
    ELSE Append(Decimal(Len(Payload(line))), Space) \o Payload(line)

Init ==
    /\ framing \in {"newline", "octet"}
    /\ reader \in {"receiver", "server"}
    /\ sent = <<>>
    /\ stream = <<>>
    /\ cut = -1
    /\ got = 0
    /\ buf = <<>>
    /\ out = <<>>
    /\ status = "receiving"

Up == cut = -1

Arriving == IF Up THEN Len(stream) ELSE cut

SendAll ==
    /\ Up
    /\ Len(sent) < MaxSent
    /\ \E line \in Lines :
          /\ sent' = Append(sent, line)
          /\ stream' = stream \o Frame(framing, line)
    /\ UNCHANGED <<framing, reader, cut, got, buf, out, status>>

(* The connection ends or breaks: some of the bytes under way still arrive,
   a prefix, which may end within a frame. *)
Break ==
    /\ Up
    /\ cut' \in got .. Len(stream)
    /\ UNCHANGED <<framing, reader, sent, stream, got, buf, out, status>>

-----------------------------------------------------------------------------
(* The reader. *)

ReceivePeek ==                           \* mutant: bytes looked at and not taken
    /\ status = "receiving"
    /\ \E n \in (got + 1) .. Arriving :
          /\ buf' = buf \o SubSeq(stream, 1, n)
          /\ got' = n
    /\ status' = "parsing"
    /\ UNCHANGED <<framing, reader, sent, stream, cut, out>>

(* recv returns any number of the bytes that are there. *)
Receive ==
    /\ status = "receiving"
    /\ \E n \in (got + 1) .. Arriving :
          /\ buf' = buf \o SubSeq(stream, got + 1, n)
          /\ got' = n
    /\ status' = "parsing"
    /\ UNCHANGED <<framing, reader, sent, stream, cut, out>>

(* recv returns nothing: the connection is over and buf forgotten. *)
EndOfStream ==
    /\ status = "receiving"
    /\ ~Up
    /\ got = cut
    /\ status' = "closed"
    /\ buf' = <<>>
    /\ UNCHANGED <<framing, reader, sent, stream, cut, got, out>>

Position(byte) == SelectInSeq(buf, LAMBDA x : x = byte)

LengthField == SubSeq(buf, 1, Position(Space) - 1)

(* int() accepts it. *)
IsLength(b) == b # <<>> /\ \A n \in DOMAIN b : b[n] \in Digits

(* int() *)
Length(b) ==
    LET value[n \in 0 .. Len(b)] == IF n = 0 THEN 0 ELSE 10 * value[n - 1] + b[n]
    IN  value[Len(b)]

(* buf has no complete length field; only syslog_receiver looks at the first
   byte to see whether it should have one. *)
LengthMissing ==
    /\ buf # <<>>
    /\ Position(Space) = 0
    /\ reader = "receiver" => Head(buf) \in Digits

Counted == ~LengthMissing /\ Position(Space) # 0 /\ IsLength(LengthField)

Delimited == ~LengthMissing /\ ~Counted

FrameEnd == IF Counted THEN Position(Space) + Length(LengthField) ELSE Position(LineFeed)

(* The break statements of the loop, and its condition. *)
Incomplete ==
    \/ buf = <<>>
    \/ LengthMissing
    \/ Counted /\ Len(buf) < FrameEnd
    \/ Delimited /\ Position(LineFeed) = 0

WaitForMore ==
    /\ status = "parsing"
    /\ Incomplete
    /\ status' = "receiving"
    /\ UNCHANGED <<framing, reader, sent, stream, cut, got, buf, out>>

Message == IF Counted THEN SubSeq(buf, Position(Space) + 1, FrameEnd)
                      ELSE SubSeq(buf, 1, FrameEnd - 1)

(* syslog_receiver strips every message and drops the empty ones;
   syslog_server strips those it found by a line feed. *)
Written(message) ==
    CASE reader = "server" /\ Counted -> <<message>>
      [] reader = "server" /\ ~Counted -> <<Strip(message)>>
      [] reader = "receiver" -> IF Strip(message) = <<>> THEN <<>> ELSE <<Strip(message)>>

TakeOneMessage ==                        \* mutant: if buf, instead of while buf
    /\ status = "parsing"
    /\ ~Incomplete
    /\ \E message \in {Message} : out' = out \o Written(message)
    /\ buf' = SubSeq(buf, FrameEnd + 1, Len(buf))
    /\ status' = "receiving"
    /\ UNCHANGED <<framing, reader, sent, stream, cut, got>>

TakeMessage ==
    /\ status = "parsing"
    /\ ~Incomplete
    /\ \E message \in {Message} : out' = out \o Written(message)
    /\ buf' = SubSeq(buf, FrameEnd + 1, Len(buf))
    /\ UNCHANGED <<framing, reader, sent, stream, cut, got, status>>

Reader == Receive \/ EndOfStream \/ WaitForMore \/ TakeMessage

Next == SendAll \/ Break \/ Reader

Spec == Init /\ [][Next]_vars

(* The reader's thread is scheduled and the network delivers. *)
FairSpec == Spec /\ WF_vars(Reader)
-----------------------------------------------------------------------------
TypeOK ==
    /\ framing \in {"newline", "octet"}
    /\ reader \in {"receiver", "server"}
    /\ sent \in Seq(Lines)
    /\ stream \in Seq(Bytes)
    /\ cut \in {-1} \cup 0 .. Len(stream)
    /\ got \in 0 .. Arriving
    /\ buf \in Seq(Bytes) /\ Len(buf) <= got
    /\ out \in Seq(Seq(Bytes))
    /\ status \in {"receiving", "parsing", "closed"}

(* How a line looks at the other end. *)
Shown(line) ==
    IF framing = "octet" /\ reader = "server" THEN Payload(line) ELSE Strip(Payload(line))

(* Where the frames of lines end in the stream. *)
Ends(kind, lines) ==
    LET end[n \in 0 .. Len(lines)] ==
            IF n = 0 THEN 0 ELSE end[n - 1] + Len(Frame(kind, lines[n]))
    IN  end

(* The frames all of whose bytes have been received. *)
Whole == {n \in DOMAIN sent : Ends(framing, sent)[n] <= got}

(* Octet counting carries any text, newline framing a line whose only line
   feed is its last byte. *)
Fits(line) == framing = "octet" \/ \A n \in DOMAIN line : line[n] = LineFeed => n = Len(line)

(* However recv cuts the stream, the reader has written exactly the lines
   whose frames have arrived, in order, each once and unmixed, whenever it
   waits for more; and nothing of a frame that the end of the connection cut
   short.  Both readers understand both framings (handle_client of either,
   parse_frames, _prepare_payload). *)
LinePerFrame ==
    (\A n \in DOMAIN sent : Fits(sent[n])) /\ status # "parsing" =>
        out = [n \in Whole |-> Shown(sent[n])]

(* Every line sent on a connection that does not break is written in the
   end, without a later one that would push it out of the buffer. *)
LinesArrive == \A n \in 1 .. MaxSent : n <= Len(sent) ~> n <= Len(out) \/ ~Up
=============================================================================

-------------------------------- MODULE Framing --------------------------------
(***************************************************************************)
(* One direction of a connection: frames written by send_frame and read by *)
(* recv_frame (shared/sih_shared/framing.py) on a TLS socket, which        *)
(* delivers the bytes in order but in segments of its own choosing.  A     *)
(* time-out raises and leaves the socket as it is, with the bytes that     *)
(* were taken from it gone.                                                *)
(*                                                                         *)
(* The names of the specification begin with F, so that a module can       *)
(* extend this one beside another.                                         *)
(***************************************************************************)
EXTENDS Codec

CONSTANTS Frames,        \* the frames that may be sent
          MaxFrameSize,  \* the cap on a payload
          Pieces,        \* bound: the sizes of segments, and of what a failing sendall sends
          MaxFrames,     \* bound on the frames sent
          MaxFaults      \* bound on the calls that fail

Frame == [channel : Byte, payload : Seq(Byte)]

ASSUME FramingAssumption == /\ MaxFrameSize \in Nat /\ MaxFrameSize < Power(IntWidth)
                            /\ MaxFrames \in Nat /\ MaxFaults \in Nat
                            /\ Pieces \subseteq Nat \ {0}
                            /\ Frames \subseteq Frame

VARIABLES stream,    \* bytes on their way
          closed,    \* the sender has closed its socket
          stage,     \* where recv_frame is: "idle", "header" or "payload"
          need,      \* the bytes _recv_exact is to return
          chunks,    \* the bytes it has so far
          channel,   \* the channel of the header that was read
          sent, received,   \* history: the frames sent whole, and returned
          tooLarge,  \* history: recv_frame raised "frame too large"
          broken,    \* the ends whose last call raised
          resumed,   \* history: an end used the socket after a call had raised
          faults

readerVars == <<stage, need, chunks, channel>>
fvars == <<stream, closed, readerVars, sent, received, tooLarge, broken, resumed, faults>>

FrameHeader == << <<"channel", "u8">>, <<"length", "u32">> >>
HeaderSize  == 1 + IntWidth

EncodeFrame(f) == U8(f.channel) \o U32(Len(f.payload)) \o f.payload

FInit == /\ stream = <<>> /\ closed = FALSE
         /\ stage = "idle" /\ need = 0 /\ chunks = <<>> /\ channel = 0
         /\ sent = <<>> /\ received = <<>> /\ tooLarge = FALSE
         /\ broken = {} /\ resumed = FALSE /\ faults = 0

-------------------------------------------------------------------------------

Uses(end) == resumed' = (resumed \/ end \in broken)

\* Bound: a call fails.
Fails(end) == /\ faults < MaxFaults
              /\ faults' = faults + 1
              /\ broken' = broken \cup {end}

\* Mutant of Sendable: the sender does not look at the size.
SendableAny(f) == TRUE

Sendable(f) == Len(f.payload) <= MaxFrameSize

\* send_frame.
SendFrame(f) ==
  /\ ~closed /\ Len(sent) < MaxFrames
  /\ Sendable(f)
  /\ stream' = stream \o EncodeFrame(f)
  /\ sent' = Append(sent, f)
  /\ Uses("sender")
  /\ UNCHANGED <<closed, readerVars, received, tooLarge, broken, faults>>

\* sendall gives up after a part of the frame.
SendCut(f, k) ==
  /\ ~closed /\ Len(sent) < MaxFrames
  /\ Sendable(f)
  /\ k < HeaderSize + Len(f.payload)
  /\ stream' = stream \o Slice(EncodeFrame(f), 0, k)
  /\ Fails("sender")
  /\ Uses("sender")
  /\ UNCHANGED <<closed, readerVars, sent, received, tooLarge>>

Close == /\ ~closed
         /\ closed' = TRUE
         /\ UNCHANGED <<stream, readerVars, sent, received, tooLarge, broken, resumed, faults>>

-------------------------------------------------------------------------------

Reads(next, n) == stage' = next /\ need' = n /\ chunks' = <<>>

\* recv_frame is called.
RecvFrame == /\ stage = "idle"
             /\ Reads("header", HeaderSize)
             /\ Uses("reader")
             /\ UNCHANGED <<stream, closed, channel, sent, received, tooLarge, broken, faults>>

\* Mutant of Wanted: every recv asks for the whole number again.
WantedAll == need

Wanted == need - Len(chunks)

Waiting == stage # "idle" /\ Len(chunks) < need

\* recv returns what has arrived, up to what it was asked for, in pieces of any
\* size.
Segment(piece) ==
  /\ Waiting /\ stream # <<>>
  /\ LET n == Min({piece, Wanted})
     IN  /\ chunks' = chunks \o Slice(stream, 0, n)
         /\ stream' = Slice(stream, n, Len(stream))
  /\ UNCHANGED <<closed, stage, need, channel, sent, received, tooLarge, broken, resumed, faults>>

TooLarge(n) == n > MaxFrameSize

HeaderRead ==
  /\ stage = "header" /\ ~Waiting
  /\ LET h == Decode(FrameHeader, chunks).value
     IN  /\ channel' = h.channel
         /\ IF TooLarge(h.length)
            THEN /\ Reads("idle", 0)
                 /\ tooLarge' = TRUE
                 /\ broken' = broken \cup {"reader"}
            ELSE /\ Reads("payload", h.length)
                 /\ UNCHANGED <<tooLarge, broken>>
  /\ UNCHANGED <<stream, closed, sent, received, resumed, faults>>

PayloadRead ==
  /\ stage = "payload" /\ ~Waiting
  /\ received' = Append(received, [channel |-> channel, payload |-> chunks])
  /\ Reads("idle", 0)
  /\ UNCHANGED <<stream, closed, channel, sent, tooLarge, broken, resumed, faults>>

\* recv times out: the chunks are dropped with the call.
TimeOut == /\ Waiting
           /\ Fails("reader")
           /\ Reads("idle", 0)
           /\ UNCHANGED <<stream, closed, channel, sent, received, tooLarge, resumed>>

\* recv returns nothing: "connection closed by peer".
EndOfStream == /\ Waiting /\ closed /\ stream = <<>>
               /\ Reads("idle", 0)
               /\ broken' = broken \cup {"reader"}
               /\ UNCHANGED <<stream, closed, channel, sent, received, tooLarge, resumed, faults>>

SenderNext == \/ \E f \in Frames : SendFrame(f)
              \/ \E f \in Frames, k \in Pieces : SendCut(f, k)
              \/ Close

ReaderNext == \/ RecvFrame
              \/ \E n \in Pieces : Segment(n)
              \/ HeaderRead \/ PayloadRead \/ TimeOut \/ EndOfStream

FNext == SenderNext \/ ReaderNext

FSpec == FInit /\ [][FNext]_fvars

-------------------------------------------------------------------------------

FTypeOK == /\ stream \in Seq(Byte) /\ chunks \in Seq(Byte) /\ channel \in Byte
           /\ stage \in {"idle", "header", "payload"}
           /\ need \in 0 .. MaxFrameSize \cup {HeaderSize} /\ Len(chunks) <= need
           /\ {sent, received} \subseteq Seq(Frame) /\ Len(sent) <= MaxFrames
           /\ broken \subseteq {"sender", "reader"}
           /\ {closed, tooLarge, resumed} \subseteq BOOLEAN /\ faults \in 0 .. MaxFaults

\* However the bytes are cut into segments, and wherever a call gives up, what
\* recv_frame returns are the frames that were sent, whole and in order, and
\* none is refused for its size, unless an end goes on using the socket after a
\* call on it has raised.  The pumps and the server's loop stop at the first
\* exception; a ClientSession does not (session.py:406).
FramesInOrder == ~resumed => IsPrefix(received, sent) /\ ~tooLarge
==============================================================================

------------------------------- MODULE Frames -------------------------------
(***************************************************************************)
(* The frames of a terminal's data channel: what session.message makes of  *)
(* the browser's frames, and copyOutput of the shell's output, next to the *)
(* codec of internal/protocol, which the agent itself does not use and     *)
(* which stands for the browser here. Whether a terminal is closed is      *)
(* decided elsewhere (Terminal) and between any two steps.                 *)
(***************************************************************************)
EXTENDS Naturals, Sequences

CONSTANTS
    Bytes,      \* bytes the arguments of a frame are made of
    Sizes,      \* columns and rows a browser may have (uint16 in the code)
    MaxFrame,   \* maxFrame and MaxFrameBytes (64 KiB in the code)
    MaxOutput   \* bound: bytes that the shell writes

ASSUME FramesAssumption ==
    /\ Bytes \subseteq 0..255 /\ Sizes \subseteq Nat
    /\ MaxFrame \in Nat /\ MaxFrame > 5 /\ MaxOutput \in Nat

VARIABLES
    term,       \* starting (no PTY yet), running, closed
    frame,      \* the browser's frame that is handled
    at,         \* message: idle, act (it has seen a PTY)
    did,        \* what it did: none, written, rejected, unavailable, or <<columns, rows>>
    out         \* bytes that copyOutput has read; those of the last read that are to be
                \*   sent; the size of the last frame; bytes that the browser has
vars == <<term, frame, at, did, out>>

FramePTY == 1
FrameResize == 2
FrameExit == 3
FrameError == 4

Text == <<256>>     \* a message that is a string

Frame == {Text, <<>>}
    \cup {<<type>> \o data : type \in 0..5,
              data \in {<<>>, <<65>>, <<195>>, <<195, 164>>} \cup {[i \in 1..n |-> 65] : n \in {4, 5, MaxFrame}}}
    \cup {<<FrameResize>> \o data : data \in [1..4 -> Bytes]}

Uint16(bytes) == bytes[1] * 256 + bytes[2]
Number(n) == <<n \div 256, n % 256>>
Dimension(n) == n \in 1..1000

\* utf8.Valid, for texts of one- and two-byte characters.
Valid(bytes) ==
    \A i \in DOMAIN bytes :
        \/ bytes[i] < 128
        \/ bytes[i] \in 194..223 /\ i < Len(bytes) /\ bytes[i + 1] \in 128..191
        \/ bytes[i] \in 128..191 /\ i > 1 /\ bytes[i - 1] \in 194..223

\* DecodeFrame returns no error.
DecodeFrame(data) ==
    /\ data # <<>> /\ Len(data) <= MaxFrame
    /\ LET rest == Tail(data) IN
       CASE data[1] = FramePTY -> TRUE
         [] data[1] = FrameResize -> /\ Len(rest) = 4
                                     /\ Dimension(Uint16(rest)) /\ Dimension(Uint16(SubSeq(rest, 3, 4)))
         [] data[1] = FrameExit -> Len(rest) = 5
         [] data[1] = FrameError -> Len(rest) <= 256 /\ Valid(rest)
         [] OTHER -> FALSE

\* Mutant of EncodeResize: rows and columns are swapped.
EncodeResizeSwapped(columns, rows) ==
    IF Dimension(columns) /\ Dimension(rows)
    THEN <<FrameResize>> \o Number(rows) \o Number(columns) ELSE <<>>

\* <<>> for an error.
EncodeResize(columns, rows) ==
    IF Dimension(columns) /\ Dimension(rows)
    THEN <<FrameResize>> \o Number(columns) \o Number(rows) ELSE <<>>

Init ==
    /\ term = "starting" /\ frame = <<>> /\ at = "idle" /\ did = <<"none">>
    /\ out = [read |-> 0, held |-> 0, sent |-> 0, got |-> 0]

StartPTY == term = "starting" /\ term' = "running" /\ UNCHANGED <<frame, at, did, out>>
Closes == term # "closed" /\ term' = "closed" /\ UNCHANGED <<frame, at, did, out>>

----------------------------------------------------------------------------
(* session.message: callbacks come one after the other. Each that does not *)
(* succeed ends in t.close.                                                *)

Message ==
    /\ at = "idle"
    /\ \E data \in Frame \cup {EncodeResize(c, r) : c \in Sizes, r \in Sizes} :
        /\ frame' = data
        /\ IF data \in {Text, <<>>} \/ Len(data) > MaxFrame
           THEN did' = <<"rejected">> /\ at' = "idle" /\ term' = "closed"
           ELSE IF term # "running"
           THEN did' = <<"unavailable">> /\ at' = "idle" /\ term' = "closed"
           ELSE did' = <<"none">> /\ at' = "act" /\ term' = term
    /\ UNCHANGED out

Does(what) == did' = what /\ UNCHANGED term
Rejects == did' = <<"rejected">> /\ term' = "closed"

\* Mutant of Fits: 1000 is rejected.
FitsBelow(size) == size[1] \in 1..999 /\ size[2] \in 1..999

Fits(size) == size[1] \in 1..1000 /\ size[2] \in 1..1000

\* The PTY may have been closed since: then the write, or Setsize, fails.
Acts ==
    /\ at = "act" /\ at' = "idle"
    /\ \/ /\ frame[1] = FramePTY
          /\ IF term = "running" THEN Does(<<"written">>) ELSE Does(<<"unavailable">>)
       \/ /\ frame[1] = FrameResize
          /\ IF Len(frame) # 5 THEN Rejects
             ELSE LET size == <<Uint16(Tail(frame)), Uint16(SubSeq(frame, 4, 5))>> IN
                  IF ~Fits(size) THEN Rejects
                  ELSE IF term = "running" THEN Does(size) ELSE Does(<<"unavailable">>)
       \/ frame[1] \notin {FramePTY, FrameResize} /\ Rejects
    /\ UNCHANGED <<frame, out>>

----------------------------------------------------------------------------
(* copyOutput.                                                             *)

\* Mutant of ReadsOutput: the buffer is as long as a frame.
ReadsFrame ==
    /\ term # "starting" /\ out.held = 0
    /\ \E n \in 1..MaxFrame :
        /\ out.read + n <= MaxOutput
        /\ out' = [out EXCEPT !.read = @ + n, !.held = n]
    /\ UNCHANGED <<term, frame, at, did>>

ReadsOutput ==
    /\ term # "starting" /\ out.held = 0
    /\ \E n \in 1..MaxFrame - 1 :
        /\ out.read + n <= MaxOutput
        /\ out' = [out EXCEPT !.read = @ + n, !.held = n]
    /\ UNCHANGED <<term, frame, at, did>>

\* Nothing is sent once the terminal is closed. (It may be closed between the
\* check and the call: then Send fails.)
SendsOutput ==
    /\ out.held > 0
    /\ out' = IF term = "running"
              THEN [out EXCEPT !.held = 0, !.sent = out.held + 1, !.got = @ + out.held]
              ELSE [out EXCEPT !.held = 0]
    /\ UNCHANGED <<term, frame, at, did>>

Next == StartPTY \/ Closes \/ Message \/ Acts \/ ReadsOutput \/ SendsOutput

Spec == Init /\ [][Next]_vars

----------------------------------------------------------------------------
(* Properties.                                                             *)

\* The two parsers agree: message acts on what DecodeFrame accepts in this
\* direction, and on nothing else.
ParsersAgree ==
    did \notin {<<"none">>, <<"unavailable">>} =>
        (did # <<"rejected">>) = (DecodeFrame(frame) /\ frame[1] \in {FramePTY, FrameResize})

\* A resize that EncodeResize has encoded gives the PTY just that size.
SizeAsAsked ==
    \A columns, rows \in Sizes :
        frame # <<>> /\ frame = EncodeResize(columns, rows)
            => did \in {<<"none">>, <<"unavailable">>, <<columns, rows>>}

\* A frame is never longer than the other side accepts, and until the terminal
\* is closed none of the shell's output is missing.
OutputArrives ==
    /\ out.sent <= MaxFrame
    /\ term # "closed" => out.got + out.held = out.read
=============================================================================

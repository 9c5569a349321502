---------------------------- MODULE FramesProofs ----------------------------
(***************************************************************************)
(* The data channel for every set of bytes and sizes, and every limit of   *)
(* frames of more than five bytes.  A frame that message acts on is not    *)
(* empty and not too long; the rest is how the arguments of a resize are   *)
(* cut out of it, by the agent and by DecodeFrame, and put into it, by     *)
(* EncodeResize.                                                           *)
(***************************************************************************)
EXTENDS Frames, Integers, TLAPS, SequenceTheorems

\* The frame was looked at and found to have a type and a length that is allowed.
Admitted == at = "act" => frame # <<>> /\ frame # Text /\ Len(frame) <= MaxFrame

\* The shell's output, in bytes: what was read waits or has arrived.
OutputInv ==
    /\ out \in [read : Nat, held : 0..(MaxFrame - 1), sent : 0..MaxFrame, got : Nat]
    /\ term = "starting" => out.held = 0
    /\ term # "closed" => out.got + out.held = out.read

FramesInv ==
    /\ term \in {"starting", "running", "closed"} /\ at \in {"idle", "act"}
    /\ frame \in Seq(Nat)
    /\ at = "act" => did = <<"none">>
    /\ Admitted /\ ParsersAgree /\ SizeAsAsked /\ OutputInv

\* What the assumption says of the constants' elements.
LEMMA Elements ==
    /\ \A byte \in Bytes : byte \in Nat
    /\ \A size \in Sizes : size \in Nat
    /\ MaxFrame \in Nat /\ MaxFrame > 5
<1>1. Bytes \subseteq 0..255
  BY FramesAssumption
<1>2. Sizes \subseteq Nat
  BY FramesAssumption
<1>3. MaxFrame \in Nat /\ MaxFrame > 5
  BY FramesAssumption
<1>4. \A byte \in Bytes : byte \in Nat
  BY <1>1
<1>5. \A size \in Sizes : size \in Nat
  BY <1>2
<1> QED
  BY <1>3, <1>4, <1>5

-----------------------------------------------------------------------------
(* Frames as sequences.                                                    *)

\* A frame that is put together of a type and its arguments.
LEMMA Joined ==
    ASSUME NEW type \in Nat, NEW data \in Seq(Nat)
    PROVE  <<type>> \o data \in Seq(Nat)
BY ConcatProperties

\* A size that was encoded: five bytes, from which both numbers can be read.
LEMMA Encoded ==
    ASSUME NEW columns \in Nat, NEW rows \in Nat, EncodeResize(columns, rows) # <<>>
    PROVE  LET data == EncodeResize(columns, rows)
           IN /\ Dimension(columns) /\ Dimension(rows)
              /\ data \in Seq(Nat) /\ Len(data) = 5 /\ data[1] = FrameResize
              /\ data[2] * 256 + data[3] = columns /\ data[4] * 256 + data[5] = rows
<1>1. /\ Dimension(columns) /\ Dimension(rows)
      /\ EncodeResize(columns, rows) = <<FrameResize>> \o Number(columns) \o Number(rows)
  BY DEF EncodeResize
<1>2. \A n \in Nat : /\ Number(n) \in Seq(Nat) /\ Len(Number(n)) = 2
                     /\ Number(n)[1] * 256 + Number(n)[2] = n
  <2> TAKE n \in Nat
  <2>1. n \div 256 \in Nat /\ n % 256 \in Nat
    OBVIOUS
  <2>2. n % 256 = n - 256 * (n \div 256)
    BY Z3
  <2>3. \A quotient, rest \in Nat : rest = n - 256 * quotient => quotient * 256 + rest = n
    OBVIOUS
  <2>4. (n \div 256) * 256 + (n % 256) = n
    BY <2>1, <2>2, <2>3
  <2>5. /\ Number(n) \in Seq(Nat) /\ Len(Number(n)) = 2
        /\ Number(n)[1] = n \div 256 /\ Number(n)[2] = n % 256
    BY <2>1 DEF Number
  <2> QED
    BY <2>4, <2>5
<1>3. /\ <<FrameResize>> \in Seq(Nat) /\ Len(<<FrameResize>>) = 1 /\ <<FrameResize>>[1] = FrameResize
  BY DEF FrameResize
<1> DEFINE half == <<FrameResize>> \o Number(columns)
           data == half \o Number(rows)
<1>4. /\ half \in Seq(Nat) /\ Len(half) = 3 /\ half[1] = FrameResize
      /\ half[2] = Number(columns)[1] /\ half[3] = Number(columns)[2]
  <2> DEFINE type == <<FrameResize>>
             number == Number(columns)
  <2>1. /\ type \in Seq(Nat) /\ Len(type) = 1 /\ type[1] = FrameResize
        /\ number \in Seq(Nat) /\ Len(number) = 2
    BY <1>2, <1>3
  <2> HIDE DEF type, number
  <2>2. /\ type \o number \in Seq(Nat) /\ Len(type \o number) = Len(type) + Len(number)
        /\ \A i \in 1..Len(type) + Len(number) :
              (type \o number)[i] = IF i <= Len(type) THEN type[i] ELSE number[i - Len(type)]
    BY <2>1, ConcatProperties
  <2>3. /\ type \o number \in Seq(Nat) /\ Len(type \o number) = 3
        /\ (type \o number)[1] = FrameResize
        /\ (type \o number)[2] = number[1] /\ (type \o number)[3] = number[2]
    BY <2>1, <2>2
  <2> QED
    BY <2>3 DEF type, number
<1> HIDE DEF half
<1>5. /\ data \in Seq(Nat) /\ Len(data) = 5 /\ data[1] = FrameResize
      /\ data[2] = Number(columns)[1] /\ data[3] = Number(columns)[2]
      /\ data[4] = Number(rows)[1] /\ data[5] = Number(rows)[2]
  <2> DEFINE number == Number(rows)
  <2>1. number \in Seq(Nat) /\ Len(number) = 2
    BY <1>2
  <2> HIDE DEF number
  <2>2. /\ half \o number \in Seq(Nat) /\ Len(half \o number) = Len(half) + Len(number)
        /\ \A i \in 1..Len(half) + Len(number) :
              (half \o number)[i] = IF i <= Len(half) THEN half[i] ELSE number[i - Len(half)]
    BY <1>4, <2>1, ConcatProperties
  <2>3. /\ half \o number \in Seq(Nat) /\ Len(half \o number) = 5
        /\ (half \o number)[1] = half[1] /\ (half \o number)[2] = half[2]
        /\ (half \o number)[3] = half[3]
        /\ (half \o number)[4] = number[1] /\ (half \o number)[5] = number[2]
    BY <1>4, <2>1, <2>2, SMTT(30)
  <2> QED
    BY <1>4, <2>3 DEF number
<1>6. EncodeResize(columns, rows) = data
  BY <1>1 DEF half
<1> HIDE DEF data
<1> QED
  BY <1>1, <1>2, <1>5, <1>6

\* Texts of equal bytes are sequences of numbers.
LEMMA Texts ==
    \A rest \in {<<>>, <<65>>, <<195>>, <<195, 164>>}
                     \cup {[i \in 1..n |-> 65] : n \in {4, 5, MaxFrame}} :
        rest \in Seq(Nat)
<1> SUFFICES \A rest : (\/ rest \in {<<>>, <<65>>, <<195>>, <<195, 164>>}
                        \/ rest \in {[i \in 1..n |-> 65] : n \in {4, 5, MaxFrame}})
                           => rest \in Seq(Nat)
  OBVIOUS
<1> TAKE rest
<1>1. CASE rest \in {<<>>, <<65>>, <<195>>, <<195, 164>>}
  <2>1. CASE rest = <<>>
    BY <2>1
  <2>2. CASE rest = <<65>>
    BY <2>2
  <2>3. CASE rest = <<195>>
    BY <2>3
  <2>4. CASE rest = <<195, 164>>
    BY <2>4
  <2> QED
    BY <1>1, <2>1, <2>2, <2>3, <2>4
<1>2. CASE rest \in {[i \in 1..n |-> 65] : n \in {4, 5, MaxFrame}}
  <2>1. PICK n \in {4, 5, MaxFrame} : rest = [i \in 1..n |-> 65]
    BY <1>2
  <2>2. n \in Nat
    BY Elements
  <2>3. [i \in 1..n |-> 65] \in Seq(Nat)
    BY <2>2, IsASeq
  <2> QED
    BY <2>1, <2>3
<1> QED
  BY <1>1, <1>2

\* What a browser sends is a sequence of numbers.
LEMMA Inputs ==
    \A data \in Frame \cup {EncodeResize(c, r) : c \in Sizes, r \in Sizes} : data \in Seq(Nat)
<1>1. Text \in Seq(Nat) /\ <<>> \in Seq(Nat)
  BY DEF Text
<1>2. \A type \in 0..5,
         rest \in {<<>>, <<65>>, <<195>>, <<195, 164>>}
                      \cup {[i \in 1..n |-> 65] : n \in {4, 5, MaxFrame}} :
         <<type>> \o rest \in Seq(Nat)
  <2> SUFFICES ASSUME NEW type \in 0..5, NEW rest \in Seq(Nat)
               PROVE  <<type>> \o rest \in Seq(Nat)
    BY Texts
  <2> QED
    BY Joined
<1>3. \A rest \in [1..4 -> Bytes] : <<FrameResize>> \o rest \in Seq(Nat)
  <2> TAKE rest \in [1..4 -> Bytes]
  <2>1. \A i \in 1..4 : rest[i] \in Nat
    BY Elements
  <2>2. rest = [i \in 1..4 |-> rest[i]]
    OBVIOUS
  <2>3. rest \in Seq(Nat)
    BY <2>1, <2>2, IsASeq
  <2> QED
    BY <2>3, Joined DEF FrameResize
<1>4. \A c, r \in Sizes : EncodeResize(c, r) \in Seq(Nat)
  <2> TAKE c, r \in Sizes
  <2>1. c \in Nat /\ r \in Nat
    BY Elements
  <2>2. CASE EncodeResize(c, r) # <<>>
    BY <2>1, <2>2, Encoded
  <2>3. CASE EncodeResize(c, r) = <<>>
    BY <2>3
  <2> QED
    BY <2>2, <2>3
<1>5. \A data \in Frame : data \in Seq(Nat)
  <2> DEFINE texts == {<<>>, <<65>>, <<195>>, <<195, 164>>}
                          \cup {[i \in 1..n |-> 65] : n \in {4, 5, MaxFrame}}
             plain == {<<type>> \o rest : type \in 0..5, rest \in texts}
             resizes == {<<FrameResize>> \o rest : rest \in [1..4 -> Bytes]}
  <2>1. Frame = {Text, <<>>} \cup plain \cup resizes
    BY DEF Frame
  <2>2. \A data \in resizes : data \in Seq(Nat)
    BY <1>3
  <2>3. \A data \in plain : data \in Seq(Nat)
    <3>1. \A type \in 0..5, rest \in texts : <<type>> \o rest \in Seq(Nat)
      BY <1>2
    <3> DEFINE Joins(type, rest) == <<type>> \o rest
    <3>2. plain = {Joins(type, rest) : type \in 0..5, rest \in texts}
      OBVIOUS
    <3>3. \A type \in 0..5, rest \in texts : Joins(type, rest) \in Seq(Nat)
      BY <3>1
    <3> HIDE DEF texts, plain, Joins
    <3> QED
      BY <3>2, <3>3
  <2> HIDE DEF plain, resizes
  <2> QED
    BY <1>1, <2>1, <2>2, <2>3
<1>6. \A data \in {EncodeResize(c, r) : c \in Sizes, r \in Sizes} : data \in Seq(Nat)
  BY <1>4
<1> QED
  <2> DEFINE resizes == {EncodeResize(c, r) : c \in Sizes, r \in Sizes}
  <2>1. \A data \in resizes : data \in Seq(Nat)
    BY <1>6
  <2> HIDE DEF resizes
  <2>2. \A data \in Frame \cup resizes : data \in Seq(Nat)
    BY <1>5, <2>1
  <2> QED
    BY <2>2 DEF resizes

\* The arguments of a resize, as the agent and as DecodeFrame cut them out.
LEMMA Arguments ==
    ASSUME NEW data \in Seq(Nat), data # <<>>
    PROVE  /\ Len(Tail(data)) = 4 <=> Len(data) = 5
           /\ Len(data) = 5 =>
                 /\ Uint16(Tail(data)) = data[2] * 256 + data[3]
                 /\ Uint16(SubSeq(data, 4, 5)) = data[4] * 256 + data[5]
                 /\ Uint16(SubSeq(Tail(data), 3, 4)) = data[4] * 256 + data[5]
<1> DEFINE rest == Tail(data)
<1>1. /\ rest \in Seq(Nat) /\ Len(rest) = Len(data) - 1 /\ Len(data) \in Nat
      /\ \A i \in 1..Len(rest) : rest[i] = data[i + 1]
  BY HeadTailProperties, LenProperties
<1> HIDE DEF rest
<1>2. Len(data) = 5 =>
             /\ rest[1] = data[2] /\ rest[2] = data[3] /\ rest[3] = data[4] /\ rest[4] = data[5]
             /\ SubSeq(data, 4, 5)[1] = data[4] /\ SubSeq(data, 4, 5)[2] = data[5]
             /\ SubSeq(rest, 3, 4)[1] = data[4] /\ SubSeq(rest, 3, 4)[2] = data[5]
  BY <1>1
<1> QED
  BY <1>1, <1>2 DEF Uint16, rest

-----------------------------------------------------------------------------
(* The invariant.                                                          *)

\* There is neither a frame nor output at first.
LEMMA InitFrames == Init => FramesInv
<1> SUFFICES ASSUME Init PROVE FramesInv
  OBVIOUS
<1>1. frame \in Seq(Nat) /\ Admitted /\ ParsersAgree /\ SizeAsAsked
  BY DEF Init, Admitted, ParsersAgree, SizeAsAsked
<1>2. OutputInv
  BY Elements DEF Init, OutputInv
<1> QED
  BY <1>1, <1>2 DEF Init, FramesInv

\* A frame arrives: rejected at once are those that DecodeFrame rejects for
\* their length, or that are strings.
LEMMA MessageKeeps ==
    ASSUME FramesInv, Message
    PROVE  FramesInv'
<1>1. PICK data \in Frame \cup {EncodeResize(c, r) : c \in Sizes, r \in Sizes} :
          /\ frame' = data /\ UNCHANGED out
          /\ IF data \in {Text, <<>>} \/ Len(data) > MaxFrame
             THEN did' = <<"rejected">> /\ at' = "idle" /\ term' = "closed"
             ELSE IF term # "running"
             THEN did' = <<"unavailable">> /\ at' = "idle" /\ term' = "closed"
             ELSE did' = <<"none">> /\ at' = "act" /\ term' = term
  BY DEF Message
<1>2. data \in Seq(Nat) /\ Len(data) \in Nat /\ MaxFrame \in Nat /\ MaxFrame > 5
  BY Inputs, LenProperties, Elements
<1>3. Admitted' /\ (at' = "act" => did' = <<"none">>)
  BY <1>1, <1>2 DEF Admitted, Text
<1>4. ParsersAgree'
  <2>1. ~DecodeFrame(Text)
    BY DEF DecodeFrame, Text, FramePTY, FrameResize, FrameExit, FrameError
  <2>2. data = <<>> \/ Len(data) > MaxFrame => ~DecodeFrame(data)
    BY <1>2 DEF DecodeFrame
  <2> QED
    BY <1>1, <2>1, <2>2 DEF ParsersAgree
<1>5. SizeAsAsked'
  <2> SUFFICES ASSUME NEW columns \in Sizes, NEW rows \in Sizes, data # <<>>,
                      data = EncodeResize(columns, rows)
               PROVE  did' \in {<<"none">>, <<"unavailable">>}
    BY <1>1 DEF SizeAsAsked
  <2>1. Len(data) = 5 /\ data # Text
    <3>1. columns \in Nat /\ rows \in Nat
      BY Elements
    <3>2. Len(Text) = 1
      BY DEF Text
    <3> QED
      BY <3>1, <3>2, Encoded
  <2> QED
    BY <1>1, <1>2, <2>1
<1>6. OutputInv'
  BY <1>1 DEF FramesInv, OutputInv
<1> QED
  BY <1>1, <1>2, <1>3, <1>4, <1>5, <1>6 DEF FramesInv

\* A frame is acted on.
LEMMA ActsKeeps ==
    ASSUME FramesInv, Acts
    PROVE  FramesInv'
<1>1. /\ frame \in Seq(Nat) /\ frame # <<>> /\ Len(frame) <= MaxFrame
      /\ at' = "idle" /\ UNCHANGED <<frame, out>> /\ term' \in {term, "closed"}
  BY DEF FramesInv, Admitted, Acts, Does, Rejects
<1> DEFINE size == <<Uint16(Tail(frame)), Uint16(SubSeq(frame, 4, 5))>>
<1>2. DecodeFrame(frame) /\ frame[1] \in {FramePTY, FrameResize} <=>
          \/ frame[1] = FramePTY
          \/ frame[1] = FrameResize /\ Len(frame) = 5 /\ Fits(size)
  <2>1. frame[1] = FramePTY => DecodeFrame(frame)
    BY <1>1 DEF DecodeFrame, FramePTY, FrameResize, FrameExit, FrameError
  <2>2. frame[1] = FrameResize => (DecodeFrame(frame) <=> Len(frame) = 5 /\ Fits(size))
    <3>1. frame[1] = FrameResize =>
             (DecodeFrame(frame) <=>
                 /\ Len(Tail(frame)) = 4 /\ Dimension(Uint16(Tail(frame)))
                 /\ Dimension(Uint16(SubSeq(Tail(frame), 3, 4))))
      BY <1>1 DEF DecodeFrame, FramePTY, FrameResize, FrameExit, FrameError
    <3>2. /\ Len(Tail(frame)) = 4 <=> Len(frame) = 5
          /\ Len(frame) = 5 => Uint16(SubSeq(Tail(frame), 3, 4)) = Uint16(SubSeq(frame, 4, 5))
      BY <1>1, Arguments
    <3>3. Fits(size) <=> Dimension(Uint16(Tail(frame))) /\ Dimension(Uint16(SubSeq(frame, 4, 5)))
      BY DEF Fits, Dimension
    <3> HIDE DEF size
    <3> QED
      BY <3>1, <3>2, <3>3
  <2> QED
    BY <2>1, <2>2
<1>3. \/ frame[1] = FramePTY /\ did' \in {<<"written">>, <<"unavailable">>}
      \/ /\ frame[1] = FrameResize /\ Len(frame) = 5 /\ Fits(size)
         /\ did' \in {size, <<"unavailable">>}
      \/ /\ frame[1] # FramePTY
         /\ ~(frame[1] = FrameResize /\ Len(frame) = 5 /\ Fits(size))
         /\ did' = <<"rejected">>
  BY DEF Acts, Does, Rejects, FramePTY, FrameResize
<1>4. ParsersAgree'
  <2>1. size # <<"rejected">>
    OBVIOUS
  <2> HIDE DEF size
  <2> QED
    BY <1>1, <1>2, <1>3, <2>1 DEF ParsersAgree
<1>5. SizeAsAsked'
  <2> SUFFICES ASSUME NEW columns \in Sizes, NEW rows \in Sizes, frame = EncodeResize(columns, rows)
               PROVE  did' \in {<<"none">>, <<"unavailable">>, <<columns, rows>>}
    BY <1>1 DEF SizeAsAsked
  <2>1. columns \in Nat /\ rows \in Nat
    BY Elements
  <2>2. /\ Dimension(columns) /\ Dimension(rows) /\ Len(frame) = 5 /\ frame[1] = FrameResize
        /\ frame[2] * 256 + frame[3] = columns /\ frame[4] * 256 + frame[5] = rows
    BY <1>1, <2>1, Encoded, SMTT(30)
  <2>3. size = <<columns, rows>>
    BY <1>1, <2>2, Arguments
  <2>4. Fits(<<columns, rows>>)
    BY <2>2 DEF Fits, Dimension
  <2> HIDE DEF size
  <2> QED
    BY <1>3, <2>2, <2>3, <2>4 DEF FramePTY, FrameResize
<1>6. OutputInv'
  BY <1>1 DEF FramesInv, OutputInv
<1> QED
  BY <1>1, <1>4, <1>5, <1>6 DEF FramesInv, Admitted

\* Output is read and sent, the PTY starts, or the terminal is closed.
LEMMA OutputKeeps ==
    ASSUME FramesInv, ReadsOutput \/ SendsOutput \/ StartPTY \/ Closes
    PROVE  FramesInv'
<1>1. /\ UNCHANGED <<frame, at, did>> /\ term' \in {"starting", "running", "closed"}
  BY DEF FramesInv, ReadsOutput, SendsOutput, StartPTY, Closes
<1>2. Admitted' /\ ParsersAgree' /\ SizeAsAsked'
  BY <1>1 DEF FramesInv, Admitted, ParsersAgree, SizeAsAsked
<1>3. OutputInv'
  <2>1. /\ MaxFrame \in Nat /\ MaxFrame > 5
        /\ out \in [read : Nat, held : 0..(MaxFrame - 1), sent : 0..MaxFrame, got : Nat]
        /\ term = "starting" => out.held = 0
        /\ term # "closed" => out.got + out.held = out.read
    BY Elements DEF FramesInv, OutputInv
  <2>2. CASE ReadsOutput
    <3>1. PICK n \in 1..(MaxFrame - 1) : out' = [out EXCEPT !.read = @ + n, !.held = n]
      BY <2>2 DEF ReadsOutput
    <3>2. term # "starting" /\ out.held = 0 /\ term' = term
      BY <2>2 DEF ReadsOutput
    <3>3. /\ out'.read = out.read + n /\ out'.held = n
          /\ out'.sent = out.sent /\ out'.got = out.got
          /\ out' = [read |-> out'.read, held |-> out'.held, sent |-> out'.sent, got |-> out'.got]
      BY <2>1, <3>1
    <3>4. /\ out.read \in Nat /\ out.sent \in 0..MaxFrame /\ out.got \in Nat
      BY <2>1
    <3>5. out.read + n \in Nat /\ n \in 0..(MaxFrame - 1)
      BY <2>1, <3>4
    <3>6. term' # "closed" => out'.got + out'.held = out'.read
      BY <2>1, <3>2, <3>3, <3>4
    <3>7. out' \in [read : Nat, held : 0..(MaxFrame - 1), sent : 0..MaxFrame, got : Nat]
      BY <3>3, <3>4, <3>5
    <3> QED
      BY <3>2, <3>6, <3>7 DEF OutputInv
  <2>3. CASE SendsOutput
    <3>1. /\ out.read \in Nat /\ out.held \in 0..(MaxFrame - 1)
          /\ out.sent \in 0..MaxFrame /\ out.got \in Nat
      BY <2>1
    <3>2. out.held > 0 /\ term' = term /\ term # "starting"
      BY <2>1, <2>3, <3>1 DEF SendsOutput
    <3>3. /\ out'.read = out.read /\ out'.held = 0
          /\ out' = [read |-> out'.read, held |-> out'.held, sent |-> out'.sent, got |-> out'.got]
          /\ \/ term = "running" /\ out'.sent = out.held + 1 /\ out'.got = out.got + out.held
             \/ term # "running" /\ out'.sent = out.sent /\ out'.got = out.got
      <4>1. CASE term = "running"
        BY <2>1, <2>3, <4>1 DEF SendsOutput
      <4>2. CASE term # "running"
        BY <2>1, <2>3, <4>2 DEF SendsOutput
      <4> QED
        BY <4>1, <4>2
    <3>4. out'.sent \in 0..MaxFrame /\ out'.got \in Nat
      BY <2>1, <3>1, <3>3
    <3>5. out' \in [read : Nat, held : 0..(MaxFrame - 1), sent : 0..MaxFrame, got : Nat]
      BY <2>1, <3>1, <3>3, <3>4
    <3>6. term \in {"starting", "running", "closed"}
      BY DEF FramesInv
    <3>7. term' # "closed" => out'.got + out'.held = out'.read
      BY <2>1, <3>1, <3>2, <3>3, <3>6
    <3> QED
      BY <3>2, <3>5, <3>7 DEF OutputInv
  <2>4. CASE StartPTY \/ Closes
    BY <2>1, <2>4 DEF OutputInv, StartPTY, Closes
  <2> QED
    BY <2>2, <2>3, <2>4
<1> QED
  BY <1>1, <1>2, <1>3 DEF FramesInv

\* Every step keeps the invariant.
LEMMA StepFrames == FramesInv /\ [Next]_vars => FramesInv'
<1> SUFFICES ASSUME FramesInv, [Next]_vars PROVE FramesInv'
  OBVIOUS
<1>1. CASE UNCHANGED vars
  BY <1>1 DEF vars, FramesInv, Admitted, ParsersAgree, SizeAsAsked, OutputInv
<1> QED
  BY <1>1, MessageKeeps, ActsKeeps, OutputKeeps DEF Next

\* What message admits, and where the output is, is an invariant.
THEOREM FramesInvariant == Spec => []FramesInv
BY InitFrames, StepFrames, PTL DEF Spec

\* message acts on exactly the frames that DecodeFrame accepts and that a
\* browser may send.
THEOREM OneProtocol == Spec => []ParsersAgree
<1>1. FramesInv => ParsersAgree
  BY DEF FramesInv
<1> QED
  BY <1>1, FramesInvariant, PTL

\* A resize that EncodeResize has encoded gives the PTY just that size.
THEOREM SizesSurvive == Spec => []SizeAsAsked
<1>1. FramesInv => SizeAsAsked
  BY DEF FramesInv
<1> QED
  BY <1>1, FramesInvariant, PTL

\* A frame of output fits, and none is missing until the terminal is closed.
THEOREM OutputIsWhole == Spec => []OutputArrives
<1>1. FramesInv => OutputArrives
  BY Elements DEF FramesInv, OutputInv, OutputArrives
<1> QED
  BY <1>1, FramesInvariant, PTL
=============================================================================

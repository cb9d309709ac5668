----------------------------- MODULE AsciiFrame ------------------------------
(***************************************************************************)
(* Frames of characters, common/src/ascii_frame.rs, and their form on the  *)
(* wire: serialize_frame and process_datagram of                           *)
(* client/src/ascii_renderer.rs.                                           *)
(*                                                                         *)
(* A character is its code point, a byte a number below 256.  The cell in  *)
(* column x and row y is chars[y * w + x + 1]: sequences begin at 1.       *)
(***************************************************************************)
EXTENDS Naturals, SequencesExt

CONSTANT WordBytes  \* bytes of a usize: 8 on the machines the code is for

ASSUME WordAssumption == WordBytes \in Nat \ {0}

\* What a one is worth that n bytes follow.
Place[n \in 0..WordBytes] == IF n = 0 THEN 1 ELSE 256 * Place[n - 1]

\* A usize holds numbers below this one; release builds calculate modulo it.
USIZE == Place[WordBytes]

Blank == 32  \* ' '

\* AsciiFrame::new, for sizes that are not zero.
NewFrame(w, h, default_char) ==
  [w |-> w, h |-> h, chars |-> [i \in 1..(w * h) |-> default_char]]

\* The Err of a Result: no frame has this size.
NoFrame == [w |-> 0, h |-> 0, chars |-> <<>>]

\* A prefix is overwritten; data that is too long is refused.
SetChars(frame, data) ==
  IF Len(data) > Len(frame.chars) THEN frame
  ELSE [frame EXCEPT !.chars =
          [i \in DOMAIN @ |-> IF i <= Len(data) THEN data[i] ELSE @[i]]]

\* There are 17 planes of code points.
Plane == 256 * 256
NoChar == 17 * Plane  \* no character

\* The loops that call set_char for every cell, but for the cells that get no
\* character; chars is a function over columns and rows.
SetCells(frame, chars) ==
  [frame EXCEPT !.chars =
     [i \in DOMAIN @ |->
        LET c == chars[<<(i - 1) % frame.w, (i - 1) \div frame.w>>]
        IN IF c = NoChar THEN @[i] ELSE c]]

-----------------------------------------------------------------------------
(* UTF-8.                                                                  *)

\* The code points but for surrogates.
IsChar(c) == c \in Nat /\ c < NoChar /\ (c < 55296 \/ c >= 57344)

\* A byte that continues a character, with a sextet of its code.
Continuation(sextets) == 128 + (sextets % 64)
Continues(byte) == 128 <= byte /\ byte < 192

EncodeUtf8(c) ==
  CASE c < 128   -> <<c>>
    [] 128 <= c /\ c < 2048 -> <<192 + c \div 64, Continuation(c)>>
    [] 2048 <= c /\ c < Plane ->
         <<224 + c \div 4096, Continuation(c \div 64), Continuation(c)>>
    [] Plane <= c ->
         <<240 + c \div (64 * 4096), Continuation(c \div 4096),
           Continuation(c \div 64), Continuation(c)>>

\* The bytes of the first n characters, for each n.
Encoded(chars) ==
  LET bytes[n \in 0..Len(chars)] ==
        IF n = 0 THEN <<>> ELSE bytes[n - 1] \o EncodeUtf8(chars[n])
  IN bytes

\* AsciiFrame::bytes.
Bytes(frame) == Encoded(frame.chars)[Len(frame.chars)]

\* The values of f at the numbers from 1 to n in its domain, in their order.
Gathered(f, N) ==
  LET values[n \in 0..N] ==
        IF n = 0 THEN <<>>
        ELSE IF n \in DOMAIN f THEN Append(values[n - 1], f[n])
        ELSE values[n - 1]
  IN values

\* The length of a character that begins with this byte, and its code.
Width(lead) ==
  CASE lead < 128 -> 1
    [] 192 <= lead /\ lead < 224 -> 2
    [] 224 <= lead /\ lead < 240 -> 3
    [] OTHER -> 4

CodePoint(bytes) ==
  CASE Len(bytes) = 1 -> bytes[1]
    [] Len(bytes) = 2 -> (bytes[1] % 32) * 64 + (bytes[2] % 64)
    [] Len(bytes) = 3 ->
         ((bytes[1] % 16) * 64 + (bytes[2] % 64)) * 64 + (bytes[3] % 64)
    [] OTHER ->
         (((bytes[1] % 8) * 64 + (bytes[2] % 64)) * 64 + (bytes[3] % 64)) * 64
           + (bytes[4] % 64)

\* Where characters begin: at all bytes but those that continue one.
Leads(bytes) == {i \in DOMAIN bytes : ~Continues(bytes[i])}

\* What follows the character that begins at i, and that character.
After(bytes, i) == i + Width(bytes[i])
CharAt(bytes, i) == SubSeq(bytes, i, After(bytes, i) - 1)

\* str::from_utf8: characters from the first byte to the last, none cut short
\* and each in its only encoding.
IsUtf8(bytes) ==
  /\ bytes # <<>> => 1 \in Leads(bytes)
  /\ \A i \in Leads(bytes) :
       /\ After(bytes, i) \in Leads(bytes) \cup {Len(bytes) + 1}
       /\ IsChar(CodePoint(CharAt(bytes, i)))
       /\ EncodeUtf8(CodePoint(CharAt(bytes, i))) = CharAt(bytes, i)

Invalid == <<55296>>  \* no text: a surrogate is no character

\* chars, of what from_utf8 lets pass.
FromUtf8(bytes) ==
  IF IsUtf8(bytes)
  THEN Gathered([i \in Leads(bytes) |-> CodePoint(CharAt(bytes, i))], Len(bytes))[Len(bytes)]
  ELSE Invalid

-----------------------------------------------------------------------------
(* The wire.                                                               *)

\* Mutant: a frame that ends early is taken for a smaller one.
FromBytesShort(w, h, bytes) ==
  LET text == FromUtf8(bytes)
      total == (w * h) % USIZE
  IN IF w = 0 \/ h = 0 \/ text = Invalid \/ Len(text) > total
     THEN NoFrame
     ELSE [w |-> w, h |-> h, chars |-> text]

\* Exactly w * h characters: fewer are a truncation, more a wrong size.
FromBytes(w, h, bytes) ==
  LET text == FromUtf8(bytes)
      total == (w * h) % USIZE
  IN IF w = 0 \/ h = 0 \/ text = Invalid \/ Len(text) < total \/ Len(text) > total
     THEN NoFrame
     ELSE [w |-> w, h |-> h, chars |-> text]

ToBeBytes(n) ==
  [i \in 1..WordBytes |-> (n \div Place[WordBytes - i]) % 256]

\* The number that the first n bytes are, for each n.
Numbers(bytes) ==
  LET number[n \in 0..Len(bytes)] ==
        IF n = 0 THEN 0 ELSE 256 * number[n - 1] + bytes[n]
  IN number

FromBeBytes(bytes) == Numbers(bytes)[Len(bytes)]

SerializeFrame(frame) ==
  ToBeBytes(frame.w) \o ToBeBytes(frame.h) \o Bytes(frame)

\* Mutant: height before width.
ProcessDatagramSwapped(datagram) ==
  IF Len(datagram) < 2 * WordBytes THEN NoFrame
  ELSE FromBytes(FromBeBytes(SubSeq(datagram, WordBytes + 1, 2 * WordBytes)),
                 FromBeBytes(SubSeq(datagram, 1, WordBytes)),
                 SubSeq(datagram, 2 * WordBytes + 1, Len(datagram)))

ProcessDatagram(datagram) ==
  IF Len(datagram) < 2 * WordBytes THEN NoFrame
  ELSE FromBytes(FromBeBytes(SubSeq(datagram, 1, WordBytes)),
                 FromBeBytes(SubSeq(datagram, WordBytes + 1, 2 * WordBytes)),
                 SubSeq(datagram, 2 * WordBytes + 1, Len(datagram)))

==============================================================================

----------------------------- MODULE PixelMaps -----------------------------
(***************************************************************************)
(* day1/ex_histogram/appm.cpp, which the image program reads and writes    *)
(* its pictures with: WritePPM writes a picture in one of six formats, and *)
(* ReadPPM reads such a file, written by it or by somebody else.           *)
(*                                                                         *)
(* A file is its header and its body.  The body of an ASCII format is the  *)
(* sequence of its numbers (where the lines break does not matter to       *)
(* fscanf), that of a raw format the sequence of its bytes.                *)
(***************************************************************************)
EXTENDS Integers, Sequences, SequencesExt

CONSTANTS Pictures,   (* the pictures in memory: width, height (negative   *)
                      (* for upside down) and their <<r, g, b>> in the     *)
                      (* order of the array                                *)
          Modes,      (* what callers pass for mode                        *)
          UnsetI,     (* what the local variable i of WritePPM may hold    *)
                      (* when nobody has assigned it                       *)
          NoFile      (* no file, no picture                               *)

PBM_ASCII == 1
PGM_ASCII == 2
PPM_ASCII == 3
PBM_RAW == 4
PGM_RAW == 5
PPM_RAW == 6

IsValidMode(m) == m \in 1 .. 6
RawMode(m) == m \in {PBM_RAW, PGM_RAW, PPM_RAW}
HasMax(m) == m \notin {PBM_RAW, PBM_ASCII}

Rows(p) == IF p.height < 0 THEN -p.height ELSE p.height

(* The pixels are unsigned chars.  A mode has one digit, the one that      *)
(* ReadPPM looks at.                                                       *)
ASSUME PicturesAssumption ==
  \A p \in Pictures :
    /\ p.width \in Nat /\ p.height \in Int
    /\ p.pixels \in Seq((0 .. 255) \X (0 .. 255) \X (0 .. 255))
    /\ Len(p.pixels) = p.width * Rows(p)
ASSUME ModesAssumption == Modes \subseteq Int /\ \A m \in Modes : m < 10
ASSUME UnsetAssumption == UnsetI \subseteq Int

VARIABLES picture,       (* what is to be written                          *)
          mode,          (* in which format                                *)
          unset,         (* what i held                                    *)
          row, column,   (* the loops of WritePPM: how far it has come     *)
          counter,       (* its i                                          *)
          bw,            (* the bits of a byte that is not full            *)
          file,          (* the file on the disk                           *)
          outcome,       (* how the last call ended, or "writing"          *)
          read           (* what ReadPPM returned                          *)

loopVars == <<row, column, counter, bw>>
pixelVars == <<picture, mode, unset, loopVars, file, outcome, read>>
-----------------------------------------------------------------------------
(* The pixel that the loops over y and x reach at column x of row y; a     *)
(* picture that is upside down is written from its last row.               *)
At(p, y, x) == p.pixels[(IF p.height < 0 THEN Rows(p) - 1 - y ELSE y) * p.width + x + 1]

(* All pixels in the order of the loops.                                   *)
Scan(p) == [k \in 1 .. Len(p.pixels) |-> At(p, (k - 1) \div p.width, (k - 1) % p.width)]

Mean(c) == (c[1] + c[2] + c[3]) \div 3
Dark(c) == IF Mean(c) < 128 THEN 1 ELSE 0
-----------------------------------------------------------------------------
(* A mode of the caller that is negative is refused, any other accepted.   *)
WritePPM(m) ==
  /\ outcome = "none"
  /\ mode' = m
  /\ \E n \in UnsetI : unset' = n /\ counter' = n
  /\ \/ m < 0 /\ outcome' = "GFXIO_UNSUPPORTED" /\ UNCHANGED file
     \/ m >= 0 /\ outcome' = "GFXIO_OPENERROR" /\ UNCHANGED file
     \/ /\ m >= 0 /\ outcome' = "writing"
        /\ file' = [letter |-> "P", digit |-> m, max |-> 255,
                    width |-> picture.width, height |-> Rows(picture), body |-> <<>>]
  /\ UNCHANGED <<picture, row, column, bw, read>>

(* What is printed of a pixel in the formats that print each for itself.   *)
Printed(c) ==
  CASE mode \in {PPM_ASCII, PPM_RAW} -> <<c[1], c[2], c[3]>>
    [] mode \in {PGM_ASCII, PGM_RAW} -> <<Mean(c)>>
    [] mode = PBM_ASCII -> <<Dark(c)>>
    [] OTHER -> <<>>

Emit(s) == file' = [file EXCEPT !.body = @ \o s]

(* C's i % 8, which has the sign of i.                                     *)
Rem8(n) == IF n < 0 THEN -((-n) % 8) ELSE n % 8

(* A mistake that would be easy to make, and nothing below uses: the last  *)
(* byte of a row is not shifted into place.                                *)
PackUnshifted(c) ==
  LET byte == (bw * 2 + Dark(c)) % 256
      n == counter + 1
  IN IF n % 8 = 0 \/ column + 1 = picture.width
     THEN Emit(<<byte>>) /\ bw' = 0 /\ counter' = IF n % 8 = 0 THEN n ELSE 0
     ELSE UNCHANGED file /\ bw' = byte /\ counter' = n

(* Raw PBM, eight pixels to a byte: bw collects the bits, i counts them,   *)
(* and is reset when the last byte of a row is padded.                     *)
Pack(c) ==
  LET byte == (bw * 2 + Dark(c)) % 256
      n == counter + 1
  IN \/ /\ n % 8 = 0
        /\ Emit(<<byte>>)
        /\ bw' = 0 /\ counter' = n
     \/ /\ n % 8 # 0 /\ column + 1 = picture.width
        /\ Emit(<<(byte * 2 ^ (8 - Rem8(n))) % 256>>)
        /\ bw' = 0 /\ counter' = 0
     \/ /\ n % 8 # 0 /\ column + 1 # picture.width
        /\ bw' = byte /\ counter' = n
        /\ UNCHANGED file

(* One turn of the inner loop.  (In the ASCII formats it counts in i too,  *)
(* to break the lines.)                                                    *)
WritePixel ==
  /\ outcome = "writing"
  /\ row < Rows(picture) /\ column < picture.width
  /\ LET c == At(picture, row, column)
     IN \/ mode = PBM_RAW /\ Pack(c)
        \/ mode # PBM_RAW /\ Emit(Printed(c)) /\ UNCHANGED <<bw, counter>>
  /\ \/ column + 1 = picture.width /\ column' = 0 /\ row' = row + 1
     \/ column + 1 # picture.width /\ column' = column + 1 /\ UNCHANGED row
  /\ UNCHANGED <<picture, mode, unset, outcome, read>>

Newline == 10

(* The file ends with a newline, which is a byte of the body to a reader   *)
(* of raw data.                                                            *)
WriteEnd ==
  /\ outcome = "writing"
  /\ row = Rows(picture) \/ picture.width = 0
  /\ outcome' = "GFXIO_OK"
  /\ IF RawMode(mode) THEN Emit(<<Newline>>) ELSE UNCHANGED file
  /\ UNCHANGED <<picture, mode, unset, loopVars, read>>

(* Somebody else's file: another letter, or another maximum.               *)
OtherHeader ==
  /\ outcome = "GFXIO_OK"
  /\ \E l \in {"P", "p", "Q"}, x \in {0, 100, 255, 256} :
       file' = [file EXCEPT !.letter = l, !.max = x]
  /\ outcome' = "edited"
  /\ UNCHANGED <<picture, mode, unset, loopVars, read>>
-----------------------------------------------------------------------------
(* The %d of the maximum is followed by a space in the format of fscanf,   *)
(* which skips every white space byte it meets.                            *)
Space == (9 .. 13) \cup {32}
SkipSpace(s) ==
  LET k == SelectInSeq(s, LAMBDA c : c \notin Space)
  IN IF k = 0 THEN <<>> ELSE SubSeq(s, k, Len(s))

(* fgetc, whose EOF is -1: stored as 255, and all ones to a bit test.      *)
Byte(s, k) == IF k <= Len(s) THEN s[k] ELSE 255
Grey(v) == <<v, v, v>>

(* The k-th pixel of a file.                                               *)
Pixel(f, k) ==
  LET data == IF RawMode(f.digit) /\ HasMax(f.digit) THEN SkipSpace(f.body) ELSE f.body
      x == (k - 1) % f.width
      y == (k - 1) \div f.width
      byte == Byte(f.body, y * ((f.width + 7) \div 8) + (x \div 8) + 1)
  IN CASE f.digit = PBM_RAW ->
            Grey(IF (byte \div 2 ^ (7 - (x % 8))) % 2 = 1 THEN 0 ELSE 255)
       [] f.digit = PBM_ASCII -> Grey(255 * data[k])
       [] f.digit = PGM_RAW -> Grey(Byte(data, k))
       [] f.digit = PGM_ASCII -> Grey(data[k])
       [] f.digit = PPM_RAW ->
            <<Byte(data, 3 * k - 2), Byte(data, 3 * k - 1), Byte(data, 3 * k)>>
       [] f.digit = PPM_ASCII -> <<data[3 * k - 2], data[3 * k - 1], data[3 * k]>>

(* What FatalError stops at.                                               *)
Refused(f) ==
  \/ f.letter \notin {"P", "p"} \/ ~IsValidMode(f.digit)
  \/ HasMax(f.digit) /\ ((RawMode(f.digit) /\ f.max > 255) \/ f.max <= 0)

ReadPPM ==
  /\ outcome \in {"GFXIO_OK", "edited"}
  /\ \/ /\ Refused(file)
        /\ outcome' = "exited"
        /\ UNCHANGED read
     \/ /\ ~Refused(file)
        /\ outcome' = "read"
        /\ read' = [width |-> file.width, height |-> file.height,
                    pixels |-> [k \in 1 .. file.width * file.height |-> Pixel(file, k)]]
  /\ UNCHANGED <<picture, mode, unset, loopVars, file>>
-----------------------------------------------------------------------------
PixelInit ==
  /\ picture \in Pictures
  /\ mode = 0 /\ unset = 0
  /\ row = 0 /\ column = 0 /\ counter = 0 /\ bw = 0
  /\ file = NoFile
  /\ outcome = "none"
  /\ read = NoFile

PixelNext == (\E m \in Modes : WritePPM(m)) \/ WritePixel \/ WriteEnd \/ OtherHeader \/ ReadPPM

PixelSpec == PixelInit /\ [][PixelNext]_pixelVars
-----------------------------------------------------------------------------
(* What a format keeps of a pixel.  A PBM keeps whether it is dark; read   *)
(* back, a raw one is black and white, an ASCII one is the negative.       *)
Kept(m, c) ==
  CASE m \in {PPM_ASCII, PPM_RAW} -> c
    [] m \in {PGM_ASCII, PGM_RAW} -> Grey(Mean(c))
    [] m = PBM_RAW -> Grey(255 * (1 - Dark(c)))
    [] m = PBM_ASCII -> Grey(255 * Dark(c))

(* ReadPPM reads back what WritePPM wrote, whatever the size, the          *)
(* orientation and the padding of the rows, with two exceptions.  A raw    *)
(* body that begins with a white space byte loses it to fscanf.  And a raw *)
(* PBM is right only if the unset i happens to be a natural multiple of 8. *)
RoundTrip ==
  outcome = "read" =>
    \/ RawMode(mode) /\ HasMax(mode) /\ file.body[1] \in Space
    \/ mode = PBM_RAW /\ (unset < 0 \/ unset % 8 # 0)
    \/ /\ read.width = picture.width /\ read.height = Rows(picture)
       /\ read.pixels = [k \in 1 .. Len(picture.pixels) |-> Kept(mode, Scan(picture)[k])]
=============================================================================

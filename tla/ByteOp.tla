------------------------------- MODULE ByteOp -------------------------------
(***************************************************************************)
(* The conversions of src/src/byte_op.cpp: the loops of to_base64 and      *)
(* base64_to, one step for each round, the second reading what the first   *)
(* wrote; and an integer written as bytes and read back.                   *)
(*                                                                         *)
(* A character of a text is its index in alf_base64, or LF, or Fill.  A    *)
(* byte of a text has 8 bits; a byte of an integer has Base values, so     *)
(* that TLC can count through the integers of 8 bytes.                     *)
(***************************************************************************)
EXTENDS Integers, FiniteSets, Sequences

CONSTANTS
  LineLen, \* characters of a line: 76
  Texts,   \* the byte sequences to convert
  Base     \* values of a byte of an integer: 256

ASSUME ByteOpAssumption ==
  /\ LineLen \in Nat \ {0} /\ LineLen % 4 = 0
  /\ Texts \subseteq Seq(0..255)
  /\ Base \in Nat \ {0} /\ Base % 2 = 0

LF == 64
Fill == 65

VARIABLES
  arg,       \* the arguments of the calls
  pc,
  it, i,     \* the loop's position in its input, and its round
  text,      \* ret of to_base64
  prev_byte, \* base64_to
  out,       \* ret of base64_to, or of to_bin_arr
  number     \* what bin_arr_to returns

loop == <<it, i, text, prev_byte>>
byte_vars == <<arg, pc, loop, out, number>>

Types == [bytes : {1, 2, 4, 8}, signed : BOOLEAN]

(* What a shift to the left by k bytes multiplies by. *)
Scale(k) ==
  LET b2 == Base * Base
      b4 == b2 * b2
  IN <<1, Base, b2, b2 * Base, b4, b4 * Base, b4 * b2, b4 * b2 * Base,
       b4 * b4>>[k + 1]

(* The value of type t that v is cut to. *)
Cast(t, v) ==
  LET size == Scale(t.bytes)
      u == v % size
  IN IF t.signed /\ u >= size \div 2 THEN u - size ELSE u

Values(t) == {Cast(t, v) : v \in 0..Scale(t.bytes) - 1}

(* base64_to may be asked not to insist on groups of four (strict). *)
InitText ==
  /\ pc = "encode"
  /\ arg \in [data : Texts, nl : BOOLEAN, pad : BOOLEAN, strict : BOOLEAN]

InitInteger ==
  /\ pc = "to_bin_arr"
  /\ \E t \in Types : arg \in [type : {t}, value : Values(t), little : BOOLEAN]

ByteInit ==
  /\ InitText \/ InitInteger
  /\ it = 1 /\ i = 0 /\ text = <<>> /\ prev_byte = 0
  /\ out = <<>> /\ number = 0
-----------------------------------------------------------------------------
(* to_base64 *)

(* The six bits of round n, from two neighbouring bytes. *)
Lookup(n, curr_byte, next_byte) ==
  CASE n % 4 = 0 -> curr_byte \div 4
    [] n % 4 = 1 -> (curr_byte % 4) * 16 + next_byte \div 16
    [] n % 4 = 2 -> (curr_byte % 16) * 4 + next_byte \div 64
    [] n % 4 = 3 -> curr_byte % 64

(* A mutant: the line is broken before the first character of the next. *)
Mut_LineBeforeDigit ==
  /\ pc = "encode" /\ it <= Len(arg.data)
  /\ LET next_byte == IF it < Len(arg.data) THEN arg.data[it + 1] ELSE 0
     IN text' = text \o (IF arg.nl /\ i % LineLen = 0 THEN <<LF>> ELSE <<>>)
                     \o <<Lookup(i, arg.data[it], next_byte)>>
  /\ it' = IF i % 4 = 0 THEN it ELSE it + 1
  /\ i' = i + 1
  /\ UNCHANGED <<arg, pc, prev_byte, out, number>>

EncodeRound ==
  /\ pc = "encode" /\ it <= Len(arg.data)
  /\ LET next_byte == IF it < Len(arg.data) THEN arg.data[it + 1] ELSE 0
     IN text' = Append(text, Lookup(i, arg.data[it], next_byte))
                  \o (IF arg.nl /\ (i + 1) % LineLen = 0 THEN <<LF>> ELSE <<>>)
  /\ it' = IF i % 4 = 0 THEN it ELSE it + 1
  /\ i' = i + 1
  /\ UNCHANGED <<arg, pc, prev_byte, out, number>>

UpToFour(n) == ((n + 3) \div 4) * 4

FinalSize ==
  LET bits == Len(arg.data) * 8
      padded == UpToFour((bits + 5) \div 6)
  IN padded + (IF arg.nl THEN padded \div LineLen ELSE 0)

Refuse == pc' = "refused" /\ UNCHANGED <<arg, loop, out, number>>

(* The loop is over: padding is added, and the text goes to base64_to,     *)
(* which first counts the characters that are not line feeds.              *)
EncodeEnd ==
  /\ pc = "encode" /\ it > Len(arg.data)
  /\ text' = IF arg.pad /\ Len(text) < FinalSize
             THEN text \o [k \in 1..FinalSize - Len(text) |-> Fill]
             ELSE text
  /\ pc' = "check"
  /\ it' = 1 /\ i' = 0
  /\ UNCHANGED <<arg, prev_byte, out, number>>
-----------------------------------------------------------------------------
(* base64_to *)

(* How many characters are not line feeds. *)
Symbols == Cardinality({n \in 1..Len(text) : text[n] # LF})

DecodeStart ==
  /\ pc = "check"
  /\ pc' = IF arg.strict /\ Symbols % 4 # 0 THEN "refused" ELSE "decode"
  /\ UNCHANGED <<arg, loop, out, number>>

(* A mutant: the bits kept for the next round are not masked right. *)
Mut_MaskLost ==
  /\ pc = "decode" /\ it <= Len(text) /\ text[it] # Fill
  /\ IF text[it] = LF
     THEN Refuse
     ELSE LET curr_byte == text[it] IN
          /\ out' = CASE i % 4 = 0 -> out
                      [] i % 4 = 1 -> Append(out, prev_byte * 4 + curr_byte \div 16)
                      [] i % 4 = 2 -> Append(out, prev_byte * 16 + curr_byte \div 4)
                      [] i % 4 = 3 -> Append(out, prev_byte * 64 + curr_byte)
          /\ prev_byte' = CASE i % 4 = 0 -> curr_byte
                            [] i % 4 = 1 -> curr_byte % 16
                            [] i % 4 = 2 -> curr_byte % 2
                            [] i % 4 = 3 -> prev_byte
          /\ it' = it + 1 /\ i' = i + 1
          /\ UNCHANGED <<arg, pc, text, number>>

(* Every character is looked up in the alphabet, where LF is not. *)
DecodeRound ==
  /\ pc = "decode" /\ it <= Len(text) /\ text[it] # Fill
  /\ IF text[it] = LF
     THEN Refuse
     ELSE LET curr_byte == text[it] IN
          /\ out' = CASE i % 4 = 0 -> out
                      [] i % 4 = 1 -> Append(out, prev_byte * 4 + curr_byte \div 16)
                      [] i % 4 = 2 -> Append(out, prev_byte * 16 + curr_byte \div 4)
                      [] i % 4 = 3 -> Append(out, prev_byte * 64 + curr_byte)
          /\ prev_byte' = CASE i % 4 = 0 -> curr_byte
                            [] i % 4 = 1 -> curr_byte % 16
                            [] i % 4 = 2 -> curr_byte % 4
                            [] i % 4 = 3 -> prev_byte
          /\ it' = it + 1 /\ i' = i + 1
          /\ UNCHANGED <<arg, pc, text, number>>

DecodeEnd ==
  /\ pc = "decode" /\ (it <= Len(text) => text[it] = Fill)
  /\ pc' = "done"
  /\ UNCHANGED <<arg, loop, out, number>>
-----------------------------------------------------------------------------
(* Integers *)

(* The k-th place of the array, counted from the least significant byte. *)
Place(k) == IF arg.little THEN k + 1 ELSE arg.type.bytes - k

to_bin_arr ==
  /\ pc = "to_bin_arr"
  /\ out' = [p \in 1..arg.type.bytes |->
               LET k == IF arg.little THEN p - 1 ELSE arg.type.bytes - p
               IN (arg.value \div Scale(k)) % Base]
  /\ pc' = "bin_arr_to"
  /\ UNCHANGED <<arg, loop, number>>

(* uint32_t, little endian: the byte is shifted before it is widened. *)
ShiftsTheByte == arg.type = [bytes |-> 4, signed |-> FALSE] /\ arg.little

(* A mutant: a signed byte is widened with its sign. *)
Mut_SignExtended(k) == IF arg.type.signed /\ out[Place(k)] >= Base \div 2
                       THEN (out[Place(k)] - Base) * Scale(k)
                       ELSE out[Place(k)] * Scale(k)

(* The k-th term of the sum. *)
Term(k) ==
  LET shifted == out[Place(k)] * Scale(k)
  IN IF ShiftsTheByte THEN shifted % Base ELSE shifted

(* A sum for each width. *)
Sum ==
  LET pair(k) == Term(k) + Term(k + 1)
      four(k) == pair(k) + pair(k + 2)
  IN CASE arg.type.bytes = 1 -> Term(0)
       [] arg.type.bytes = 2 -> pair(0)
       [] arg.type.bytes = 4 -> four(0)
       [] arg.type.bytes = 8 -> four(0) + four(4)

bin_arr_to ==
  /\ pc = "bin_arr_to"
  /\ number' = Cast(arg.type, Sum)
  /\ pc' = "read"
  /\ UNCHANGED <<arg, loop, out>>

ByteNext ==
  \/ EncodeRound \/ EncodeEnd
  \/ DecodeStart \/ DecodeRound \/ DecodeEnd
  \/ to_bin_arr \/ bin_arr_to

ByteSpec == ByteInit /\ [][ByteNext]_byte_vars
-----------------------------------------------------------------------------
(* RFC 4648: the bits of the bytes in order, cut into groups of six, the   *)
(* last one completed with zeros.                                          *)
Weight == <<128, 64, 32, 16, 8, 4, 2, 1>>

Bit(n) ==
  IF n \div 8 < Len(arg.data)
  THEN (arg.data[n \div 8 + 1] \div Weight[(n % 8) + 1]) % 2
  ELSE 0

Sextet(k) ==
  LET b == 6 * (k - 1)
  IN 32 * Bit(b) + 16 * Bit(b + 1) + 8 * Bit(b + 2)
       + 4 * Bit(b + 3) + 2 * Bit(b + 4) + Bit(b + 5)

Sextets == (Len(arg.data) * 8 + 5) \div 6

OfText == pc \in {"encode", "check", "decode", "done", "refused"}

(* Where the k-th character is: behind the line feeds of the lines that    *)
(* are full of sextets; there is none in the padding.                      *)
Position(k) ==
  k + (IF ~arg.nl THEN 0
       ELSE (IF k <= Sextets THEN k - 1 ELSE Sextets) \div LineLen)

(* The line feeds to_base64 has put into the text are one for each full    *)
(* line of sextets; its size allows one more when padding fills the last.  *)
PaddingFillsLine ==
  arg.nl /\ UpToFour(Sextets) \div LineLen > Sextets \div LineLen

(* "Base64 Converter based on RFC 4648" (byte_op.h:15): at every round the *)
(* text is the reference encoding so far, with a line feed after each full *)
(* line; at the end it has all of it, completed to groups of four when     *)
(* padding was asked for.  How much padding a text gets where padding      *)
(* fills a line is left to CompleteGroups, which the code breaks there.    *)
RfcText ==
  OfText =>
    /\ \A n \in 1..Len(text) :
         text[n] = LF <=> /\ arg.nl /\ n % (LineLen + 1) = 0
                          /\ n <= Sextets + Sextets \div LineLen
    /\ \A k \in 1..Symbols :
         text[Position(k)] = IF k <= Sextets THEN Sextet(k) ELSE Fill
    /\ pc # "encode" =>
         IF ~arg.pad THEN Symbols = Sextets
                     ELSE ~PaddingFillsLine => Symbols = UpToFour(Sextets)

(* "Must multiple of 4" (byte_op.cpp:39): a text with padding is made of   *)
(* complete groups.                                                        *)
CompleteGroups == pc = "check" /\ arg.pad => Symbols % 4 = 0

(* What to_base64 wrote base64_to reads back, byte for byte, or refuses:   *)
(* exactly when there is a line feed in it, or when it insists on groups   *)
(* of four and they are not complete.                                      *)
RoundTrip ==
  LET refusable == \/ arg.nl /\ Sextets >= LineLen
                   \/ arg.strict /\ Symbols % 4 # 0
  IN /\ pc = "done" => out = arg.data /\ ~refusable
     /\ pc = "refused" => refusable

(* An integer is read back as it was written, for every type, value and    *)
(* byte order but one, which EveryTypeReadsBack is about.                  *)
ReadsBack == pc = "read" /\ ~ShiftsTheByte => number = arg.value

(* "Binary Converter to integral types" (byte_op.h:21): the same for all   *)
(* of them.                                                                *)
EveryTypeReadsBack == pc = "read" => number = arg.value
=============================================================================

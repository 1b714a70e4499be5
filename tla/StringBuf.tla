----------------------------- MODULE StringBuf ------------------------------
(***************************************************************************)
(* The String and the SimpleString of eqp_string.c.  A String is a block   *)
(* of bytes that grows to powers of two, of which the first `length` are   *)
(* the text; the byte behind them is to be a null, so that the block is a  *)
(* C string as well.  The module has one String and one SimpleString, and  *)
(* each action is one call.                                                *)
(***************************************************************************)
EXTENDS Bits, Sequences

CONSTANTS
  Chars,       \* what texts and files are made of
  MaxInput,    \* bound: the longest text or file one call is given
  MaxLength    \* bound: the longest text; longer ones stay below 2^31 in the code

Null == "null"      \* the byte 0
Junk == "junk"      \* a byte nobody has written

ASSUME StringAssumption ==
  /\ MaxInput \in Nat \ {0} /\ MaxLength \in Nat
  /\ MaxLength < 2 ^ (Width - 1)
  /\ Null \notin Chars

VARIABLES
  data,        \* the bytes of the block; <<>> stands for the NULL pointer
  length, capacity,
  simple,      \* the SimpleString: its length and the bytes behind that
  asked, answer    \* the last call on the String and its answer

strVars == <<data, length, capacity, simple, asked, answer>>

Inputs == UNION {[1 .. n -> Chars] : n \in 1 .. MaxInput}

\* the text up to the first null byte, as every function of C reads it
CString(bytes) ==
  LET ends == {i \in DOMAIN bytes : bytes[i] = Null}
  IN IF ends = {} THEN bytes ELSE SubSeq(bytes, 1, Min(ends) - 1)

Text == SubSeq(data, 1, length)

StrInit ==
  /\ data = <<>> /\ length = 0 /\ capacity = 0
  /\ simple = [length |-> 0, bytes |-> <<Null>>]
  /\ asked = <<"init", 0>> /\ answer = "ERR_None"

Asked(op, arg, rc) == asked' = <<op, arg>> /\ answer' = rc

\* memcpy of s into the bytes d behind position n, which must lie within d
Copied(d, n, s) == [i \in DOMAIN d |-> IF i - n \in DOMAIN s THEN s[i - n] ELSE d[i]]
Ended(d, n)     == Copied(d, n, <<Null>>)

\* mutant: malloc in the place of realloc
ResizedFresh(n) == [i \in 1 .. n |-> Junk]

\* realloc keeps the bytes that both blocks have
Resized(n) == [i \in 1 .. n |-> IF i <= Len(data) THEN data[i] ELSE Junk]

\* mutant: no byte more for the null
NeedsExact(newlen) == newlen > capacity

\* the block is too small for newlen bytes and a null
Needs(newlen) == newlen >= capacity

\* str_reserve, and the same lines of str_append: the bytes and the capacity after it
Block(newlen) ==
  IF Needs(newlen) THEN [bytes |-> Resized(Pow2GreaterThan(newlen)), cap |-> Pow2GreaterThan(newlen)]
                   ELSE [bytes |-> data, cap |-> capacity]

\* str_append with memory for it, behind the first `start` bytes
Appended(start, s) ==
  LET b == Block(start + Len(s))
  IN /\ data' = Ended(Copied(b.bytes, start, s), start + Len(s))
     /\ capacity' = b.cap
     /\ length' = start + Len(s)

\* str_append extends the text; str_set has cleared it before
Start(op) == IF op = "replace" THEN 0 ELSE length
Writers   == {"extend", "replace"}

StrAppend(op, s) ==
  /\ Start(op) + Len(s) <= MaxLength
  /\ Appended(Start(op), s)
  /\ Asked(op, s, "ERR_None")
  /\ UNCHANGED simple

\* str_append of the empty string: str_set has cleared the text all the same
StrAppendNothing(op) ==
  /\ length' = Start(op)
  /\ Asked(op, <<>>, "ERR_Invalid")
  /\ UNCHANGED <<data, capacity, simple>>

StrAppendNoMemory(op, s) ==
  /\ Needs(Start(op) + Len(s))
  /\ length' = Start(op)
  /\ Asked(op, s, "ERR_OutOfMemory")
  /\ UNCHANGED <<data, capacity, simple>>

\* the file cannot be opened, or has no length
StrFileFails(op, s) ==
  /\ length' = Start(op)
  /\ \E rc \in {"ERR_CouldNotOpen", "ERR_FileOperation"} : Asked(op, s, rc)
  /\ UNCHANGED <<data, capacity, simple>>

\* mutant: no null after an incomplete read
StrFileShortOpen(op, s, n) ==
  LET start == Start(op)
      b     == Block(start + Len(s))
  IN /\ start + Len(s) <= MaxLength
     /\ n < Len(s)
     /\ data' = Copied(b.bytes, start, SubSeq(s, 1, n))
     /\ capacity' = b.cap
     /\ length' = start
     /\ Asked(op, s, "ERR_FileOperation")
     /\ UNCHANGED simple

\* fread gives fewer bytes than ftell has promised: n of them are in the block,
\* and are cut off again
StrFileShort(op, s, n) ==
  LET start == Start(op)
      b     == Block(start + Len(s))
  IN /\ start + Len(s) <= MaxLength
     /\ n < Len(s)
     /\ data' = Ended(Copied(b.bytes, start, SubSeq(s, 1, n)), start)
     /\ capacity' = b.cap
     /\ length' = start
     /\ Asked(op, s, "ERR_FileOperation")
     /\ UNCHANGED simple

\* Nobody asks for no byte at all. (It would be realloc(data, 0), which frees the block
\* if there is one already, and is then taken for a lack of memory.)
StrReserve(n) ==
  /\ data' = Block(n).bytes /\ capacity' = Block(n).cap
  /\ Asked("reserve", n, "ERR_None")
  /\ UNCHANGED <<length, simple>>

StrReserveNoMemory(n) ==
  /\ Needs(n)
  /\ Asked("reserve", n, "ERR_OutOfMemory")
  /\ UNCHANGED <<data, length, capacity, simple>>

StrClear ==
  /\ length' = 0
  /\ Asked("truncate", 0, "ERR_None")
  /\ UNCHANGED <<data, capacity, simple>>

StrDeinit ==
  /\ data' = <<>> /\ length' = 0 /\ capacity' = 0
  /\ Asked("truncate", 0, "ERR_None")
  /\ UNCHANGED simple

(* A SimpleString is made of a text with a null behind it, or of a file, with   *)
(* room for a null that nobody writes: the byte is what the memory held.        *)
SstrCreate(s) ==
  /\ simple' = [length |-> Len(s), bytes |-> Append(s, Null)]
  /\ UNCHANGED <<data, length, capacity, asked, answer>>

SstrFromFile(s) ==
  /\ \E last \in {Null, Junk} : simple' = [length |-> Len(s), bytes |-> Append(s, last)]
  /\ UNCHANGED <<data, length, capacity, asked, answer>>

StrNext ==
  \/ \E op \in Writers, s \in Inputs :
       \/ StrAppend(op, s)
       \/ StrAppendNoMemory(op, s)
       \/ StrFileFails(op, s)
       \/ \E n \in 0 .. MaxInput : StrFileShort(op, s, n)
  \/ \E op \in Writers : StrAppendNothing(op)
  \/ \E n \in 1 .. MaxLength : StrReserve(n) \/ StrReserveNoMemory(n)
  \/ StrClear \/ StrDeinit

SstrNext == \E s \in Inputs : SstrCreate(s) \/ SstrFromFile(s)
=============================================================================

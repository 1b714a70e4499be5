------------------------------ MODULE Contents ------------------------------
(***************************************************************************)
(* What the growing buffers of EQPerf promise, String and Array alike: a   *)
(* sequence that calls extend, replace, shorten and read.  A call answers  *)
(* that it succeeded only if it did what it was asked for; one that fails  *)
(* leaves the sequence as it was, or empty if it was to replace it.        *)
(***************************************************************************)
EXTENDS Naturals, Sequences

CONSTANTS
  Elem,        \* what the sequence is made of
  MaxInput,    \* the most elements one call adds
  MaxIndex,    \* the largest index or number a call is given
  Failures     \* the answers of a call that failed

VARIABLES
  contents,
  call,        \* the last call: what it was asked for, and with what
  outcome,     \* its answer
  handed       \* the elements it handed to its caller

vars == <<contents, call, outcome, handed>>

Inputs == UNION {[1 .. n -> Elem] : n \in 1 .. MaxInput}

Init ==
  /\ contents = <<>> /\ handed = <<>>
  /\ call = <<"init", 0>> /\ outcome = "ERR_None"

Does(op, arg, c, h) ==
  /\ call' = <<op, arg>> /\ outcome' = "ERR_None"
  /\ contents' = c
  /\ handed' = h

First(n) == SubSeq(contents, 1, n)

Extend     == \E s \in Inputs : Does("extend", s, contents \o s, <<>>)
Replace    == \E s \in Inputs : Does("replace", s, s, <<>>)
Truncate   == \E n \in 0 .. MaxIndex :
  Does("truncate", n, IF n < Len(contents) THEN First(n) ELSE contents, <<>>)
ShiftLeft  == \E n \in 0 .. MaxIndex :
  Does("shift", n, SubSeq(contents, n + 1, Len(contents)), <<>>)
Overwrite  == \E i \in DOMAIN contents, e \in Elem :
  Does("set", <<i, e>>, [contents EXCEPT ![i] = e], <<>>)
PopBack    ==
  Does("pop", 0, IF contents = <<>> THEN <<>> ELSE First(Len(contents) - 1), <<>>)
\* the last element takes the place of the i-th
SwapAndPop == \E i \in DOMAIN contents :
  LET last == Len(contents)
  IN Does("swap", i, SubSeq([contents EXCEPT ![i] = contents[last]], 1, last - 1), <<>>)
Read       == \E i \in DOMAIN contents : Does("get", i, contents, <<contents[i]>>)
\* room is made, and nothing else
Reserve    == \E n \in 0 .. MaxIndex : Does("reserve", n, contents, <<>>)
\* the end of the buffer: a destructor is called for each element
End        == Does("deinit", 0, <<>>, contents)

Fail ==
  /\ outcome' \in Failures
  /\ contents' = IF call'[1] = "replace" THEN <<>> ELSE contents
  /\ handed' = <<>>

Next ==
  Extend \/ Replace \/ Truncate \/ ShiftLeft \/ Overwrite \/ PopBack
         \/ SwapAndPop \/ Read \/ Reserve \/ End \/ Fail

Spec == Init /\ [][Next]_vars
=============================================================================

----------------------------- MODULE Containers -----------------------------
(***************************************************************************)
(* The buffers of EQPerf: String and Array as implementations of Contents, *)
(* and SimpleString.  They share nothing, so a behaviour exercises one of  *)
(* them, chosen at its start.                                              *)
(***************************************************************************)
EXTENDS StringBuf, Array

VARIABLE under    \* the buffer this behaviour exercises

vars == <<strVars, arVars, under>>

Init == StrInit /\ ArrayInit /\ under \in {"String", "SimpleString", "Array"}

Next ==
  /\ UNCHANGED under
  /\ \/ under = "String" /\ StrNext /\ UNCHANGED arVars
     \/ under = "SimpleString" /\ SstrNext /\ UNCHANGED arVars
     \/ under = "Array" /\ ArrayNext /\ UNCHANGED strVars

Spec == Init /\ [][Next]_vars

-----------------------------------------------------------------------------
\* A String, whatever it went through, has a byte left for the null behind its
\* text, and neither buffer counts more than it has allocated: all that its
\* functions write lies in the block.
WithinBlock ==
  /\ Len(data) = capacity
  /\ length < capacity \/ length = 0
  /\ Len(elems) = arCapacity
  /\ count <= arCapacity

\* What str_data gives to the functions of C is the text str_length counts: after
\* each str_append, str_set and reading of a file that has succeeded, and also
\* after an append that has failed, with part of a file in the block or without,
\* if it was so before. (str_clear and a str_set that fails leave the old C string
\* behind a length of 0.)
CStringIsText ==
  [][ asked'[1] \in Writers
        => \/ CString(data') = Text'
           \/ answer' # "ERR_None" /\ (asked'[1] = "extend" => CString(data) # Text) ]_vars

StringContents ==
  INSTANCE Contents WITH
    Elem <- Chars, contents <- Text, call <- asked, outcome <- answer,
    handed <- <<>>, MaxIndex <- MaxLength,
    Failures <- {"ERR_Invalid", "ERR_OutOfMemory", "ERR_CouldNotOpen", "ERR_FileOperation"}

ArrayContents ==
  INSTANCE Contents WITH
    Elem <- Values \cup {Stale}, contents <- InUse, call <- request, outcome <- result,
    handed <- returned, MaxIndex <- MaxCount, Failures <- {"ERR_Invalid", "ERR_OutOfMemory"}

\* Both are the sequences their callers take them for. A String: text and file contents
\* are appended in the order of the calls, nothing is lost when the block moves, and a
\* call that fails adds nothing. An Array: the elements are those that were put there,
\* at the indices the calls have left them, and the destructor is called once for each.
ContentsAreKept == StringContents!Spec /\ ArrayContents!Spec
=============================================================================

-------------------------------- MODULE Lines -------------------------------
(***************************************************************************)
(* Text that arrives in pieces.  Of every two pieces, 2n-1 and 2n, the     *)
(* second ends with a newline; a read may stop between them.               *)
(***************************************************************************)
EXTENDS Integers, Sequences, SequencesExt

NoText == [lines |-> <<>>, rest |-> <<>>]

\* One more piece ends the line or is left over.
Extend(text, piece) ==
  LET line == Append(text.rest, piece)
  IN  IF piece % 2 = 0 THEN [lines |-> Append(text.lines, line), rest |-> <<>>]
      ELSE [text EXCEPT !.rest = line]

\* The lines of a text that have ended, and what comes after the last one.
Split(text) == FoldLeft(Extend, NoText, text)
=============================================================================

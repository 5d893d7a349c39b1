------------------------------- MODULE Texts -------------------------------
(***************************************************************************)
(* A text is a sequence of lines, and a line one of characters, of which   *)
(* one may stand for a whole word or number that nothing takes apart.      *)
(***************************************************************************)
EXTENDS Naturals, Sequences, SequencesExt

CONSTANT None

Split(line, sep) ==
    FoldLeft(LAMBDA parts, c : IF c = sep THEN Append(parts, <<>>)
                               ELSE Append(Front(parts), Append(Last(parts), c)),
             <<<<>>>>, line)

Words(line, sep) == SelectSeq(Split(line, sep), LAMBDA part : part # <<>>)

Join(parts, sep) ==
    FoldLeft(LAMBDA line, part : IF line = <<>> THEN part ELSE line \o <<sep>> \o part, <<>>, parts)

\* str::split_once, at the first separator: a pair, or None.
SplitOnce(line, sep) ==
    LET at == SelectInSeq(line, LAMBDA c : c = sep)
    IN  IF at = 0 THEN None ELSE <<SubSeq(line, 1, at - 1), SubSeq(line, at + 1, Len(line))>>

InOrder(set) == FoldSet(LAMBDA x, order : Append(order, x), <<>>, set)
=============================================================================

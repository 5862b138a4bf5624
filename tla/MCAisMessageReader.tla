------------------------- MODULE MCAisMessageReader -------------------------
(* Instances of AisMessageReader for TLC: the kinds of sentences sent.       *)
EXTENDS AisMessageReader

Sentence0 == [vdm |-> TRUE, columns |-> 7, numeric |-> TRUE, checksum |-> TRUE,
              total |-> 1, part |-> 1, body |-> "position"]

SinglePart == Sentence0
First == [Sentence0 EXCEPT !.total = 2, !.body = "metadata"]
Second == [Sentence0 EXCEPT !.total = 2, !.part = 2, !.body = "metadata"]
Third == [Sentence0 EXCEPT !.total = 3, !.part = 3]
Other == [Sentence0 EXCEPT !.vdm = FALSE]
OtherClass == [Sentence0 EXCEPT !.body = "unsupported"]

\* Lines that make the parser throw
SixColumns == [Sentence0 EXCEPT !.columns = 6]
Unnumbered == [Sentence0 EXCEPT !.numeric = FALSE]
Short == [Sentence0 EXCEPT !.body = "short"]

Good == {SinglePart, First, Second}
Malformed == {SixColumns, Unnumbered, Short}

NoFeed == <<>>
AnySentence == <<Good \cup {Third, Other, OtherClass} \cup Malformed>>
GoodAndLast == <<{SinglePart, First}, Good, {SinglePart, Second, OtherClass} \cup Malformed>>
=============================================================================

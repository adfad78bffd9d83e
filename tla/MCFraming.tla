------------------------------ MODULE MCFraming ------------------------------
\* Lengths are written in binary, so that a cut length is another length; one
\* payload is a header, one a blank line and one the end of a header.
EXTENDS Framing

MCPayloads == {<<Letter>>, <<BlankLine, Letter>>, <<Key, Digit(1), BlankLine>>, <<Letter, Digit(1), BlankLine, Letter>>}
=============================================================================

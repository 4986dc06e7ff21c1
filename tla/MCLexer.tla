------------------------------ MODULE MCLexer -------------------------------
(***************************************************************************)
(* Module Lexer on all short texts over an alphabet with each class of     *)
(* characters, on each operator between a word, a number or nothing and    *)
(* each character that might belong to it, and on texts with every quote   *)
(* inside every other.  The lines after a reset begin with what a stale    *)
(* lookahead or state would change.                                        *)
(***************************************************************************)
EXTENDS Lexer, SequencesExt

CONSTANT MaxLength

MCChar == {"a", "1", "sp", "nl", "sq", "dq", "bq", "bs", "#", "$", "-"}
          \cup {"&", "<", ">", "|", ";", "(", ")", "{", "}", "!"}

ShortTexts == BoundedSeq({"a", "1", "sp", "nl", "sq", "dq", "bs", "#", "&", "<", ";"}, MaxLength)

OperatorTexts ==
    {w \o s \o <<c>> : w \in {<<>>, <<"a">>, <<"1">>, <<"1", "bs", "1">>}, s \in DOMAIN Spelling,
                      c \in {"a", "sp", "#", "&", "<", ">", "|", ";", "-", "!", "}"}}

QuoteTexts ==
    {<<q, c, r, d>> \o e : q \in DOMAIN QuoteState, c \in {"sq", "dq", "bs", "nl"}, r \in DOMAIN QuoteState,
                          d \in {"$", "bq", "dq", "a"}, e \in {<<>>, <<"dq", "sp">>, <<"sq", "bs", ";">>}}

MCTexts == ShortTexts \cup OperatorTexts \cup QuoteTexts
MCLines == {<<"a", "nl">>, <<"1", ">">>, <<";", ";">>, <<"dq", "a", "dq">>}
=============================================================================

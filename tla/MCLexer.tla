------------------------------ MODULE MCLexer ------------------------------
EXTENDS Lexer

CONSTANTS MaxLength, MaxLiteral

\* Every text of MaxLength characters of any kind, and every one of MaxLiteral of the
\* characters that literals are made of.
Alphabet == {"f", "i", "n", "1", ".", "\"", "+", "=", "/", " ", "\n", "("}
LiteralAlphabet == {"1", ".", "\"", "\\"}

SeqsUpTo(set, n) == UNION {[1 .. k -> set] : k \in 0 .. n}
MCTexts == SeqsUpTo(Alphabet, MaxLength) \cup SeqsUpTo(LiteralAlphabet, MaxLiteral)
=============================================================================

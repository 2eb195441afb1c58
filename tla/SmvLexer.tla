------------------------------ MODULE SmvLexer ------------------------------
(***************************************************************************)
(* The nom lexer of smv-rs (lexer.rs): a file is read line by line, each  *)
(* line either a comment or tokens separated by white space; a token is  *)
(* the first of operator, punctuation, integer and word that matches.     *)
(*                                                                         *)
(* The text is a sequence of characters, each a one-letter string.  A     *)
(* token is a string as the parser reads it (SmvParser): an operator or   *)
(* punctuation is its own spelling, a word is the string of its letters  *)
(* (a reserved word is the keyword token of that name, any other word the *)
(* Ident of it), and an IntLiteral, whatever its value, is "0", which no  *)
(* word can be.                                                           *)
(***************************************************************************)
EXTENDS Naturals, Sequences, SequencesExt, FiniteSetsExt

Letters ==
  { "a", "b", "c", "d", "e", "f", "g", "h", "i", "j", "k", "l", "m", "n",
    "o", "p", "q", "r", "s", "t", "u", "v", "w", "x", "y", "z",
    "A", "B", "C", "D", "E", "F", "G", "H", "I", "J", "K", "L", "M", "N",
    "O", "P", "Q", "R", "S", "T", "U", "V", "W", "X", "Y", "Z" }
Digits == { "0", "1", "2", "3", "4", "5", "6", "7", "8", "9" }

(* multispace0: spaces, tabs, carriage returns and newlines. *)
Space == { " ", "\t", "\r", "\n" }

(* What a word is made of after its first letter or '_'. *)
WordChars == Letters \cup Digits \cup { "_", "." }

(* The string a sequence of characters spells. *)
Word(s) == FoldLeft(LAMBDA acc, c : acc \o c, "", s)

(* The syntax! parsers of lex_operator and lex_punctuations, in the order *)
(* of their alt.                                                          *)
OperatorTags ==
  << <<"&">>, <<"|">>, <<"x", "o", "r">>, <<"?">>, <<":", "=">>, <<"!">>,
     <<"<", "-", ">">>, <<"-", ">">> >>
PunctuationTags == << <<",">>, <<";">>, <<":">>, <<"(">>, <<")">> >>

IntToken == "0"

LexResult(q, t) == [ok |-> TRUE, pos |-> q, tok |-> t]
NoToken == [ok |-> FALSE, pos |-> 0, tok |-> ""]

(* The first position from p on whose character is not in cls. *)
RunEnd(C, p, cls) == Min({ q \in p .. Len(C) + 1 : q > Len(C) \/ C[q] \notin cls })

(* tag(t) at position p. *)
Tag(C, p, t) == p + Len(t) - 1 <= Len(C) /\ SubSeq(C, p, p + Len(t) - 1) = t

(* alt over tags: the first that matches at p. *)
AltTags(C, p, tags) ==
  LET m == { i \in DOMAIN tags : Tag(C, p, tags[i]) }
  IN  IF m = {} THEN NoToken
      ELSE LexResult(p + Len(tags[Min(m)]), Word(tags[Min(m)]))

(* lex_integer: digit1, parsed by FromStr. *)
LexInteger(C, p) ==
  IF p <= Len(C) /\ C[p] \in Digits THEN LexResult(RunEnd(C, p, Digits), IntToken)
                                    ELSE NoToken

(* Variant of lex_reserved_ident without '.' in a word. *)
LexReservedIdentNoDot(C, p) ==
  IF p <= Len(C) /\ C[p] \in Letters \cup {"_"}
    THEN LET q == RunEnd(C, p, Letters \cup Digits \cup {"_"})
         IN  LexResult(q, Word(SubSeq(C, p, q - 1)))
    ELSE NoToken

(* lex_reserved_ident: (alpha1 | '_') followed by (alphanumeric1 | '_' |  *)
(* '.')*, that is the longest run of word characters from a letter or     *)
(* '_'; the match on reserved words maps the string to a token of the     *)
(* same name.                                                             *)
LexReservedIdent(C, p) ==
  IF p <= Len(C) /\ C[p] \in Letters \cup {"_"}
    THEN LET q == RunEnd(C, p, WordChars) IN LexResult(q, Word(SubSeq(C, p, q - 1)))
    ELSE NoToken

(* lex_token: alt((lex_operator, lex_punctuations, lex_integer,           *)
(* lex_reserved_ident)).                                                  *)
LexToken(C, p) ==
  LET op == AltTags(C, p, OperatorTags)
      pu == AltTags(C, p, PunctuationTags)
      int == LexInteger(C, p)
  IN  CASE op.ok  -> op
        [] pu.ok  -> pu
        [] int.ok -> int
        [] OTHER  -> LexReservedIdent(C, p)

(* many1(delimited(multispace0, lex_token, multispace0)) on a line L:     *)
(* where it stops and the tokens read.  A delimited that fails gives back *)
(* the white space before it.                                             *)
RECURSIVE ManyTokens(_, _, _)
MoreTokens(L, p, acc, t) ==
  IF t.ok THEN ManyTokens(L, RunEnd(L, t.pos, Space), Append(acc, t.tok))
          ELSE [pos |-> p, toks |-> acc]
ManyTokens(L, p, acc) == MoreTokens(L, p, acc, LexToken(L, RunEnd(L, p, Space)))

(* comment_line: many0(' '), "--", then the rest of the line. *)
CommentLine(L) == Tag(L, RunEnd(L, 1, {" "}), <<"-", "-">>)

LineResult(k, q, ts) == [kind |-> k, pos |-> q, toks |-> ts]

(* Variant of the tail of lex_tokens_in_line without the assert!. *)
InLineNoAssert(L, e, r) ==
  IF r.toks = << >> THEN LineResult("err", 0, << >>) ELSE LineResult("ok", e, r.toks)

(* The tail of lex_tokens_in_line once the tokens r of the line L (ending *)
(* before position e of the text) are read: many1 needs a token, and      *)
(* assert!(remain.is_empty()) panics on what is left.                     *)
InLine(L, e, r) ==
  CASE r.toks = << >>  -> LineResult("err", 0, << >>)
    [] r.pos <= Len(L) -> LineResult("panic", 0, << >>)
    [] OTHER           -> LineResult("ok", e, r.toks)

(* lex_tokens_in_line at position p: is_not("\n") takes the line, which   *)
(* is then a comment_line or tokens.                                      *)
LexTokensInLine(C, p) ==
  LET e == Min({ q \in p .. Len(C) + 1 : q > Len(C) \/ C[q] = "\n" })
      L == SubSeq(C, p, e - 1)
  IN  CASE e = p          -> LineResult("err", 0, << >>)
        [] CommentLine(L) -> LineResult("ok", e, << >>)
        [] OTHER          -> InLine(L, e, ManyTokens(L, 1, << >>))

(* many0(delimited(multispace0, lex_tokens_in_line, multispace0)), the    *)
(* tokens concatenated; where a line fails, many0 stops before its white *)
(* space, and assert!(remain.is_empty()) panics unless the text is done.  *)
RECURSIVE ManyLines(_, _, _)
MoreLines(C, p, acc, l) ==
  CASE l.kind = "ok"    -> ManyLines(C, RunEnd(C, l.pos, Space), acc \o l.toks)
    [] l.kind = "panic" -> [ok |-> FALSE, toks |-> << >>]
    [] p <= Len(C)      -> [ok |-> FALSE, toks |-> << >>]
    [] OTHER            -> [ok |-> TRUE, toks |-> acc]
ManyLines(C, p, acc) == MoreLines(C, p, acc, LexTokensInLine(C, RunEnd(C, p, Space)))

(* lex_tokens: ok is FALSE where an assert! panics. *)
LexTokens(C) == ManyLines(C, 1, << >>)

=============================================================================

----------------------------- MODULE SmvParser -----------------------------
(***************************************************************************)
(* Smv::parse of smv-rs (lib.rs): the text is lexed (SmvLexer), then read *)
(* by parse_tokens (parser.rs), a nom parser over the token stream.       *)
(* Expressions are read *)
(* by a Pratt loop over the Precedence table; atoms are literals,         *)
(* identifiers, parenthesised expressions, case ... esac and a prefix     *)
(* operator applied to an atom.  A file is MODULE main followed by any     *)
(* number of sections; the sections are added up (Smv::add) and the TRANS *)
(* list is deduplicated.                                                  *)
(*                                                                         *)
(* A token is a string: a keyword or operator of the lexer, or an         *)
(* identifier (any other string).  A parse step returns a record          *)
(* [ok, pos, val]: whether it matched, the position of the next token and *)
(* the value.  All errors are nom Errors, so alt and many0 backtrack.     *)
(***************************************************************************)
EXTENDS Naturals, Sequences, SequencesExt, TLC, SmvAst, SmvLexer

CONSTANTS
  Programs,         \* the SMV programs written, as syntax (see Text)
  WrittenPrec,      \* the operator precedences the files are written for
  RightAssoc,       \* the operators written as right associative
  Normalize(_),     \* parse_ident: leading '_' trimmed, '.' replaced by '_'
  Spellings         \* the characters of every word a program is written with

VARIABLES
  prog,    \* the program the file was written as
  text,    \* the characters of the file
  phase,   \* "read", "parsed", or "panic" (an Err unwrapped or a failed assert!)
  smv      \* the Smv parse_tokens returns, deduplicated

vars == <<prog, text, phase, smv>>

Keywords ==
  { "&", "|", "xor", "->", "<->", "!", "?", ":=", ",", ";", ":", "(", ")",
    "case", "esac", "next", "boolean", "MODULE", "DEFINE", "IVAR", "VAR",
    "CONSTANTS", "INIT", "INVAR", "TRANS", "FAIRNESS", "LTLSPEC", "TRUE",
    "FALSE", "F", "G", "U", "V", "X", "O", "S", IntToken }

PrefixOps == { "!", "next", "G", "F", "X", "O" }

(* parse_infix_op and the Precedence enum, in declaration order. *)
Precedence == ("&" :> 1) @@ ("|" :> 2) @@ ("xor" :> 3) @@ ("->" :> 4)
              @@ ("<->" :> 5) @@ ("U" :> 6) @@ ("V" :> 7) @@ ("S" :> 8)

InfixOps == DOMAIN Precedence

Tok(T, p) == IF p <= Len(T) THEN T[p] ELSE "eof"
IsIdent(T, p) == p <= Len(T) /\ T[p] \notin Keywords

OK(p, v) == [ok |-> TRUE, pos |-> p, val |-> v]
Fail == [ok |-> FALSE, pos |-> 0, val |-> "none"]

RECURSIVE ParseExpr(_, _), ParseAtom(_, _), ParsePrefix(_, _),
          ParsePratt(_, _, _), GoPrattLe(_, _, _, _), GoPratt(_, _, _, _),
          ParseCaseConds(_, _, _)

(* The tail of the paren and case arms of parse_atom_expr, given what    *)
(* the parser inside them returned.                                      *)
CloseParen(T, e) == IF e.ok /\ Tok(T, e.pos) = ")" THEN OK(e.pos + 1, e.val) ELSE Fail
Esac(T, c) ==
  IF c.val # << >> /\ Tok(T, c.pos) = "esac" THEN OK(c.pos + 1, CaseExpr(c.val)) ELSE Fail

(* parse_atom_expr: alt((literal, ident, paren, case, prefix)). *)
ParseAtom(T, p) ==
  LET t == Tok(T, p) IN
  CASE t \in {"TRUE", "FALSE"} -> OK(p + 1, LitExpr(t = "TRUE"))
    [] IsIdent(T, p) -> OK(p + 1, Ident(Normalize(t)))
    [] t = "(" -> CloseParen(T, ParseExpr(T, p + 1))
    [] t = "case" -> Esac(T, ParseCaseConds(T, p + 1, << >>))
    [] t \in PrefixOps -> ParsePrefix(T, p)
    [] OTHER -> Fail

(* The rest of a case condition once its condition c is parsed, and once *)
(* its value r is.                                                        *)
CaseValue(T, p, acc, c, r) ==
  IF r.ok /\ Tok(T, r.pos) = ";"
    THEN ParseCaseConds(T, r.pos + 1, Append(acc, <<c.val, r.val>>))
    ELSE OK(p, acc)
CaseCond(T, p, acc, c) ==
  IF c.ok /\ Tok(T, c.pos) = ":"
    THEN CaseValue(T, p, acc, c, ParseExpr(T, c.pos + 1))
    ELSE OK(p, acc)

(* many1(parse_case_condition): cond ':' expr ';', as often as it matches. *)
ParseCaseConds(T, p, acc) == CaseCond(T, p, acc, ParseExpr(T, p))

(* parse_prefix_expr: the operator applies to the next atom. *)
PrefixOf(op, a) == IF a.ok THEN OK(a.pos, PrefixExpr(op, a.val)) ELSE Fail
ParsePrefix(T, p) == PrefixOf(Tok(T, p), ParseAtom(T, p + 1))

(* Variant of go_parse_pratt_expr that continues on equal precedence. *)
GoOnLe(T, prec, t, left, r) ==
  IF r.ok THEN GoPrattLe(T, r.pos, prec, InfixExpr(t, left, r.val)) ELSE Fail
GoPrattLe(T, p, prec, left) ==
  LET t == Tok(T, p) IN
  IF t \in InfixOps /\ prec <= Precedence[t]
    THEN GoOnLe(T, prec, t, left, ParsePratt(T, p + 1, Precedence[t]))
    ELSE OK(p, left)

(* go_parse_pratt_expr: take the next infix operator while it binds      *)
(* tighter than prec; its right operand r is parsed at its own           *)
(* precedence.                                                           *)
GoOn(T, prec, t, left, r) ==
  IF r.ok THEN GoPratt(T, r.pos, prec, InfixExpr(t, left, r.val)) ELSE Fail
GoPratt(T, p, prec, left) ==
  LET t == Tok(T, p) IN
  IF t \in InfixOps /\ prec < Precedence[t]
    THEN GoOn(T, prec, t, left, ParsePratt(T, p + 1, Precedence[t]))
    ELSE OK(p, left)

PrattOf(T, prec, a) == IF a.ok THEN GoPratt(T, a.pos, prec, a.val) ELSE Fail
ParsePratt(T, p, prec) == PrattOf(T, prec, ParseAtom(T, p))

(* parse_expr: Precedence::Lowest. *)
ParseExpr(T, p) == ParsePratt(T, p, 0)

-----------------------------------------------------------------------------
(* Sections.  The Smv record of lib.rs; defines is a map from name to    *)
(* expression.                                                           *)
EmptySmv == [defines |-> << >>, vars |-> << >>, inits |-> << >>,
             trans |-> << >>, invariants |-> << >>, fairness |-> << >>,
             ltlspecs |-> << >>]

SectionOf == ("INIT" :> "inits") @@ ("TRANS" :> "trans")
             @@ ("INVAR" :> "invariants") @@ ("FAIRNESS" :> "fairness")
             @@ ("LTLSPEC" :> "ltlspecs")

(* many0(parse_expr). *)
RECURSIVE ManyExprs(_, _, _)
MoreExprs(T, p, acc, e) ==
  IF e.ok THEN ManyExprs(T, e.pos, Append(acc, e.val)) ELSE OK(p, acc)
ManyExprs(T, p, acc) == MoreExprs(T, p, acc, ParseExpr(T, p))

(* Variant of many0(parse_var) that keeps the name as lexed. *)
RECURSIVE ManyVarsRaw(_, _, _)
ManyVarsRaw(T, p, acc) ==
  IF IsIdent(T, p) /\ Tok(T, p + 1) = ":" /\ Tok(T, p + 2) = "boolean"
     /\ Tok(T, p + 3) = ";"
    THEN ManyVarsRaw(T, p + 4, Append(acc, T[p]))
    ELSE OK(p, acc)

(* many0(parse_var): ident ':' boolean ';'. *)
RECURSIVE ManyVars(_, _, _)
ManyVars(T, p, acc) ==
  IF IsIdent(T, p) /\ Tok(T, p + 1) = ":" /\ Tok(T, p + 2) = "boolean"
     /\ Tok(T, p + 3) = ";"
    THEN ManyVars(T, p + 4, Append(acc, Normalize(T[p])))
    ELSE OK(p, acc)

(* many0(parse_define): ident ':=' expr ';', inserted into a HashMap, so  *)
(* a later define of a name replaces an earlier one.                      *)
RECURSIVE ManyDefines(_, _, _)
MoreDefines(T, p, acc, e) ==
  IF IsIdent(T, p) /\ Tok(T, p + 1) = ":=" /\ e.ok /\ Tok(T, e.pos) = ";"
    THEN ManyDefines(T, e.pos + 1, (Normalize(T[p]) :> e.val) @@ acc)
    ELSE OK(p, acc)
ManyDefines(T, p, acc) == MoreDefines(T, p, acc, ParseExpr(T, p + 2))

(* alt((parse_inits, parse_vars, parse_defines, parse_trans,             *)
(* parse_invariant, parse_fairness, parse_ltlspecs)): the section with its *)
(* contents, as an Smv with only that field set.                          *)
SectionWith(f, r) == OK(r.pos, [EmptySmv EXCEPT ![f] = r.val])
ParseSection(T, p) ==
  LET t == Tok(T, p) IN
  CASE t \in DOMAIN SectionOf -> SectionWith(SectionOf[t], ManyExprs(T, p + 1, << >>))
    [] t \in {"VAR", "IVAR"} -> SectionWith("vars", ManyVars(T, p + 1, << >>))
    [] t = "DEFINE" -> SectionWith("defines", ManyDefines(T, p + 1, << >>))
    [] OTHER -> Fail

(* impl AddAssign for Smv: defines extended (rhs wins), lists appended. *)
AddSmv(a, b) ==
  [defines |-> b.defines @@ a.defines, vars |-> a.vars \o b.vars,
   inits |-> a.inits \o b.inits, trans |-> a.trans \o b.trans,
   invariants |-> a.invariants \o b.invariants,
   fairness |-> a.fairness \o b.fairness, ltlspecs |-> a.ltlspecs \o b.ltlspecs]

(* many0(alt(sections)), folded with Smv::add from Smv::default(). *)
RECURSIVE ManySections(_, _, _)
MoreSections(T, p, acc, s) ==
  IF s.ok THEN ManySections(T, s.pos, AddSmv(acc, s.val)) ELSE OK(p, acc)
ManySections(T, p, acc) == MoreSections(T, p, acc, ParseSection(T, p))

(* parse_tokens: MODULE main, the sections, and assert! that every token  *)
(* was read; an Err or a failed assert! is a panic (Smv::parse unwraps).  *)
AllRead(T, r) ==
  IF /\ Tok(T, 1) = "MODULE"
     /\ IsIdent(T, 2) /\ Normalize(T[2]) = "main"
     /\ r.pos = Len(T) + 1
    THEN r ELSE Fail
ParseTokens(T) == AllRead(T, ManySections(T, 3, EmptySmv))

(* Smv::dedup: the TRANS list without repeats, first occurrences kept. *)
Dedup(ts) ==
  FoldLeft(LAMBDA acc, t : IF Contains(acc, t) THEN acc ELSE Append(acc, t),
           << >>, ts)

-----------------------------------------------------------------------------
(* How a program is written: the tokens of an expression, parenthesised  *)
(* only where WrittenPrec and RightAssoc make it necessary.  A prefix     *)
(* operator's operand is parenthesised when it is an infix expression.    *)
RECURSIVE WriteExpr(_)
WriteExpr(e) ==
  LET Wrap(ts, need) == IF need THEN <<"(">> \o ts \o <<")">> ELSE ts
      Paren(c, need) == Wrap(WriteExpr(c), need)
      Below(c, op, sameSide) ==
        c.k = "in" /\ (WrittenPrec[c.op] < WrittenPrec[op]
                       \/ (WrittenPrec[c.op] = WrittenPrec[op] /\ sameSide))
  IN  CASE e.k = "id"  -> << e.n >>
        [] e.k = "lit" -> << IF e.v THEN "TRUE" ELSE "FALSE" >>
        [] e.k = "pre" -> << e.op >> \o Paren(e.a, e.a.k = "in")
        [] e.k = "in"  -> Paren(e.l, Below(e.l, e.op, e.op \in RightAssoc))
                          \o << e.op >>
                          \o Paren(e.r, Below(e.r, e.op, e.op \notin RightAssoc))
        [] e.k = "case" ->
             << "case" >>
             \o FlattenSeq([i \in DOMAIN e.br |->
                   WriteExpr(e.br[i][1]) \o << ":" >> \o WriteExpr(e.br[i][2]) \o << ";" >>])
             \o << "esac" >>

(* A program is a record like Smv, with defines a sequence of pairs;     *)
(* each non-empty section is written once, in a fixed order, on a line of *)
(* its own, followed by rest: tokens of a construct the parser does not  *)
(* know (or none), and by the layout of the text.                         *)
Section(kw, body) == IF body = << >> THEN << >> ELSE << << kw >> \o body >>

Lines(w) ==
  << << "MODULE", "main" >> >>
  \o Section("VAR", FlattenSeq([i \in DOMAIN w.vars |->
                               << w.vars[i], ":", "boolean", ";" >>]))
  \o Section("DEFINE", FlattenSeq([i \in DOMAIN w.defines |->
                 << w.defines[i][1], ":=" >> \o WriteExpr(w.defines[i][2]) \o << ";" >>]))
  \o Section("INIT", FlattenSeq([i \in DOMAIN w.inits |-> WriteExpr(w.inits[i])]))
  \o Section("TRANS", FlattenSeq([i \in DOMAIN w.trans |-> WriteExpr(w.trans[i])]))
  \o Section("INVAR", FlattenSeq([i \in DOMAIN w.invariants |-> WriteExpr(w.invariants[i])]))
  \o Section("FAIRNESS", FlattenSeq([i \in DOMAIN w.fairness |-> WriteExpr(w.fairness[i])]))
  \o Section("LTLSPEC", FlattenSeq([i \in DOMAIN w.ltlspecs |-> WriteExpr(w.ltlspecs[i])]))
  \o (IF w.rest = << >> THEN << >> ELSE << w.rest >>)

(* The characters of a word. *)
SpellOf == [t \in { Word(s) : s \in Spellings } |-> CHOOSE s \in Spellings : Word(s) = t]

(* The layout of a file: "tight" separates two tokens only where both    *)
(* sides are word characters, "loose" puts a space between all tokens,   *)
(* indents with a tab and ends lines with CR LF.  A comment "-- c" is on *)
(* a line of its own after MODULE main ("line") or ends that line        *)
(* ("trailing").                                                          *)
Gap(sep, t, u) ==
  IF sep = "loose" \/ (Last(SpellOf[t]) \in WordChars /\ Head(SpellOf[u]) \in WordChars)
    THEN << " " >> ELSE << >>
SpellLine(sep, l) ==
  FlattenSeq([i \in DOMAIN l |->
    (IF i = 1 THEN << >> ELSE Gap(sep, l[i - 1], l[i])) \o SpellOf[l[i]]])
Comment == << "-", "-", " ", "c" >>

Text(w) ==
  LET sep == w.layout.sep
      eol == IF sep = "loose" THEN << "\r", "\n" >> ELSE << "\n" >>
      indent == IF sep = "loose" THEN << "\t" >> ELSE << >>
      after(i) ==
        CASE i > 1 \/ w.layout.comment = "none" -> eol
          [] w.layout.comment = "line" -> eol \o << " ", " " >> \o Comment \o eol
          [] OTHER -> << " " >> \o Comment \o eol
  IN  FlattenSeq([i \in DOMAIN Lines(w) |->
        (IF i = 1 THEN << >> ELSE indent) \o SpellLine(sep, Lines(w)[i]) \o after(i)])

(* What reading the program should give: names normalised, the last     *)
(* define of a name kept, repeated TRANS expressions dropped.            *)
RECURSIVE Normalized(_)
Normalized(e) ==
  CASE e.k = "id"   -> Ident(Normalize(e.n))
    [] e.k = "lit"  -> e
    [] e.k = "pre"  -> PrefixExpr(e.op, Normalized(e.a))
    [] e.k = "in"   -> InfixExpr(e.op, Normalized(e.l), Normalized(e.r))
    [] e.k = "case" -> CaseExpr([i \in DOMAIN e.br |->
                          << Normalized(e.br[i][1]), Normalized(e.br[i][2]) >>])

NormalizedAll(es) == [i \in DOMAIN es |-> Normalized(es[i])]

FirstOccurrences(es) ==
  FlattenSeq([k \in DOMAIN es |->
    IF \E j \in 1 .. k - 1 : es[j] = es[k] THEN << >> ELSE << es[k] >>])

Expected(w) ==
  LET names == { Normalize(w.defines[i][1]) : i \in DOMAIN w.defines }
      last(n) == CHOOSE i \in DOMAIN w.defines :
                   /\ Normalize(w.defines[i][1]) = n
                   /\ \A j \in DOMAIN w.defines :
                        Normalize(w.defines[j][1]) = n => j <= i
  IN  [defines |-> [n \in names |-> Normalized(w.defines[last(n)][2])],
       vars |-> [i \in DOMAIN w.vars |-> Normalize(w.vars[i])],
       inits |-> NormalizedAll(w.inits),
       trans |-> FirstOccurrences(NormalizedAll(w.trans)),
       invariants |-> NormalizedAll(w.invariants),
       fairness |-> NormalizedAll(w.fairness),
       ltlspecs |-> NormalizedAll(w.ltlspecs)]

-----------------------------------------------------------------------------
Init ==
  /\ prog \in Programs
  /\ text = Text(prog)
  /\ phase = "read"
  /\ smv = EmptySmv

(* Smv::parse: lex_tokens with unwrap, parse_tokens with unwrap, dedup.  *)
Parsed(r) ==
  IF r.ok THEN /\ phase' = "parsed"
               /\ smv' = [r.val EXCEPT !.trans = Dedup(@)]
          ELSE /\ phase' = "panic"
               /\ UNCHANGED smv
Parse ==
  /\ phase = "read"
  /\ LET lx == LexTokens(text)
     IN  IF lx.ok THEN Parsed(ParseTokens(lx.toks))
                  ELSE phase' = "panic" /\ UNCHANGED smv
  /\ UNCHANGED <<prog, text>>

Done ==
  /\ phase # "read"
  /\ UNCHANGED vars

Next == Parse \/ Done

Spec == Init /\ [][Next]_vars /\ WF_vars(Parse)

-----------------------------------------------------------------------------
(* Types; the names parse_ident returns are normalised. *)
TypeOK ==
  /\ prog \in Programs
  /\ text \in Seq(STRING)
  /\ phase \in {"read", "parsed", "panic"}
  /\ DOMAIN smv = DOMAIN EmptySmv
  /\ \A i \in DOMAIN smv.vars : Normalize(smv.vars[i]) = smv.vars[i]
  /\ \A n \in DOMAIN smv.defines : Normalize(n) = n

(* Smv::parse reads every file as it was written: lexing and parsing     *)
(* give each section's expressions the trees the writer meant, whatever  *)
(* the spacing, line ends and comment lines, the precedence,             *)
(* associativity, prefix operators, case arms and the order and repeats   *)
(* of sections, and the defines are the last of each name.  A file with a *)
(* construct the grammar lacks, or a comment after tokens, panics rather *)
(* than being read as something else.  With WrittenPrec the code's own   *)
(* Precedence table this says that the lexer, the Pratt loop, the atoms  *)
(* and the section combinators invert the writing; with the precedences  *)
(* of the SMV language it says the code reads SMV.                        *)
ParsedAsWritten ==
  phase # "read" =>
    IF prog.rest = << >> /\ prog.layout.comment # "trailing"
      THEN phase = "parsed" /\ smv = Expected(prog)
      ELSE phase = "panic"

=============================================================================

----------------------------- MODULE FunctionScan -----------------------------
(***************************************************************************)
(* The built-in parser that finds the functions of a C source              *)
(* (c_function_parser.extract_functions): _mask blanks comments, literals  *)
(* and preprocessor lines, then one pass looks for `name ( ... ) ... {`.   *)
(*                                                                         *)
(* A text is a sequence of symbols: an identifier is one symbol, any other *)
(* symbol one character.  A step is one turn of a loop.                    *)
(***************************************************************************)
EXTENDS Naturals, Sequences, FiniteSets

CONSTANTS
  Texts,        \* the sources to be scanned
  Programs,     \* sources whose functions are known: [text, functions]
  Names,        \* identifiers without a meaning to the parser
  Wide          \* letters outside ASCII: str.isalpha holds, _IDENT_RE does not match

Keywords  == {"if"}             \* _KEYWORDS
PostParen == {"attribute"}      \* _POST_PAREN_TOKENS
TypeWords == {"struct"}         \* _TYPE_KEYWORD_RE
Words     == Names \cup Keywords \cup PostParen \cup TypeWords \cup {"namespace", "extern"}
Quotes    == {"'", "\""}
Blanks    == {"sp", "nl"}
Marks    == {"(", ")", "{", "}", ";", "=", ",", ":", "-", ">", "*", "/", "#", "\\"}
Symbols   == Words \cup Wide \cup Quotes \cup Blanks \cup Marks

ASSUME NamesAssumption == (Names \cup Wide) \cap (Quotes \cup Blanks \cup Marks) = {}

ASSUME TextsAssumption ==
  /\ Texts \subseteq Seq(Symbols)
  /\ \A p \in Programs : p.text \in Texts

VARIABLES
  text,         \* the source
  masked,       \* out of _mask, then the masked text
  phase,        \* the loop the parser is in
  i,            \* the position in text or masked, from 1
  lineStart,    \* only blanks since the start of the line (_mask)
  quote,        \* the quote of the literal _mask is in
  segStart,     \* where the current statement starts
  cand,         \* the candidate: name at .at, its parameters closed before .close,
                \* .ctor after a `:`
  spans         \* the functions found: [at, first, last]

masking  == <<lineStart, quote>>
scanning == <<segStart, cand, spans>>
vars == <<text, masked, phase, i, masking, scanning>>

N == Len(text)
Is(k, S) == k <= N /\ text[k] \in S
NoCand == [at |-> 0, close |-> 0, ctor |-> FALSE]

-----------------------------------------------------------------------------
(* _mask *)

Blanked(S) == masked' = [k \in 1..N |-> IF k \in S /\ masked[k] # "nl" THEN "sp" ELSE masked[k]]

Masks(mode) == phase = mode /\ i <= N
Stay == UNCHANGED <<text, scanning>>

MaskNewline ==
  /\ Masks("mask") /\ text[i] = "nl"
  /\ lineStart' = TRUE /\ i' = i + 1
  /\ Stay /\ UNCHANGED <<masked, phase, quote>>

MaskIndent ==
  /\ Masks("mask") /\ lineStart /\ text[i] = "sp"
  /\ i' = i + 1
  /\ Stay /\ UNCHANGED <<masked, phase, masking>>

MaskDirective ==
  /\ Masks("mask") /\ lineStart /\ text[i] = "#"
  /\ phase' = "directive"
  /\ Stay /\ UNCHANGED <<masked, i, masking>>

\* The newline at k is escaped: the last character before it that is no space is a `\`.
Continued(k) ==
  \E j \in 1..(k - 1) : text[j] = "\\" /\ \A b \in (j + 1)..(k - 1) : text[b] = "sp"

Directive ==
  /\ Masks("directive")
  /\ i' = i + 1
  /\ IF text[i] # "nl" THEN Blanked({i}) /\ UNCHANGED <<phase, lineStart>>
     ELSE IF Continued(i) THEN UNCHANGED <<masked, phase, lineStart>>
     ELSE UNCHANGED masked /\ phase' = "mask" /\ lineStart' = TRUE
  /\ Stay /\ UNCHANGED quote

\* Whatever else the loop meets is no longer the start of a line.
AtCode == /\ Masks("mask") /\ text[i] # "nl" /\ ~(lineStart /\ text[i] \in {"sp", "#"})
          /\ lineStart' = FALSE

OpensLine  == text[i] = "/" /\ Is(i + 1, {"/"})
OpensBlock == text[i] = "/" /\ Is(i + 1, {"*"})

MaskLineComment ==
  /\ AtCode /\ OpensLine
  /\ phase' = "line"
  /\ Stay /\ UNCHANGED <<masked, i, quote>>

LineComment ==
  /\ Masks("line")
  /\ IF text[i] = "nl" THEN phase' = "mask" /\ UNCHANGED <<i, masked>>
     ELSE Blanked({i}) /\ i' = i + 1 /\ UNCHANGED phase
  /\ Stay /\ UNCHANGED masking

MaskBlockComment ==
  /\ AtCode /\ OpensBlock
  /\ Blanked({i, i + 1}) /\ i' = i + 2
  /\ phase' = "block"
  /\ Stay /\ UNCHANGED quote

BlockComment ==
  /\ Masks("block")
  /\ IF text[i] = "*" /\ Is(i + 1, {"/"})
     THEN Blanked({i, i + 1}) /\ i' = i + 2 /\ phase' = "mask"
     ELSE Blanked({i}) /\ i' = i + 1 /\ UNCHANGED phase
  /\ Stay /\ UNCHANGED masking

MaskLiteral ==
  /\ AtCode /\ text[i] \in Quotes
  /\ quote' = text[i]
  /\ i' = i + 1 /\ phase' = "literal"
  /\ Stay /\ UNCHANGED masked

\* mutant: escapes are not seen
LiteralNoEscape ==
  /\ Masks("literal")
  /\ IF text[i] \in {quote, "nl"} THEN phase' = "mask" /\ UNCHANGED masked
     ELSE Blanked({i}) /\ UNCHANGED phase
  /\ i' = i + 1
  /\ Stay /\ UNCHANGED masking

\* A literal that is not closed ends with its line; the newline is passed over.
Literal ==
  /\ Masks("literal")
  /\ IF text[i] \in {quote, "nl"} THEN phase' = "mask" /\ i' = i + 1 /\ UNCHANGED masked
     ELSE IF text[i] = "\\" /\ i < N THEN Blanked({i, i + 1}) /\ i' = i + 2 /\ UNCHANGED phase
     ELSE Blanked({i}) /\ i' = i + 1 /\ UNCHANGED phase
  /\ Stay /\ UNCHANGED masking

MaskOther ==
  /\ AtCode /\ ~OpensLine /\ ~OpensBlock /\ text[i] \notin Quotes
  /\ i' = i + 1
  /\ Stay /\ UNCHANGED <<masked, phase, quote>>

MaskEnds ==
  /\ phase \in {"mask", "directive", "line", "block", "literal"} /\ i > N
  /\ phase' = "scan" /\ i' = 1
  /\ UNCHANGED <<text, masked, masking, scanning>>

-----------------------------------------------------------------------------
(* extract_functions *)

Count(S, a, b) == Cardinality({k \in a..b : masked[k] \in S})

\* _skip_balanced from position a, and _skip_ws: the position after the bracket that closes
\* the one at a, the first position that is no blank, or the end.  As sets of one element.
Closed(a, open, close) ==
  LET closes == {k \in a..N : masked[k] = close /\ Count({open}, a, k) = Count({close}, a, k)}
  IN  {k + 1 : k \in {c \in closes : \A d \in closes : c <= d}}
        \cup (IF closes = {} THEN {N + 1} ELSE {})
Braces(a) == Closed(a, "{", "}")
Parens(a) == Closed(a, "(", ")")
Unblanked(a) == {k \in a..(N + 1) : /\ k <= N => masked[k] \notin Blanks
                                    /\ \A b \in a..(k - 1) : masked[b] \in Blanks}

At(k, S) == k <= N /\ masked[k] \in S

\* The words of the statement before position i.
Segment == SelectSeq(SubSeq(masked, segStart, i - 1), LAMBDA s : s \notin Blanks)
Occurs(S) == \E k \in DOMAIN Segment : Segment[k] \in S

\* _TRANSPARENT_RE and _is_type_body
Transparent == \/ Segment = <<"namespace">>
               \/ Len(Segment) = 2 /\ Segment[1] = "namespace" /\ Segment[2] \in Words
               \/ Segment = <<"extern", "\"", "\"">>
TypeBody    == ~Occurs({"="}) /\ Occurs(TypeWords)

Scans == phase = "scan" /\ i <= N
Keep == UNCHANGED <<text, masked, masking>>

EndStatement ==
  /\ Scans /\ masked[i] \in {";", "}"}
  /\ segStart' = i + 1 /\ i' = i + 1
  /\ Keep /\ UNCHANGED <<phase, cand, spans>>

OpenBlock ==
  /\ Scans /\ masked[i] = "{"
  /\ \E end \in IF Transparent \/ TypeBody THEN {i + 1} ELSE Braces(i) :
       segStart' = end /\ i' = end
  /\ Keep /\ UNCHANGED <<phase, cand, spans>>

\* `name (` starts a candidate.
Identifier ==
  /\ Scans /\ masked[i] \in Words
  /\ \E after \in Unblanked(i + 1) :
       IF ~At(after, {"("}) \/ masked[i] \in Keywords
       THEN i' = i + 1 /\ UNCHANGED <<phase, cand>>
       ELSE \E close \in Parens(after) :
              /\ cand' = [at |-> i, close |-> close, ctor |-> FALSE]
              /\ i' = close /\ phase' = "candidate"
  /\ Keep /\ UNCHANGED <<segStart, spans>>

\* The assertion that an identifier matches fails.
Raise ==
  /\ phase \in {"scan", "candidate"} /\ At(i, Wide)
  /\ phase' = "error"
  /\ Keep /\ UNCHANGED <<i, scanning>>

Other ==
  /\ Scans /\ masked[i] \notin Words \cup Wide \cup {";", "{", "}"}
  /\ i' = i + 1
  /\ Keep /\ UNCHANGED <<phase, scanning>>

Tries == phase = "candidate" /\ i <= N
Reject(k) == phase' = "scan" /\ i' = k /\ cand' = NoCand

TryBlank ==
  /\ Tries /\ masked[i] \in Blanks
  /\ i' = i + 1
  /\ Keep /\ UNCHANGED <<phase, scanning>>

\* mutant: the next statement does not start after the body
AcceptKeepsStart ==
  /\ Tries /\ masked[i] = "{"
  /\ \E end \in Braces(i), sig \in Unblanked(segStart) :
       /\ spans' = spans \cup {[at |-> cand.at, first |-> IF sig <= cand.at THEN sig ELSE cand.at,
                                last |-> end - 1]}
       /\ i' = end
  /\ phase' = "scan" /\ cand' = NoCand
  /\ Keep /\ UNCHANGED segStart

\* A body: the function is from the start of the statement to the closing brace.
Accept ==
  /\ Tries /\ masked[i] = "{"
  /\ \E end \in Braces(i), sig \in Unblanked(segStart) :
       /\ spans' = spans \cup {[at |-> cand.at, first |-> IF sig <= cand.at THEN sig ELSE cand.at,
                                last |-> end - 1]}
       /\ i' = end /\ segStart' = end
  /\ phase' = "scan" /\ cand' = NoCand
  /\ Keep

\* mutant: the `;` that ends a declaration is skipped
RejectPast ==
  /\ Tries /\ masked[i] \in {";", "=", ","}
  /\ ~(masked[i] = "," /\ cand.ctor)
  /\ Reject(i + 1)
  /\ Keep /\ UNCHANGED <<segStart, spans>>

RejectHere ==
  /\ Tries /\ masked[i] \in {";", "=", ","}
  /\ ~(masked[i] = "," /\ cand.ctor)
  /\ Reject(i)
  /\ Keep /\ UNCHANGED <<segStart, spans>>

\* mutant: a `=` is passed over, too
TryPastDefault ==
  /\ Tries
  /\ \/ masked[i] \in {",", "="} /\ i' = i + 1 /\ UNCHANGED cand
     \/ masked[i] = ":" /\ i' = i + 1 /\ cand' = [cand EXCEPT !.ctor = TRUE]
     \/ masked[i] = "-" /\ At(i + 1, {">"}) /\ i' = i + 2 /\ UNCHANGED cand
  /\ Keep /\ UNCHANGED <<phase, segStart, spans>>

\* `,` and `:` of an initializer list, `->` of a trailing return type
TryPast ==
  /\ Tries
  /\ \/ masked[i] = "," /\ cand.ctor /\ i' = i + 1 /\ UNCHANGED cand
     \/ masked[i] = ":" /\ i' = i + 1 /\ cand' = [cand EXCEPT !.ctor = TRUE]
     \/ masked[i] = "-" /\ At(i + 1, {">"}) /\ i' = i + 2 /\ UNCHANGED cand
  /\ Keep /\ UNCHANGED <<phase, segStart, spans>>

\* A word with parentheses is an attribute, an initializer or the next candidate.
TryWord ==
  /\ Tries /\ masked[i] \in Words
  /\ \E after \in Unblanked(i + 1) :
       IF ~At(after, {"("}) THEN i' = i + 1 /\ UNCHANGED <<phase, cand>>
       ELSE IF masked[i] \in PostParen \/ cand.ctor
       THEN i' \in Parens(after) /\ UNCHANGED <<phase, cand>>
       ELSE Reject(i)
  /\ Keep /\ UNCHANGED <<segStart, spans>>

RejectOther ==
  /\ Tries
  /\ masked[i] \notin Words \cup Wide \cup Blanks \cup {"{", ";", "=", ",", ":"}
  /\ ~(masked[i] = "-" /\ At(i + 1, {">"}))
  /\ Reject(IF masked[i] = "}" THEN i ELSE i + 1)
  /\ Keep /\ UNCHANGED <<segStart, spans>>

\* mutant: go on at the name
RejectAtEndAgain ==
  /\ phase = "candidate" /\ i > N
  /\ Reject(cand.at)
  /\ Keep /\ UNCHANGED <<segStart, spans>>

\* The text ends before the candidate is decided: go on after its parameters.
RejectAtEnd ==
  /\ phase = "candidate" /\ i > N
  /\ Reject(cand.close)
  /\ Keep /\ UNCHANGED <<segStart, spans>>

ScanEnds ==
  /\ phase = "scan" /\ i > N
  /\ phase' = "done"
  /\ Keep /\ UNCHANGED <<i, scanning>>

-----------------------------------------------------------------------------

Init ==
  /\ text \in Texts
  /\ masked = text
  /\ phase = "mask" /\ i = 1
  /\ lineStart = TRUE /\ quote = "'"
  /\ segStart = 1 /\ cand = NoCand /\ spans = {}

Mask ==
  \/ MaskNewline \/ MaskIndent \/ MaskDirective \/ Directive
  \/ MaskLineComment \/ LineComment \/ MaskBlockComment \/ BlockComment
  \/ MaskLiteral \/ Literal \/ MaskOther \/ MaskEnds

Scan ==
  \/ EndStatement \/ OpenBlock \/ Identifier \/ Raise \/ Other
  \/ TryBlank \/ Accept \/ RejectHere \/ TryPast \/ TryWord \/ RejectOther \/ RejectAtEnd
  \/ ScanEnds

Next == Mask \/ Scan

Spec == Init /\ [][Next]_vars
FairSpec == Spec /\ WF_vars(Next)

-----------------------------------------------------------------------------
(* The lexical structure of C, as far as comments, directives and literals go *)

\* A `\` at the end of a line, which may be followed by blanks (as GCC has it and _mask),
\* continues the line: C deletes it and the newline before it looks for anything else.
Spliced(k) == \E b \in {m \in 1..k : text[m] = "\\"} : \E e \in k..N :
                text[e] = "nl" /\ \A m \in (b + 1)..(e - 1) : text[m] = "sp"

\* What is left of the text goes on with c after position k.
Follows(k, c) == \E m \in (k + 1)..N : /\ text[m] = c /\ ~Spliced(m)
                                       /\ \A b \in (k + 1)..(m - 1) : Spliced(b)

\* A lexical state: what the line is so far (a comment is as good as a blank), the token in it
\* that is still open, and whether the next symbol of a literal is escaped.
State(line, token) == [line |-> line, token |-> token, escaped |-> FALSE]
LineStart == State("start", "none")

\* Outside of comments and literals.
LexesToken(line, k) ==
  LET c == text[k]
      rest == IF line = "start" THEN "code" ELSE line
  IN  IF c = "sp" THEN State(line, "none")
      ELSE IF c = "#" /\ line = "start" THEN State("directive", "none")
      ELSE IF c = "/" /\ Follows(k, "/") THEN State(line, "line")
      ELSE IF c = "/" /\ Follows(k, "*") THEN State(line, "open")
      ELSE IF c \in Quotes THEN State(rest, c)
      ELSE State(rest, "none")

\* Inside of a literal.
LexesLiteral(s, c) ==
  IF ~s.escaped /\ c = s.token THEN State(s.line, "none")
  ELSE [State(s.line, s.token) EXCEPT !.escaped = ~s.escaped /\ c = "\\"]

\* What follows state s with the symbol at position k...
Lexes(s, k) ==
  LET c == text[k] IN
  IF Spliced(k) THEN s
  ELSE IF c = "nl" /\ s.token # "block" THEN LineStart
  ELSE CASE s.token = "none"  -> LexesToken(s.line, k)
         [] s.token = "line"  -> s
         [] s.token = "open"  -> State(s.line, "block")
         [] s.token = "block" -> IF c = "*" /\ Follows(k, "/") THEN State(s.line, "close") ELSE s
         [] s.token = "close" -> State(s.line, "none")
         [] s.token \in Quotes -> LexesLiteral(s, c)

\* ...and what a text is after its first k symbols.
Lexed[k \in 0..N] == IF k = 0 THEN LineStart ELSE Lexes(Lexed[k - 1], k)

\* What a mask should hide: comments, directives and the inside of literals.
Comment(s) == s.token \in {"line", "open", "block", "close"}
Hidden(k) ==
  LET before == Lexed[k - 1]
      after  == Lexes(before, k)
  IN  \/ after.line = "directive" \/ Comment(after) \/ before.token = "close"
      \/ before.token \in Quotes /\ (text[k] # before.token \/ before.escaped)

\* The text is no C: a literal is not closed on its line.
Unclosed == \E k \in 1..N : Lexed[k - 1].token \in Quotes /\ text[k] = "nl" /\ ~Spliced(k)

\* Only blanks are before position k on its line of the source.
Indented(k) == \A b \in 1..(k - 1) : text[b] # "sp" => \E e \in b..(k - 1) : text[e] = "nl"

\* Where _mask does not do what C does:
Departs(k) ==
  LET s == Lexed[k - 1] IN
  \* a directive ends with its line although a comment in it goes on;
  \/ s.line = "directive" /\ s.token = "block" /\ text[k] = "nl" /\ ~Spliced(k)
  \* a `//` comment ends with its line, and `/`, `*` mark no comment, although a `\` continues;
  \/ s.line # "directive" /\ s.token \in {"line", "open", "close"} /\ Spliced(k)
  \* a literal ends with its line although a `\` continues it that is itself escaped or has
  \* blanks behind it;
  \/ /\ s.line # "directive" /\ s.token \in Quotes /\ Spliced(k)
     /\ s.escaped \/ (text[k] = "\\" /\ ~Is(k + 1, {"nl"}))
  \* a `#` behind a comment begins no directive, and one behind a `\` does.
  \/ /\ s.line # "directive" /\ s.token = "none" /\ text[k] = "#"
     /\ Indented(k) # (s.line = "start")

\* In C without such places the index arithmetic of _mask hides exactly the comments,
\* the directives and the inside of literals, and keeps newlines and length.
MaskAgrees ==
  phase \in {"done", "error"} /\ ~Unclosed /\ (\A k \in 1..N : ~Departs(k))
  => masked = [k \in 1..N |-> IF Hidden(k) /\ text[k] # "nl" THEN "sp" ELSE text[k]]

-----------------------------------------------------------------------------
(* Properties *)

\* Functions do not overlap, whatever the text: a changed line belongs to one function at
\* most (as far as lines are not shared), although candidates are given up and parts of the
\* text read again.
SpansApart ==
  /\ \A s \in spans : 1 <= s.first /\ s.first <= s.at /\ s.at < s.last /\ s.last <= N
  /\ \A s, t \in spans : s = t \/ s.last < t.first \/ t.last < s.first

\* Position k lies in parentheses that open at a or later...
Enclosed(a, k) == \E open \in a..(k - 1) : masked[open] = "(" /\ \E end \in Parens(open) : k < end

\* ...so nothing from a up to b ends a declaration or opens a body, but inside the parentheses
\* of an attribute or an initializer.
Decides(k) == masked[k] \in {";", "=", "{", "}"}
Undecided(a, b) == \A k \in a..(b - 1) : Decides(k) => Enclosed(a, k)

\* A candidate named at a: a word that is no keyword, whose parameters close before c.
Declares(a, c) ==
  /\ masked[a] \in Words \ Keywords
  /\ \E open \in Unblanked(a + 1) : At(open, {"("}) /\ c \in Parens(open)

\* Whatever the text, malformed or not: what is found does not begin with a blank, and is a
\* name with parameters, then nothing that ends the declaration, then a body up to the brace
\* that closes it (or to the end of the text).
SpansAreFunctions ==
  \A s \in spans :
    /\ masked[s.first] \notin Blanks
    /\ \E body \in s.at..s.last :
         /\ masked[body] = "{" /\ s.last + 1 \in Braces(body)
         /\ \E c \in s.at..body : Declares(s.at, c) /\ Undecided(c, body)

\* The parser finds functions, and finds them apart.
FunctionsAreSound == SpansAreFunctions /\ SpansApart

\* In well-formed sources the functions found are those there are, each from the first word
\* of its statement to the closing brace: declarations, initializers, blocks that are looked
\* into and macro calls before a function do not hide or invent one.
FindsAll == phase = "done" => \A p \in Programs : p.text = text => spans = p.functions

\* Every text is scanned to its end, or the parser raises.
ScanTerminates == <>(phase \in {"done", "error"})

\* "returns a partial result without an exception for any input"
NeverRaises == phase # "error"

=============================================================================

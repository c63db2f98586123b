---------------------------- MODULE MCFunctionScan ----------------------------
(* Instances of FunctionScan for TLC. *)
EXTENDS FunctionScan

CONSTANTS MaxLex, MaxScan   \* lengths of the texts made of lexical and of other symbols

Upto(S, n) == UNION {[1..k -> S] : k \in 0..n}

Lexical == {"f", "sp", "nl", "#", "/", "*", "\"", "\\"}
Structure == {"f", "if", "wide", "(", ")", "{", "}", ";", "=", ":", ","}

Opened == {<<"#">>, <<"/", "/">>, <<"/", "*">>, <<"\"">>}

-----------------------------------------------------------------------------
(* Well-formed sources, put together from parts *)

Part(t, F) == [text |-> t, functions |-> F]

Shifted(F, d) == {[at |-> s.at + d, first |-> s.first + d, last |-> s.last + d] : s \in F}
Then(p, q) == Part(p.text \o q.text, p.functions \cup Shifted(q.functions, Len(p.text)))

\* f ( ) { f ( ) ; { } }
Plain == Part(<<"f", "(", ")", "{", "f", "(", ")", ";", "{", "}", "}">>,
              {[at |-> 1, first |-> 1, last |-> 11]})
\* g nl f ( g ) attribute ( ( ) ) { }
Modified == Part(<<"g", "nl", "f", "(", "g", ")", "attribute", "(", "(", ")", ")", "{", "}">>,
                 {[at |-> 3, first |-> 1, last |-> 13]})
\* f ( ) : g ( ) , g ( ) { }
Constructor == Part(<<"f", "(", ")", ":", "g", "(", ")", ",", "g", "(", ")", "{", "}">>,
                    {[at |-> 1, first |-> 1, last |-> 13]})
\* f ( ) - > g { }
Trailing == Part(<<"f", "(", ")", "-", ">", "g", "{", "}">>,
                 {[at |-> 1, first |-> 1, last |-> 8]})
\* g ( ) nl g f ( ) { } : a macro call without a semicolon
AfterMacro == Part(<<"g", "(", ")", "nl", "g", "f", "(", ")", "{", "}">>,
                   {[at |-> 6, first |-> 1, last |-> 10]})
Functions == {Plain, Modified, Constructor, Trailing, AfterMacro}

\* f ( ) ;   struct g = { f ( ) { } } ;   f * f = " f ( ) { " ;   // f ( ) { nl
\* nl sp # f \ sp nl f ( ) { nl : a macro of two lines
Others == {Part(t, {}) : t \in {
  <<"f", "(", ")", ";">>,
  <<"struct", "g", "=", "{", "f", "(", ")", "{", "}", "}", ";">>,
  <<"f", "*", "f", "=", "\"", "f", "(", ")", "{", "\"", ";">>,
  <<"/", "/", "f", "(", ")", "{", "nl">>,
  <<"nl", "sp", "#", "f", "\\", "sp", "nl", "f", "(", ")", "{", "nl">>}}

Openers == {<<"namespace", "f", "{">>, <<"extern", "\"", "f", "\"", "{">>, <<"struct", "f", "{">>}
Block(o, p) == Then(Part(o, {}), Then(p, Part(<<"}", ";">>, {})))

Items == Functions \cup Others
Sources == Items \cup {Then(p, q) : p \in Items, q \in Items}
             \cup {Block(o, p) : o \in Openers, p \in Items}
KnownPrograms == Sources \cup {Then(p, Block(o, q)) : o \in Openers, p \in Items, q \in Items}
                   \cup {Then(Block(o, p), q) : o \in Openers, p \in Items, q \in Items}

\* Short texts, and short texts after the parameters of a candidate or the start of a
\* directive, a comment or a literal.
AllTexts == {p.text : p \in KnownPrograms} \cup Upto(Lexical, MaxLex) \cup Upto(Structure, MaxScan)
              \cup {<<"f", "(", ")">> \o t : t \in Upto(Structure, MaxScan)}
              \cup {o \o t : o \in Opened, t \in Upto(Lexical, MaxLex - 1)}

=============================================================================

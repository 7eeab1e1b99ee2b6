------------------------------ MODULE Headers ------------------------------
(***************************************************************************)
(* What an import finds in a file (frontend/parser.c): the functions,      *)
(* classes and object files of a header (.ph), and the functions that a    *)
(* line-by-line reading of another source file (.pc) makes out.            *)
(*                                                                         *)
(* A line has a kind, its braces in order, and declares, which says that   *)
(* it really declares a function of the file.  In a header a function line *)
(* is one with => and a parenthesis; in a source file it is any other line *)
(* with a parenthesis, be it a call; bodied says that a brace follows its  *)
(* parameters.  A construct is a struct, enum, if, return, ...  A link is  *)
(* plain if it is the bare name of a library.  The text of a parameter is  *)
(* named if it has a space in it.                                          *)
(***************************************************************************)
EXTENDS Names

\* A part of a name, between two dots or in a longer name.
Parts     == STRING \ {"."}
FullNames == Seq(Parts) \ {<<>>}

KnownTypes    == DOMAIN LetterOf \cup Pointers \cup DOMAIN InitialOf
ParamForms    == [type : KnownTypes, named : BOOLEAN]
OpenBrace     == "{"
CloseBrace    == "}"
BraceForms    == Seq({OpenBrace, CloseBrace})
FunctionLines ==
  [kind : {"function"}, name : FullNames, params : Seq(ParamForms), ret : STRING, symbol : Seq(Parts),
   braces : BraceForms, bodied : BOOLEAN, declares : BOOLEAN]
OtherLines == [kind : {"construct", "other"}, braces : BraceForms, declares : {FALSE}]
LinkLines  == [kind : {"link"}, object : STRING, plain : BOOLEAN, braces : BraceForms, declares : {FALSE}]
ClassLines ==
  [kind : {"class"}, name : Parts, methods : Seq(FunctionLines \cup OtherLines), braces : BraceForms,
   declares : {FALSE}]
FileForms ==
  [kind : {"ph", "pc"}, dir : STRING, lines : Seq(FunctionLines \cup OtherLines \cup LinkLines \cup ClassLines)]

\* What of a sequence is at the places in I, in its order.
Picked(s, I) ==
  LET picked[n \in 0 .. Len(s)] ==
        IF n = 0 THEN <<>> ELSE IF n \in I THEN Append(picked[n - 1], s[n]) ELSE picked[n - 1]
  IN  picked[Len(s)]

OfKind(s, kind) == Picked(s, {n \in DOMAIN s : s[n].kind = kind})

Entry(name, letters, symbol, ret, types) ==
  [kind |-> "function", pc |-> Mangled(name, letters), orig |-> name, symbol |-> symbol,
   ret |-> ret, params |-> types]

LettersOf(types, Of(_)) == FlattenSeq([i \in DOMAIN types |-> Of(types[i])])

\* The types of the parameters; one that is written without a name is passed over.
TypesOf(params) ==
  LET typed == Picked(params, {i \in DOMAIN params : params[i].named})
  IN  [i \in DOMAIN typed |-> typed[i].type]

\* #link: a path is taken from the directory of the file that has the line.
Linked(line, dir) == IF line.plain THEN line.object ELSE dir \o line.object

-----------------------------------------------------------------------------
(* parse_header_file                                                       *)

HeaderFunction(line) ==
  LET types == TypesOf(line.params)
  IN  Entry(line.name, LettersOf(types, Letters), line.symbol, line.ret, types)

\* A method has the object's handle in front of its parameters.
HeaderMethod(line) ==
  LET types == TypesOf(line.params)
  IN  Entry(line.name, <<"2">> \o LettersOf(types, Letters), line.symbol, line.ret, <<"long">> \o types)

HeaderClass(line) ==
  LET methods == OfKind(line.methods, "function")
  IN  [kind |-> "class", name |-> line.name, methods |-> [i \in DOMAIN methods |-> HeaderMethod(methods[i])]]

HeaderEntry(line) == IF line.kind = "class" THEN HeaderClass(line) ELSE HeaderFunction(line)

HeaderEntries(file) ==
  LET read == Picked(file.lines, {n \in DOMAIN file.lines :
                                    \/ file.lines[n].kind = "function"
                                    \/ file.lines[n].kind = "class" /\ file.lines[n].braces # <<>>})
  IN  [i \in DOMAIN read |-> HeaderEntry(read[i])]

HeaderLinks(file) ==
  LET links == OfKind(file.lines, "link")
  IN  [i \in DOMAIN links |-> Linked(links[i], file.dir)]

-----------------------------------------------------------------------------
(* parse_pc_file                                                           *)

\* The depth does not fall below zero.
DepthAfter(depth, braces) ==
  LET after[n \in 0 .. Len(braces)] ==
        IF n = 0 THEN depth
        ELSE IF braces[n] = OpenBrace THEN after[n - 1] + 1
        ELSE IF after[n - 1] = 0 THEN 0 ELSE after[n - 1] - 1
  IN  after[Len(braces)]

\* The file provides the function under the name it expects the compiler to give it.
PcFunction(line) ==
  LET types == TypesOf(line.params)
      letters == LettersOf(types, PcLetters)
  IN  Entry(line.name, letters, Mangled(line.name, letters), line.ret, types)

\* Mutant: the body of a function is not passed over.
PcLineFlat(scan, line) ==
  LET depth == DepthAfter(scan.depth, line.braces)
  IN  IF line.kind # "function" THEN [scan EXCEPT !.depth = depth]
      ELSE [scan EXCEPT !.depth = depth, !.entries = Append(@, PcFunction(line))]

\* One line: in the body of a function, in a construct that is skipped, or at the top.
PcLine(scan, line) ==
  LET depth == DepthAfter(scan.depth, line.braces)
      top   == scan.at = "top"
      found == top /\ line.kind = "function"
      skip  == line.kind \in {"construct", "class"} /\ depth = 0 /\ Contains(line.braces, OpenBrace)
  IN  [scan EXCEPT !.depth   = IF found /\ line.bodied THEN 1 ELSE depth,
                   !.at      = CASE ~top                   -> IF depth = 0 THEN "top" ELSE @
                                 [] found /\ line.bodied   -> "function"
                                 [] top /\ skip            -> "construct"
                                 [] OTHER                  -> "top",
                   !.entries = IF found THEN Append(@, PcFunction(line)) ELSE @,
                   !.links   = IF top /\ line.kind = "link" THEN Append(@, Linked(line, scan.dir)) ELSE @]

PcScan(file) ==
  LET scan[n \in 0 .. Len(file.lines)] ==
        IF n = 0 THEN [depth |-> 0, at |-> "top", dir |-> file.dir, entries |-> <<>>, links |-> <<>>]
        ELSE PcLine(scan[n - 1], file.lines[n])
  IN  scan[Len(file.lines)]

-----------------------------------------------------------------------------
EntriesOf(file) == IF file.kind = "pc" THEN PcScan(file).entries ELSE HeaderEntries(file)
LinksOf(file)   == IF file.kind = "pc" THEN PcScan(file).links ELSE HeaderLinks(file)
=============================================================================

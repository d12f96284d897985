------------------------------ MODULE FileObj ------------------------------
(***************************************************************************)
(* The text format everything is kept in: File::Writer, which writes       *)
(* players, accounts, zones and the time, and File::Reader, which reads    *)
(* them back (src/mud/fileobj.cc).                                         *)
(*                                                                         *)
(* A file is a sequence of symbols, each a character or a word (a run of   *)
(* letters or digits).  One behaviour writes a file, node by node, and     *)
(* reads it.                                                               *)
(***************************************************************************)
EXTENDS Naturals, Sequences, SequencesExt

CONSTANTS Texts,    \* what strings, blocks and comments may hold
          MaxNodes  \* bound: nodes written to a file

VARIABLES file,     \* the symbols written
          indent,   \* Writer::indent
          written,  \* history: the nodes written
          reading,  \* "no", "yes", "end", "error"
          pos,      \* where the reader is in the file
          nodes     \* the nodes Reader::get returned

vars == <<file, indent, written, reading, pos, nodes>>

Blank == {" ", "\n", "\t"}
Digits == {"7"}
Marks == {"{", "}", "=", ".", "[", "]", ","}
Words == {"x", "n", "t", "begin", "end", "true", "false"}

Value(t, v) == [type |-> t, val |-> v]
Node(kind, v) == [kind |-> kind, value |-> v]
NoValue == Value("none", <<>>)

-----------------------------------------------------------------------------
(* Faulty: the backslash is not escaped.                                   *)
MutEscape(s) == FlattenSeq([i \in DOMAIN s |->
    CASE s[i] = "\t" -> <<"\\", "t">> [] s[i] = "\n" -> <<"\\", "n">>
      [] s[i] = "\"" -> <<"\\", "\"">> [] s[i] = "NUL" -> <<>> [] OTHER -> <<s[i]>>])

(* EscapeString, between the quotes.                                       *)
Escape(s) == FlattenSeq([i \in DOMAIN s |->
    CASE s[i] = "\t" -> <<"\\", "t">> [] s[i] = "\n" -> <<"\\", "n">>
      [] s[i] = "\\" -> <<"\\", "\\">> [] s[i] = "\"" -> <<"\\", "\"">>
      [] s[i] = "NUL" -> <<>> [] OTHER -> <<s[i]>>])
Quoted(s) == <<"\"">> \o Escape(s) \o <<"\"">>

(* A value as Writer::attr writes it; a list joins its elements.           *)
Scalar(v) == CASE v.type = "string" -> Quoted(v.val) [] OTHER -> v.val
Shown(v) ==
    IF v.type = "list"
    THEN <<"[", " ">> \o FlattenSeq([i \in DOMAIN v.val |->
             (IF i = 1 THEN <<>> ELSE <<",", " ">>) \o Scalar(v.val[i])]) \o <<" ", "]">>
    ELSE Scalar(v)

DoIndent(n) == [i \in 1 .. 2 * n |-> " "]
Id == <<"x", ".", "x">>          \* a namespace and a name that validName accepts

(* Writer::block puts a newline behind a text that has none.               *)
Ended(s) == IF s = <<>> \/ Last(s) # "\n" THEN Append(s, "\n") ELSE s

Puts(text, n) ==
    /\ file' = file \o text
    /\ written' = Append(written, n)
    /\ UNCHANGED <<reading, pos, nodes>>

Writing == reading = "no" /\ Len(written) < MaxNodes

Attr(v) ==
    /\ Writing
    /\ Puts((IF v.type = "list" THEN <<>> ELSE DoIndent(indent)) \o Id \o <<" ", "=", " ">>
            \o Shown(v) \o <<"\n">>, Node("ATTR", v))
    /\ UNCHANGED indent

Block(s) ==
    /\ Writing
    /\ Puts(DoIndent(indent) \o Id \o <<" ", "=", " ", "%", "begin", "\n">> \o Ended(s)
            \o DoIndent(indent) \o <<"%", "end", "\n">>, Node("BLOCK", Value("string", s)))
    /\ UNCHANGED indent

Begin ==
    /\ Writing
    /\ Puts(DoIndent(indent) \o Id \o <<" ", "{", "\n">>, Node("BEGIN_UNTYPED", NoValue))
    /\ indent' = indent + 1

BeginAttr ==
    /\ Writing
    /\ Puts(DoIndent(indent) \o Id \o <<" ", "=", " ", "x", " ", "{", "\n">>,
            Node("BEGIN_TYPED", Value("string", <<"x">>)))
    /\ indent' = indent + 1

(* Callers pair end with begin.                                            *)
End ==
    /\ Writing /\ indent > 0
    /\ Puts(DoIndent(indent - 1) \o <<"}", "\n">>, Node("END", NoValue))
    /\ indent' = indent - 1

(* Writer::comment, which is no node: each line of the text gets its mark. *)
CommentText(s) ==
    DoIndent(indent) \o <<"#", " ">>
    \o FlattenSeq([i \in DOMAIN s |-> IF s[i] = "\n" THEN <<"\n">> \o DoIndent(indent) \o <<"#", " ">>
                                      ELSE <<s[i]>>]) \o <<"\n">>
Comment(s) ==
    /\ Writing /\ s # <<>>
    /\ Puts(CommentText(s), Node("COMMENT", NoValue))
    /\ UNCHANGED indent

(* Writer::close ends the file with the editor's comment line; sections    *)
(* are closed by then.  A Reader opens what was renamed into place.        *)
Close ==
    /\ reading = "no" /\ indent = 0 /\ written # <<>>
    /\ file' = file \o <<"#", " ", "x", "\n">>
    /\ reading' = "yes" /\ pos' = 1
    /\ UNCHANGED <<indent, written, nodes>>

-----------------------------------------------------------------------------
(* readToken.  A token has a type, its text and the position behind it.    *)
Tok(t, v, n) == [type |-> t, val |-> v, next |-> n]
N == Len(file)
Eol(i) == CHOOSE j \in i .. N + 1 :
    (j > N \/ file[j] = "\n") /\ \A k \in i .. j - 1 : file[k] # "\n"

(* Blanks and comments are skipped.                                        *)
Skip(from) ==
    LET f[i \in 1 .. N + 1] ==
          IF i > N THEN i
          ELSE IF file[i] \in Blank THEN f[i + 1]
          ELSE IF file[i] = "#" THEN f[IF Eol(i) > N THEN N + 1 ELSE Eol(i) + 1]
          ELSE i
    IN f[from]

(* The inside of a string, from behind its quote.                          *)
Unescape(c) == CASE c = "n" -> "\n" [] c = "t" -> "\t" [] OTHER -> c
StringToken(from) ==
    LET f[i \in 1 .. N + 2] ==
          IF i > N THEN Tok("ERROR", <<>>, i)
          ELSE CASE file[i] = "\"" -> Tok("STRING", <<>>, i + 1)
                 [] file[i] = "\n" -> Tok("ERROR", <<>>, i)
                 [] file[i] = "\\" ->
                      IF i < N /\ file[i + 1] \in {"n", "t", "\\", "\""}
                      THEN [f[i + 2] EXCEPT !.val = <<Unescape(file[i + 1])>> \o @]
                      ELSE Tok("ERROR", <<>>, i)
                 [] OTHER -> [f[i + 1] EXCEPT !.val = <<file[i]>> \o @]
    IN f[from]

(* A block, from behind its %begin: whole lines up to one that holds %end  *)
(* and blanks only.                                                        *)
BlockToken(from) ==
    LET line(i) == SubSeq(file, i, IF Eol(i) > N THEN N ELSE Eol(i))
        f[i \in 1 .. N + 2] ==
          IF i > N THEN Tok("STRING", <<>>, i)
          ELSE IF SelectSeq(line(i), LAMBDA c : c \notin Blank) = <<"%", "end">>
               THEN Tok("STRING", <<>>, Eol(i) + 1)
               ELSE [f[Eol(i) + 1] EXCEPT !.val = line(i) \o @]
    IN IF \A k \in from .. Eol(from) - 1 : file[k] \in Blank THEN f[Eol(from) + 1]
       ELSE Tok("ERROR", <<>>, from)

ReadToken(from) ==
    LET i == Skip(from)
        c == file[i]
    IN IF i > N THEN Tok("EOF", <<>>, i)
       ELSE CASE c \in Marks -> Tok(c, <<>>, i + 1)
              [] c = "\"" -> StringToken(i + 1)
              [] c \in Digits -> Tok("NUMBER", <<c>>, i + 1)
              [] c = "-" -> IF i < N /\ file[i + 1] \in Digits
                            THEN Tok("NUMBER", <<c, file[i + 1]>>, i + 2)
                            ELSE Tok("NUMBER", <<c>>, i + 1)
              [] c = "%" -> IF i < N /\ file[i + 1] = "begin" THEN BlockToken(i + 2)
                            ELSE Tok("ERROR", <<>>, i)
              [] c \in {"true", "false"} -> Tok("BOOL", <<c>>, i + 1)
              [] c \in Words \ {"true", "false"} -> Tok("NAME", <<c>>, i + 1)
              [] OTHER -> Tok("ERROR", <<>>, i)

(* setValue: a token that begins a value, and the value with what follows. *)
ScalarOf(t) == CASE t.type = "NUMBER" -> Value("int", t.val)
                 [] t.type = "BOOL"   -> Value("bool", t.val)
                 [] t.type = "STRING" -> Value("string", t.val)
                 [] OTHER             -> NoValue
Joined(v, u, rest) ==
    CASE u.type = "]" -> Tok("LIST", <<v>>, u.next)
      [] u.type = "," -> [rest EXCEPT !.val = <<v>> \o @]
      [] OTHER        -> Tok("ERROR", <<>>, u.next)
ListFrom(from) ==
    LET f[i \in 1 .. N + 1] ==
          LET Element(t) == IF ScalarOf(t) = NoValue THEN Tok("ERROR", <<>>, i)
                            ELSE LET u == ReadToken(t.next) IN Joined(ScalarOf(t), u, f[u.next])
          IN  Element(ReadToken(i))
    IN f[from]

(* Reader::get: the node that starts at a position, and where it ends; one *)
(* operator to a token, which reads the next.                              *)
Got(n, next) == [node |-> n, next |-> next]
Failed == Got(Node("ERROR", NoValue), 0)

Typed(t, brace) ==
    IF brace.type = "{" THEN Got(Node("BEGIN_TYPED", Value("string", t.val)), brace.next) ELSE Failed
Listed(l) == IF l.type = "LIST" THEN Got(Node("ATTR", Value("list", l.val)), l.next) ELSE Failed
AfterSet(t) ==
    CASE t.type = "NAME" -> Typed(t, ReadToken(t.next))
      [] t.type = "["    -> Listed(ListFrom(t.next))
      [] OTHER           -> IF ScalarOf(t) # NoValue
                            THEN Got(Node("ATTR", ScalarOf(t)), t.next) ELSE Failed
AfterName(op) ==
    CASE op.type = "{" -> Got(Node("BEGIN_UNTYPED", NoValue), op.next)
      [] op.type = "=" -> AfterSet(ReadToken(op.next))
      [] OTHER         -> Failed
AfterDot(name) ==
    IF name.type \in {"NAME", "STRING"} THEN AfterName(ReadToken(name.next)) ELSE Failed
AfterSpace(dot) == IF dot.type = "." THEN AfterDot(ReadToken(dot.next)) ELSE Failed
First(t) ==
    CASE t.type = "EOF"  -> Got(Node("EOF", NoValue), t.next)
      [] t.type = "}"    -> Got(Node("END", NoValue), t.next)
      [] t.type = "NAME" -> AfterSpace(ReadToken(t.next))
      [] OTHER           -> Failed
Get(from) == First(ReadToken(from))

ReadNext ==
    /\ reading = "yes"
    /\ LET g == Get(pos)
       IN CASE g.node.kind = "ERROR" -> reading' = "error" /\ UNCHANGED <<pos, nodes>>
            [] g.node.kind = "EOF"   -> reading' = "end" /\ UNCHANGED <<pos, nodes>>
            [] OTHER -> pos' = g.next /\ nodes' = Append(nodes, g.node) /\ UNCHANGED reading
    /\ UNCHANGED <<file, indent, written>>

-----------------------------------------------------------------------------
Scalars == [type : {"string"}, val : Texts]
           \cup {Value("int", <<"7">>), Value("int", <<"-", "7">>), Value("bool", <<"true">>)}
Lists == {Value("list", <<Value("string", s), Value("int", <<"7">>)>>) : s \in Texts}

Init ==
    /\ file = <<>> /\ indent = 0 /\ written = <<>>
    /\ reading = "no" /\ pos = 1 /\ nodes = <<>>

Next ==
    \/ \E v \in Scalars \cup Lists : Attr(v)
    \/ \E s \in Texts : Block(s) \/ Comment(s)
    \/ Begin \/ BeginAttr \/ End \/ Close \/ ReadNext

Spec == Init /\ [][Next]_vars

(* What may come back: a string loses its NUL bytes, and a block gains the *)
(* newline at its end.                                                     *)
Clean(s) == SelectSeq(s, LAMBDA c : c # "NUL")
Back(n) ==
    CASE n.kind = "BLOCK" -> Node("ATTR", Value("string", Ended(n.value.val)))
      [] n.value.type = "string" -> [n EXCEPT !.value.val = Clean(@)]
      [] n.value.type = "list" ->
           [n EXCEPT !.value.val = [i \in DOMAIN @ |-> IF @[i].type = "string"
                                                       THEN [@[i] EXCEPT !.val = Clean(@)] ELSE @[i]]]
      [] OTHER -> n

(* A block with a line that reads %end cuts itself short, as the FIXME in  *)
(* Writer::block says.                                                     *)
CutsItself(n) == n.kind = "BLOCK" /\ \E i \in 2 .. Len(n.value.val) :
    n.value.val[i - 1] = "%" /\ n.value.val[i] = "end"

(* What is written is what is read, node by node and without an error, for *)
(* any text with quotes, backslashes, line breaks or marks in it and any   *)
(* nesting (fileobj.cc:18-50, 83-400, 429-640).                            *)
RoundTrip ==
    (\A i \in DOMAIN written : ~CutsItself(written[i])) =>
        LET kept == SelectSeq(written, LAMBDA n : n.kind # "COMMENT")
            back == [i \in DOMAIN kept |-> Back(kept[i])]
        IN /\ reading # "error"
           /\ IsPrefix(nodes, back)
           /\ reading = "end" => nodes = back
============================================================================

------------------------------- MODULE Macro -------------------------------
(***************************************************************************)
(* The macro language of descriptions: MacroCompiler and macro::text       *)
(* (src/mud/macro.cc).  A text is a sequence of symbols; outside braces    *)
(* every symbol but "{" is a character, inside it is a token.  The         *)
(* compiler is a recursive descent that writes a Lua script; the script is *)
(* kept in a cache under the text, if Lua can load it, and then run.       *)
(***************************************************************************)
EXTENDS Naturals, SequencesExt

CONSTANTS Chunks,    \* pieces texts are made of
          MaxChunks  \* bound on the pieces of a text

VARIABLES source,  \* the text to be shown, None before
          script,  \* what it compiles to
          cache,   \* texts with a script in the registry
          shown,   \* how often it was asked for
          printed  \* what came out the last time: "nothing", "all", or
                   \* "part", up to where the script failed

vars == <<source, script, cache, shown, printed>>

None == <<"none">>

-----------------------------------------------------------------------------
(* The state of a compiler: the text, the place in it, the token read but  *)
(* not taken, the script so far, and how the last step went: "yes", "no",  *)
(* "throw".                                                                *)
Start(s) == [src |-> s, pos |-> 1, next |-> "none", out |-> <<>>, ok |-> "yes", errors |-> 0]

Eof(c) == c.pos > Len(c.src)
Emit(c, w) == [c EXCEPT !.out = Append(@, [w |-> w, text |-> <<>>])]
Throw(c) == [c EXCEPT !.ok = "throw"]

(* peek, accept and expect                                                 *)
Peek(c) == IF c.next # "none" THEN c
           ELSE IF Eof(c) THEN [c EXCEPT !.next = "error"]
           ELSE [c EXCEPT !.next = c.src[c.pos], !.pos = @ + 1]
Is(c, t) == Peek(c).next = t
Take(c) == [Peek(c) EXCEPT !.next = "none", !.ok = "yes"]
Expect(c, t) == IF c.ok = "throw" THEN c ELSE IF Is(c, t) THEN Take(c) ELSE Throw(Peek(c))

(* After a step that must have found something; and the word to add then.  *)
Need(c) == IF c.ok = "no" THEN Throw(c) ELSE c
Then(c, w) == IF c.ok = "yes" THEN Emit(c, w) ELSE c

RECURSIVE Unary(_)
RECURSIVE ArgumentList(_)
ArgumentList(c) ==
    LET a == Need(Unary(Emit(c, ",")))
    IN  IF a.ok = "throw" THEN a
        ELSE IF Is(a, ",") THEN ArgumentList(Take(a)) ELSE Expect(a, ")")

Arguments(c) ==
    IF ~Is(c, "(") THEN [Peek(c) EXCEPT !.ok = "yes"]
    ELSE IF Is(Take(c), ")") THEN Take(Take(c)) ELSE ArgumentList(Take(c))

(* acceptPostfix and acceptTerminal                                        *)
Postfix(c) ==
    CASE Is(c, "a") -> Then(Arguments(Emit(Emit(Take(c), "("), "x")), ")")
      [] Is(c, "$") ->
            IF Is(Take(c), ".")
            THEN LET n == Expect(Take(Take(c)), "a")
                 IN  IF n.ok = "throw" THEN n ELSE Then(Arguments(Emit(Emit(n, "("), "x")), ")")
            ELSE Emit([Peek(Take(c)) EXCEPT !.ok = "yes"], "x")
      [] Is(c, "1") -> Emit(Take(c), "x")
      [] OTHER -> [Peek(c) EXCEPT !.ok = "no"]

(* acceptUnary: no closing bracket is asked for after "(".                 *)
Unary(c) ==
    CASE Is(c, "not") -> Need(Unary(Emit(Take(c), "not")))
      [] Is(c, "^") \/ Is(c, "(") -> Then(Need(Unary(Emit(Take(c), "("))), ")")
      [] OTHER        -> Postfix(c)

RECURSIVE BinaryTail(_)
BinaryTail(c) ==
    IF c.ok # "yes" \/ ~Is(c, "eq") THEN (IF c.ok = "yes" THEN Peek(c) ELSE c)
    ELSE BinaryTail(Need(Unary(Emit(Take(c), "=="))))

(* acceptExpr                                                              *)
Expr(c) == BinaryTail(Unary(c))

(* printString: quotes and backslashes are written with a backslash before *)
(* them.  Characters beyond ASCII ("high") are negative: the minus ends    *)
(* the number that Lua would read behind the backslash.                    *)
Escaped(c) == CASE c \in {"'", "\\"} -> <<"\\", c>>
                [] c = "high"       -> <<"\\", "-61">>
                [] OTHER            -> <<c>>
printString(s) == FlattenSeq([i \in DOMAIN s |-> Escaped(s[i])])

(* Text up to the next brace, printed in one piece.                        *)
Plain(c) ==
    LET n == CHOOSE n \in 0 .. Len(c.src) - c.pos + 1 :
                /\ \A i \in 0 .. n - 1 : c.src[c.pos + i] # "{"
                /\ c.pos + n > Len(c.src) \/ c.src[c.pos + n] = "{"
    IN  IF n = 0 THEN c
        ELSE [c EXCEPT !.pos = @ + n,
                       !.out = Append(@, [w |-> "text", text |-> printString(SubSeq(c.src, c.pos, c.pos + n - 1))])]

RECURSIVE Body(_, _)
RECURSIVE Branches(_)

(* Faulty: an if with an else is closed without its end.                   *)
MutBranches(c) ==
    IF c.ok = "throw" \/ Is(c, "elif") THEN c
    ELSE IF Is(c, "else")
    THEN LET e == Expect(Take(c), "}")
         IN  IF e.ok = "throw" THEN e ELSE Expect(Body(Emit(e, "else"), FALSE), "endif")
    ELSE Then(Expect(c, "endif"), "end")

(* After the body of an if: elif, else, endif.                             *)
Branches(c) ==
    IF c.ok = "throw" THEN c
    ELSE IF Is(c, "elif")
    THEN LET e == Expect(Need(Expr(Emit(Take(c), "elseif"))), "}")
         IN  IF e.ok = "throw" THEN e ELSE Branches(Body(Emit(e, "then"), FALSE))
    ELSE IF Is(c, "else")
    THEN LET e == Expect(Take(c), "}")
             b == Body(Emit(e, "else"), FALSE)
         IN  IF e.ok = "throw" THEN e ELSE Then(Expect(b, "endif"), "end")
    ELSE Then(Expect(c, "endif"), "end")

(* What one pair of braces compiles to.                                    *)
Brace(c) ==
    IF Is(c, "if")
    THEN LET e == Expect(Need(Expr(Emit(Take(c), "if"))), "}")
         IN  IF e.ok = "throw" THEN e
             ELSE Expect(Branches(Body(Emit(e, "then"), FALSE)), "}")
    ELSE Then(Expect(Need(Expr(Emit(Peek(c), "print("))), "}"), ")")

(* parseBody.  A second brace is meant as an escape, and taken as a brace. *)
(* An error within is reported at the top, after what is already written.  *)
Body(c0, top) ==
    LET c == Plain(c0)
        in == [c EXCEPT !.pos = @ + 1, !.next = "none"]
    IN  IF c.ok = "throw" THEN c
        ELSE IF Eof(c) THEN IF top THEN [c EXCEPT !.ok = "yes"] ELSE Throw(c)
        ELSE IF Eof(in) THEN IF top THEN [Emit(in, "error") EXCEPT !.errors = @ + 1] ELSE Throw(in)
        ELSE IF in.src[in.pos] = "{" THEN Body(in, top)
        ELSE IF ~top /\ \E t \in {"else", "elif", "endif"} : Is(in, t) THEN [Peek(in) EXCEPT !.ok = "yes"]
        ELSE LET b == IF \E t \in {"else", "elif", "endif"} : Is(in, t) THEN Throw(Peek(in)) ELSE Brace(in)
             IN  IF b.ok = "throw"
                 THEN IF top THEN Body([Emit(b, "error") EXCEPT !.ok = "yes", !.errors = @ + 1], top) ELSE b
                 ELSE Body(b, top)

Compile(s) == Body(Start(s), TRUE)

-----------------------------------------------------------------------------
(* Whether Lua loads a script: brackets and ifs are closed, and an error   *)
(* is reported between statements only.                                    *)
Count(out, ws) == Len(SelectSeq(out, LAMBDA o : o.w \in ws))
LuaLoads(out) ==
    /\ Count(out, {"(", "print("}) = Count(out, {")"})
    /\ Count(out, {"if"}) = Count(out, {"end"}) /\ Count(out, {"if", "elseif"}) = Count(out, {"then"})
    /\ \A i \in DOMAIN out :
          LET before == SubSeq(out, 1, i - 1)
          IN  /\ Count(before, {"(", "print("}) >= Count(before, {")"})
              /\ Count(before, {"if"}) >= Count(before, {"end"})
              /\ out[i].w \in {"error", "text", "print(", "else", "elseif", "end"} =>
                    /\ Count(before, {"(", "print("}) = Count(before, {")"})
                    /\ Count(before, {"if", "elseif"}) = Count(before, {"then"})

(* The string that Lua reads of what printString wrote.                    *)
RECURSIVE Read(_)
Read(s) == IF s = <<>> THEN <<>>
           ELSE IF Head(s) = "\\" THEN <<s[2]>> \o Read(SubSeq(s, 3, Len(s)))
           ELSE <<Head(s)>> \o Read(Tail(s))
Text(out) == FlattenSeq([i \in DOMAIN out |-> Read(out[i].text)])

(* A script may fail where it looks at a variable or calls something.      *)
MayFail(out) == Count(out, {"x"}) > 0
Run(out) == printed' \in {"all"} \cup (IF MayFail(out) THEN {"part"} ELSE {})

Init == source = None /\ script = Start(<<>>) /\ cache = {} /\ shown = 0 /\ printed = "nothing"

(* macro::text: compiled unless the cache has it, stored if Lua loads it,  *)
(* and run; it stays stored when it fails.                                 *)
Show(s) ==
    /\ source = None
    /\ source' = s /\ script' = Compile(s)
    /\ IF LuaLoads(script'.out) THEN cache' = {s} /\ Run(script'.out)
       ELSE cache' = {} /\ printed' = "nothing"
    /\ shown' = 1

ShowAgain ==
    /\ source # None /\ shown = 1 /\ shown' = 2
    /\ LET out == IF source \in cache THEN script.out ELSE Compile(source).out
       IN  IF source \in cache \/ LuaLoads(out) THEN cache' = {source} /\ Run(out)
           ELSE printed' = "nothing" /\ UNCHANGED cache
    /\ UNCHANGED <<source, script>>

Next == ShowAgain \/ \E n \in 0 .. MaxChunks : \E f \in [1 .. n -> Chunks] : Show(FlattenSeq(f))

Spec == Init /\ [][Next]_vars

-----------------------------------------------------------------------------
(* What of a text is outside all braces.                                   *)
RECURSIVE Outside(_, _)
Outside(s, inside) ==
    IF s = <<>> THEN <<>>
    ELSE IF Head(s) = "{" THEN Outside(Tail(s), TRUE)
    ELSE IF inside THEN Outside(Tail(s), Head(s) # "}")
    ELSE <<Head(s)>> \o Outside(Tail(s), FALSE)

(* A text in which the compiler finds no error becomes a script that Lua   *)
(* loads and that prints all the plain text once and in order, however ifs *)
(* are nested (macro.cc:367-470) and whatever quotes and backslashes it    *)
(* has, but for characters beyond ASCII, which come out as numbers         *)
(* (70-88); less of it is printed, the first time and from the cache, only *)
(* where the script of the text fails, which plain text alone never does   *)
(* (517-524).                                                              *)
TextKept ==
    (source # None /\ script.errors = 0) =>
        LET plain == Outside(source, FALSE)
        IN  /\ LuaLoads(script.out)
            /\ Text(script.out) = [i \in DOMAIN plain |-> IF plain[i] = "high" THEN "-61" ELSE plain[i]]
            /\ printed = "all" \/ (printed = "part" /\ plain # source)

============================================================================

------------------------------ MODULE LuaMatch ------------------------------
(***************************************************************************)
(* Pattern matching in the embedded Lua (src/lib/lua51/lstrlib.cc): the    *)
(* backtracking matcher with its captures, which it changes in place and   *)
(* takes back when what follows does not match, and the three loops around *)
(* it: find (and match), gmatch, gsub.  Positions count from 1; a result   *)
(* is where the match ends, or NoMatch, or Error, and the captures as the     *)
(* matcher leaves them.                                                    *)
(***************************************************************************)
EXTENDS Integers, Sequences, SequencesExt

CONSTANTS Subjects, Patterns,  \* sequences of characters; no malformed pattern
          Replacement,         \* gsub's third argument
          Class,     \* the letter of a class -> its characters
          Upper,     \* the letter of a complement -> the letter of the class
          Code,      \* the code of a character
          MaxCaptures

VARIABLES task,      \* "find", "gmatch" or "gsub"
          subject, pattern,
          init,      \* where the search began
          at,        \* where it goes on
          found,     \* the matches so far: [from, to, caps]
          out,       \* what gsub has built
          done

vars == <<task, subject, pattern, init, at, found, out, done>>

NoMatch == 0
Error == -1
Unfinished == -1
Position == -2
Digits == <<"1", "2", "3", "4", "5", "6", "7", "8", "9">>
Specials == {"^", "$", "*", "+", "?", ".", "(", "[", "%", "-"}

S(i) == IF i \in DOMAIN subject THEN subject[i] ELSE "NUL"
P(i) == IF i \in DOMAIN pattern THEN pattern[i] ELSE "NUL"
End == Len(subject) + 1
R(to, caps) == [to |-> to, caps |-> caps]

(* classend                                                                *)
RECURSIVE BracketEnd(_)
BracketEnd(p) ==
    LET q == IF P(p) = "%" /\ P(p + 1) # "NUL" THEN p + 2 ELSE p + 1
    IN  IF P(p) = "NUL" THEN Error ELSE IF P(q) = "]" THEN q + 1 ELSE BracketEnd(q)
ClassEnd(p) ==
    CASE P(p) = "%" -> IF P(p + 1) = "NUL" THEN Error ELSE p + 2
      [] P(p) = "[" -> BracketEnd(IF P(p + 1) = "^" THEN p + 2 ELSE p + 1)
      [] OTHER      -> p + 1

MatchClass(c, cl) ==
    IF cl \in DOMAIN Class THEN c \in Class[cl]
    ELSE IF cl \in DOMAIN Upper THEN c \notin Class[Upper[cl]] ELSE cl = c

(* matchbracketclass                                                       *)
RECURSIVE InBracket(_, _, _)
InBracket(c, p, ec) ==
    IF p >= ec THEN FALSE
    ELSE IF P(p) = "%" THEN MatchClass(c, P(p + 1)) \/ InBracket(c, p + 2, ec)
    ELSE IF P(p + 1) = "-" /\ p + 2 < ec
         THEN (Code[P(p)] <= Code[c] /\ Code[c] <= Code[P(p + 2)]) \/ InBracket(c, p + 3, ec)
         ELSE P(p) = c \/ InBracket(c, p + 1, ec)
MatchBracketClass(c, p, ec) ==
    IF P(p + 1) = "^" THEN ~InBracket(c, p + 2, ec) ELSE InBracket(c, p + 1, ec)

SingleMatch(c, p, ep) ==
    CASE P(p) = "." -> TRUE
      [] P(p) = "%" -> MatchClass(c, P(p + 1))
      [] P(p) = "[" -> MatchBracketClass(c, p, ep - 1)
      [] OTHER      -> P(p) = c
Here(s, p, ep) == s < End /\ SingleMatch(S(s), p, ep)

(* matchbalance                                                            *)
RECURSIVE Balance(_, _, _)
Balance(s, p, cont) ==
    IF s >= End THEN NoMatch
    ELSE IF S(s) = P(p + 1) THEN IF cont = 1 THEN s + 1 ELSE Balance(s + 1, p, cont - 1)
    ELSE Balance(s + 1, p, IF S(s) = P(p) THEN cont + 1 ELSE cont)
MatchBalance(s, p) ==
    IF P(p) = "NUL" \/ P(p + 1) = "NUL" THEN Error
    ELSE IF S(s) # P(p) THEN NoMatch ELSE Balance(s + 1, p, 1)

Frontier(s, p) ==
    LET ep == ClassEnd(p)
        previous == IF s = 1 THEN "NUL" ELSE S(s - 1)
    IN  ~MatchBracketClass(previous, p, ep - 1) /\ MatchBracketClass(S(s), p, ep - 1)

(* match_capture: the length of a position capture, taken as unsigned, is  *)
(* longer than any string.                                                 *)
MatchCapture(caps, s, digit) ==
    LET l == SelectInSeq(Digits, LAMBDA d : d = digit)
    IN  IF l \notin DOMAIN caps THEN Error
        ELSE IF caps[l].len = Unfinished THEN Error
        ELSE IF caps[l].len = Position \/ End - s < caps[l].len THEN NoMatch
        ELSE IF \A i \in 0 .. caps[l].len - 1 : S(caps[l].init + i) = S(s + i)
             THEN s + caps[l].len ELSE NoMatch

RECURSIVE Match(_, _, _), Reduce(_, _, _, _), MinExpand(_, _, _, _)

(* start_capture and end_capture, which undo the capture on failure.       *)
StartCapture(caps, s, p, what) ==
    LET r == Match(Append(caps, [init |-> s, len |-> what]), s, p)
    IN  IF Len(caps) >= MaxCaptures THEN R(Error, caps)
        ELSE IF r.to = NoMatch THEN [r EXCEPT !.caps = Front(@)] ELSE r

(* Faulty: a capture stays closed when what follows it does not match.     *)
MutEndCapture(caps, s, p) ==
    LET l == SelectLastInSeq(caps, LAMBDA c : c.len = Unfinished)
    IN  IF l = 0 THEN R(Error, caps) ELSE Match([caps EXCEPT ![l].len = s - caps[l].init], s, p)

EndCapture(caps, s, p) ==
    LET l == SelectLastInSeq(caps, LAMBDA c : c.len = Unfinished)
        r == Match([caps EXCEPT ![l].len = s - caps[l].init], s, p)
    IN  IF l = 0 THEN R(Error, caps)
        ELSE IF r.to = NoMatch THEN [r EXCEPT !.caps[l].len = Unfinished] ELSE r

(* max_expand: as many as there are, then one less at a time.              *)
Run(s, p, ep) == CHOOSE n \in 0 .. Len(subject) :
                    (\A i \in 0 .. n - 1 : Here(s + i, p, ep)) /\ ~Here(s + n, p, ep)
Reduce(caps, s, n, p) ==
    LET r == Match(caps, s + n, p) IN IF r.to # NoMatch \/ n = 0 THEN r ELSE Reduce(r.caps, s, n - 1, p)
MaxExpand(caps, s, p, ep) == Reduce(caps, s, Run(s, p, ep), ep + 1)

MinExpand(caps, s, p, ep) ==
    LET r == Match(caps, s, ep + 1)
    IN  IF r.to # NoMatch \/ ~Here(s, p, ep) THEN r ELSE MinExpand(r.caps, s + 1, p, ep)

(* match, at a single character class and what repeats it.                 *)
Item(caps, s, p) ==
    LET ep == ClassEnd(p)
        here == Here(s, p, ep)
    IN  IF ep = Error THEN R(Error, caps)
        ELSE CASE P(ep) = "?" -> LET r == Match(caps, s + 1, ep + 1)
                                 IN  IF ~here THEN Match(caps, s, ep + 1)
                                     ELSE IF r.to # NoMatch THEN r ELSE Match(r.caps, s, ep + 1)
               [] P(ep) = "*" -> MaxExpand(caps, s, p, ep)
               [] P(ep) = "+" -> IF here THEN Reduce(caps, s + 1, Run(s + 1, p, ep), ep + 1) ELSE R(NoMatch, caps)
               [] P(ep) = "-" -> MinExpand(caps, s, p, ep)
               [] OTHER -> IF here THEN Match(caps, s + 1, ep) ELSE R(NoMatch, caps)

Match(caps, s, p) ==
    LET Go(to, next) == IF to \in {NoMatch, Error} THEN R(to, caps) ELSE Match(caps, to, next)
    IN  CASE P(p) = "(" /\ P(p + 1) = ")" -> StartCapture(caps, s, p + 2, Position)
          [] P(p) = "(" /\ P(p + 1) # ")" -> StartCapture(caps, s, p + 1, Unfinished)
          [] P(p) = ")" -> EndCapture(caps, s, p + 1)
          [] P(p) = "%" /\ P(p + 1) = "b" -> Go(MatchBalance(s, p + 2), p + 4)
          [] P(p) = "%" /\ P(p + 1) = "f" ->
                Go(IF P(p + 2) # "[" THEN Error ELSE IF Frontier(s, p + 2) THEN s ELSE NoMatch, ClassEnd(p + 2))
          [] P(p) = "%" /\ P(p + 1) \in ToSet(Digits) \cup {"0"} -> Go(MatchCapture(caps, s, P(p + 1)), p + 2)
          [] P(p) = "NUL" -> R(s, caps)
          [] P(p) = "$" /\ P(p + 1) = "NUL" -> R(IF s = End THEN s ELSE NoMatch, caps)
          [] OTHER -> Item(caps, s, p)

-----------------------------------------------------------------------------
None == [from |-> NoMatch, to |-> NoMatch, caps |-> <<>>]
Hit(s, r) == [from |-> s, to |-> r.to, caps |-> r.caps]

Anchored == P(1) = "^"
First == IF Anchored /\ task # "gmatch" THEN 2 ELSE 1

RECURSIVE Search(_)
Search(s) ==
    LET r == Match(<<>>, s, First)
    IN  IF s > End THEN None
        ELSE IF r.to # NoMatch THEN Hit(s, r)
        ELSE IF First = 2 THEN None ELSE Search(s + 1)

(* lmemfind, for a pattern without special characters.                     *)
IsPlain == \A i \in DOMAIN pattern : pattern[i] \notin Specials
PlainFind(s) ==
    LET starts == {i \in s .. End - Len(pattern) : \A j \in DOMAIN pattern : S(i + j - 1) = pattern[j]}
        i == CHOOSE i \in starts : \A j \in starts : i <= j
    IN  IF starts = {} THEN None ELSE Hit(i, R(i + Len(pattern), <<>>))

Init ==
    /\ task \in {"find", "gmatch", "gsub"}
    /\ subject \in Subjects /\ pattern \in Patterns
    /\ init \in IF task = "find" THEN 1 .. Len(subject) + 1 ELSE {1}
    /\ at = init /\ found = <<>> /\ out = <<>> /\ done = FALSE

(* str_find_aux, for find and match.                                       *)
Find ==
    /\ task = "find" /\ ~done
    /\ LET hit == IF IsPlain THEN PlainFind(at) ELSE Search(at)
       IN  found' = IF hit = None THEN <<>> ELSE <<hit>>
    /\ done' = TRUE
    /\ UNCHANGED <<task, subject, pattern, init, at, out>>

(* One call of the iterator: gmatch_aux.                                   *)
Gmatch ==
    /\ task = "gmatch" /\ ~done
    /\ LET hit == Search(at)
       IN  IF hit = None THEN done' = TRUE /\ UNCHANGED <<found, at>>
           ELSE /\ found' = Append(found, hit)
                /\ at' = IF hit.to = hit.from THEN hit.to + 1 ELSE hit.to
                /\ UNCHANGED done
    /\ UNCHANGED <<task, subject, pattern, init, out>>

(* push_onecapture                                                         *)
Captured(hit, i) ==
    IF i > Len(hit.caps) THEN SubSeq(subject, hit.from, hit.to - 1)
    ELSE IF hit.caps[i].len = Position THEN <<hit.caps[i].init>>
    ELSE SubSeq(subject, hit.caps[i].init, hit.caps[i].init + hit.caps[i].len - 1)

(* add_s                                                                   *)
RECURSIVE AddS(_, _)
AddS(hit, i) ==
    IF i > Len(Replacement) THEN <<>>
    ELSE IF Replacement[i] # "%" THEN <<Replacement[i]>> \o AddS(hit, i + 1)
    ELSE LET c == Replacement[i + 1]
         IN  (IF c = "0" THEN SubSeq(subject, hit.from, hit.to - 1)
              ELSE IF c \in ToSet(Digits) THEN Captured(hit, SelectInSeq(Digits, LAMBDA d : d = c))
              ELSE <<c>>) \o AddS(hit, i + 2)

(* One turn of str_gsub's loop.                                            *)
Gsub ==
    /\ task = "gsub" /\ ~done
    /\ LET r == Match(<<>>, at, First)
           added == IF r.to = NoMatch THEN <<>> ELSE AddS(Hit(at, r), 1)
           skips == r.to = NoMatch \/ r.to = at
       IN  /\ found' = IF r.to = NoMatch THEN found ELSE Append(found, Hit(at, r))
           /\ at' = IF ~skips THEN r.to ELSE IF at < End THEN at + 1 ELSE at
           /\ done' = ((skips /\ at >= End) \/ Anchored)
           /\ out' = out \o added \o (IF skips /\ at < End THEN <<S(at)>> ELSE <<>>)
                         \o (IF done' THEN SubSeq(subject, at', Len(subject)) ELSE <<>>)
    /\ UNCHANGED <<task, subject, pattern, init>>

Next == Find \/ Gmatch \/ Gsub

-----------------------------------------------------------------------------
(* The reference: every way to match, the preferred one first, each with   *)
(* captures of its own.                                                    *)
RECURSIVE Ways(_, _, _)
Ways(caps, s, p) ==
    LET ep == ClassEnd(p)
        n == Run(s, p, ep)
        After(ks, next) == FlattenSeq([i \in DOMAIN ks |-> Ways(caps, s + ks[i], next)])
        From(to, next) == IF to = NoMatch THEN <<>> ELSE Ways(caps, to, next)
        open == SelectLastInSeq(caps, LAMBDA c : c.len = Unfinished)
    IN  CASE P(p) = "(" /\ P(p + 1) = ")" -> Ways(Append(caps, [init |-> s, len |-> Position]), s, p + 2)
          [] P(p) = "(" /\ P(p + 1) # ")" -> Ways(Append(caps, [init |-> s, len |-> Unfinished]), s, p + 1)
          [] P(p) = ")" -> Ways([caps EXCEPT ![open].len = s - caps[open].init], s, p + 1)
          [] P(p) = "%" /\ P(p + 1) = "b" -> From(MatchBalance(s, p + 2), p + 4)
          [] P(p) = "%" /\ P(p + 1) = "f" -> IF Frontier(s, p + 2) THEN Ways(caps, s, ClassEnd(p + 2)) ELSE <<>>
          [] P(p) = "%" /\ P(p + 1) \in ToSet(Digits) -> From(MatchCapture(caps, s, P(p + 1)), p + 2)
          [] P(p) = "NUL" \/ (P(p) = "$" /\ P(p + 1) = "NUL" /\ s = End) -> <<R(s, caps)>>
          [] P(p) = "$" /\ P(p + 1) = "NUL" /\ s # End -> <<>>
          [] OTHER -> CASE P(ep) = "*" -> After([i \in 1 .. n + 1 |-> n + 1 - i], ep + 1)
                        [] P(ep) = "+" -> After([i \in 1 .. n |-> n + 1 - i], ep + 1)
                        [] P(ep) = "-" -> After([i \in 1 .. n + 1 |-> i - 1], ep + 1)
                        [] P(ep) = "?" -> After(IF n > 0 THEN <<1, 0>> ELSE <<0>>, ep + 1)
                        [] OTHER -> After(IF n > 0 THEN <<1>> ELSE <<>>, ep)

Best(s) == LET ways == Ways(<<>>, s, First) IN IF ways = <<>> THEN None ELSE Hit(s, ways[1])
Next1(hit) == IF hit.to = hit.from THEN hit.to + 1 ELSE hit.to
RECURSIVE Rebuilt(_, _)
Rebuilt(hits, s) ==
    IF hits = <<>> THEN SubSeq(subject, s, Len(subject))
    ELSE SubSeq(subject, s, hits[1].from - 1) \o AddS(hits[1], 1) \o Rebuilt(Tail(hits), hits[1].to)

(* However it backtracks, the matcher finds at each place the preferred of *)
(* all ways to match, with that way's captures and no trace of the others; *)
(* the loops around it find the leftmost such match, skip none and, in     *)
(* gsub, replace these and nothing else (lstrlib.cc:365-440, 495-690).     *)
MatchRight ==
    /\ \A i \in DOMAIN found :
          LET from == IF i = 1 THEN init ELSE Next1(found[i - 1])
          IN  /\ found[i] = Best(found[i].from)
              /\ \A s \in from .. found[i].from - 1 : Best(s) = None
    /\ done /\ found = <<>> => \A s \in (IF First = 2 THEN {init} ELSE init .. End) : Best(s) = None
    /\ done /\ task # "find" /\ found # <<>> /\ First = 1 =>
          \A s \in Next1(Last(found)) .. End : Best(s) = None
    /\ done /\ task = "gsub" => out = Rebuilt(found, 1)
=============================================================================

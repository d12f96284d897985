-------------------------------- MODULE Names --------------------------------
(***************************************************************************)
(* Names of entities and how players refer to them: EntityName             *)
(* (src/mud/name.cc) takes a full name apart into an article and a text,   *)
(* puts it together again, also in the output stream, and is matched       *)
(* against what a player typed by phraseMatch (src/common/strings.cc),     *)
(* which goes through the name word by word.                               *)
(***************************************************************************)
EXTENDS Integers, Sequences, SequencesExt, FiniteSetsExt

CONSTANTS FullNames,  \* what setFull is given: sequences of characters
          Phrases,    \* what players type
          Lower,      \* a capital -> its small letter
          MaxChunks   \* 5: the words of a phrase that are looked at

VARIABLES text, article,   \* the EntityName
          given, sure,     \* what setFull was given last, what it returned
          asked, chunks,   \* the phrase being matched, in chunks
          word, matches,   \* where the word at hand begins; chunks found
          answer           \* of phraseMatch: "yes", "no", or None before it

vars == <<text, article, given, sure, asked, chunks, word, matches, answer>>

None == "none"
Small(c) == IF c \in DOMAIN Lower THEN Lower[c] ELSE c
Folded(s) == [i \in DOMAIN s |-> Small(s[i])]

\* The articles in the order in which setFull looks for them.
Articles == << [word |-> <<"t", "h", "e", " ">>, is |-> "unique"],
               [word |-> <<"s", "o", "m", "e", " ">>, is |-> "plural"],
               [word |-> <<"a", "n", " ">>, is |-> "vowel"],
               [word |-> <<"a", " ">>, is |-> "normal"] >>
Begins(s, with) == Len(with) <= Len(s) /\ Folded(SubSeq(s, 1, Len(with))) = with
Named(s) == SelectInSeq(Articles, LAMBDA a : Begins(s, a.word))

(* Whether s begins with an article.                                       *)
Takes(s) == s[1] \notin DOMAIN Lower /\ Named(s) # 0

(* The guess for a name without one.  Comparing a capital with small       *)
(* letters, it never takes a vowel for one.                                *)
Guess(s) == IF Last(s) = "s" THEN "plural" ELSE "normal"

NameOf(s) ==
    IF s = <<>> THEN [text |-> s, article |-> "normal"]
    ELSE IF Takes(s) THEN [text |-> SubSeq(s, Len(Articles[Named(s)].word) + 1, Len(s)),
                           article |-> Articles[Named(s)].is]
    ELSE [text |-> s, article |-> IF s[1] \in DOMAIN Lower THEN "proper" ELSE Guess(s)]

SetFull(s) ==
    /\ given' = s /\ text' = NameOf(s).text /\ article' = NameOf(s).article
    /\ sure' = (s # <<>> /\ (s[1] \in DOMAIN Lower \/ Takes(s)))
    /\ asked' = <<>> /\ chunks' = <<>> /\ word' = 1 /\ matches' = 0 /\ answer' = None

Prefix(of) == LET i == SelectInSeq(Articles, LAMBDA a : a.is = of)
              IN  IF i = 0 THEN <<>> ELSE Articles[i].word
GetFull == Prefix(article) \o text

(* operator << of a StreamName, without colours: usage is "none",          *)
(* "definite", "indefinite" or a possessive, whose word is a letter here.  *)
Capital(c) == IF \E u \in DOMAIN Lower : Lower[u] = c THEN CHOOSE u \in DOMAIN Lower : Lower[u] = c ELSE c
Capitalized(s) == IF s = <<>> THEN s ELSE <<Capital(s[1])>> \o Tail(s)
Shown(usage, capitalize) ==
    LET before == IF article = "proper" \/ usage = "none" THEN <<>>
                  ELSE IF usage = "definite" \/ article = "unique" THEN Prefix("unique")
                  ELSE IF usage = "indefinite" THEN Prefix(article)
                  ELSE <<usage, " ">>
    IN  IF ~capitalize THEN before \o text
        ELSE IF before = <<>> THEN Capitalized(text) ELSE Capitalized(before) \o text

-----------------------------------------------------------------------------
(* phraseMatch breaks the phrase into chunks, one for each word.  It goes  *)
(* on to the end of the phrase: the blanks there belong to the last chunk, *)
(* unless that is number MaxChunks, which ends with its word...            *)
From(s, i) == IF \E j \in i .. Len(s) : s[j] # " "
              THEN CHOOSE j \in i .. Len(s) : s[j] # " " /\ \A k \in i .. j - 1 : s[k] = " " ELSE Len(s) + 1
To(s, i) == IF \E j \in i .. Len(s) : s[j] = " "
            THEN CHOOSE j \in i .. Len(s) : s[j] = " " /\ \A k \in i .. j - 1 : s[k] # " " ELSE Len(s) + 1
RECURSIVE Bases(_, _)
Bases(s, i) == IF From(s, i) > Len(s) THEN <<>> ELSE <<From(s, i)>> \o Bases(s, To(s, From(s, i)))

Chunks(s) ==
    LET base == Bases(s, 1)
        n == Min({Len(base), MaxChunks})
    IN  [i \in 1 .. n |-> SubSeq(s, base[i], IF i = n /\ n < MaxChunks THEN Len(s) ELSE To(s, base[i]) - 1)]

Matches(phrase) ==
    /\ answer = None /\ asked = <<>>
    /\ asked' = phrase /\ chunks' = Chunks(phrase)
    /\ answer' = (IF text = <<>> \/ chunks' = <<>> THEN "no" ELSE None)
    /\ UNCHANGED <<text, article, given, sure, word, matches>>

(* ...and compares the next chunk with each word of the name in turn; the  *)
(* last word is compared after the loop.                                   *)
Fits(to, i) == /\ Len(chunks[i]) <= to - word
               /\ Folded(SubSeq(text, word, word + Len(chunks[i]) - 1)) = Folded(chunks[i])
Found(to, n) == IF Fits(to, n + 1) THEN n + 1 ELSE n
Answer(n) == IF n = Len(chunks) THEN "yes" ELSE "no"

(* The chunks found once a word that is not the last has been compared.    *)
Inner(to) == Found(to, matches)

CompareWord ==
    /\ chunks # <<>> /\ answer = None
    /\ LET to == To(text, word)
           next == From(text, to)
       IN  IF to > Len(text)
           THEN matches' = Found(to, matches) /\ answer' = Answer(matches') /\ UNCHANGED word
           ELSE IF Inner(to) = Len(chunks) THEN matches' = Inner(to) /\ answer' = "yes" /\ UNCHANGED word
           ELSE IF next > Len(text)
           THEN matches' = Found(next, Inner(to)) /\ answer' = Answer(matches') /\ UNCHANGED word
           ELSE matches' = Inner(to) /\ word' = next /\ UNCHANGED answer
    /\ UNCHANGED <<text, article, given, sure, asked, chunks>>

Init ==
    /\ text = <<>> /\ article = "normal" /\ given = <<>> /\ sure = FALSE
    /\ asked = <<>> /\ chunks = <<>> /\ word = 1 /\ matches = 0 /\ answer = None

Next ==
    \/ given = <<>> /\ \E s \in FullNames : SetFull(s)
    \/ \E phrase \in Phrases : Matches(phrase)
    \/ CompareWord

-----------------------------------------------------------------------------
(* A phrase names what has its words, MaxChunks of them at most, in their  *)
(* order and each as the beginning of a word of the name (strings.cc:      *)
(* 135-213; string.h:38 says as much), and a phrase of fewer words with a  *)
(* blank behind them names nothing (180): for a name that does not end in  *)
(* a blank, whose last word is compared twice.                             *)
Words(s) == [i \in DOMAIN Bases(s, 1) |-> SubSeq(s, Bases(s, 1)[i], To(s, Bases(s, 1)[i]) - 1)]
MatchesRight ==
    answer # None /\ text # <<>> /\ Last(text) # " " =>
        LET name == Words(text)
            said == Words(asked)
            used == 1 .. Min({Len(said), MaxChunks})
            Places == {f \in [used -> DOMAIN name] : \A i, j \in used : i < j => f[i] < f[j]}
            Has(i, w) == IsPrefix(Folded(said[i]), Folded(w))
        IN  (answer = "yes") <=> /\ said # <<>> /\ (Last(asked) = " " => Len(said) >= MaxChunks)
                                 /\ \E f \in Places : \A i \in used : Has(i, name[f[i]])

(* A name given with its article, or as a proper name, is shown to players *)
(* as it was given; and whatever was given, the name written to a file is  *)
(* read as the same name (name.cc:30-102, 109-187; object.cc:58, 116).     *)
NameKept ==
    /\ sure => /\ Folded(GetFull) = Folded(given)
               /\ given[1] \in DOMAIN Lower => GetFull = given
               /\ Shown("indefinite", FALSE) = GetFull
               /\ Folded(Shown("indefinite", TRUE)) = Folded(given)
    /\ NameOf(GetFull) = [text |-> text, article |-> article]
=============================================================================

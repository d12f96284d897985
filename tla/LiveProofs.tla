---------------------------- MODULE LiveProofs ----------------------------
(***************************************************************************)
(* Proofs about what lives on a connection: the option negotiation         *)
(* (Telopt), the HTTP server (Http) and the connections themselves         *)
(* (Network).                                                              *)
(*                                                                         *)
(* Telopt: once nothing is under way both ends agree, and the client can   *)
(* always read the stream (QuietAgreement).  The argument has three parts. *)
(* First, without streams: the states of the two ends of one conversation  *)
(* and the words not yet heard are in the table Talks, and hearing or      *)
(* asking leads from one row to another.  Second, how a stream holds such  *)
(* words between other messages (Says), and what taking from its front and *)
(* adding to its end does to them.  Third, each action is one of these     *)
(* steps for one conversation and lets the others be; compression is       *)
(* followed apart (Deflating).                                             *)
(*                                                                         *)
(* Http: an answer ends the request, and a request that goes on is young.  *)
(*                                                                         *)
(* Network: a host's entry of the table is never more than its connections *)
(* that run, and exactly that until a disconnect is repeated.              *)
(***************************************************************************)
EXTENDS Http, Telopt, Network, SequenceTheorems, FiniteSetTheorems, TLAPS

-----------------------------------------------------------------------------
(* Of every option there are two conversations, one about each end: the    *)
(* end that has the option speaks with OwnWord, the other with TheirWord.  *)
(* What one has said and the other not heard is at most two words.         *)
Unheard == {"none", "yes", "no", "yes no", "no yes"}

First(s)  == IF s \in {"yes", "yes no"} THEN "yes" ELSE IF s \in {"no", "no yes"} THEN "no" ELSE "none"
Second(s) == IF s = "yes no" THEN "no" ELSE IF s = "no yes" THEN "yes" ELSE "none"
Then(s, answer) ==
    CASE answer = "none"              -> s
      [] answer # "none" /\ s = "none" -> answer
      [] answer = "no" /\ s = "yes"   -> "yes no"
      [] answer = "yes" /\ s = "no"   -> "no yes"
      [] OTHER                        -> "too much"

(* What a conversation may have come to: the state of one end and of the   *)
(* other, what the one has said and what the other.                        *)
Talks(a, b, s, r) ==
    \/ a = "NO"  /\ b = "NO"      /\ s = "none" /\ r = "none"
    \/ a = "NO"  /\ b = "WANTNO"  /\ s = "no"   /\ r = "none"
    \/ a = "NO"  /\ b = "WANTYES" /\ s = "none" /\ r = "yes"
    \/ a = "NO"  /\ b = "WANTYES" /\ s = "no"   /\ r = "none"
    \/ a = "YES" /\ b = "YES"     /\ s = "none" /\ r = "none"
    \/ a = "YES" /\ b = "WANTNO"  /\ s = "none" /\ r = "no"
    \/ a = "YES" /\ b = "WANTYES" /\ s = "yes"  /\ r = "none"
    \/ a = "WANTNO" /\ b = "NO"      /\ s = "none"   /\ r = "no"
    \/ a = "WANTNO" /\ b = "YES"     /\ s = "no"     /\ r = "none"
    \/ a = "WANTNO" /\ b = "WANTNO"  /\ s = "no"     /\ r = "no"
    \/ a = "WANTNO" /\ b = "WANTYES" /\ s = "none"   /\ r = "no yes"
    \/ a = "WANTNO" /\ b = "WANTYES" /\ s = "yes no" /\ r = "none"
    \/ /\ a \in {"WANTYES", "WANTYES_OP"}
       /\ \/ b = "NO"      /\ s = "none"   /\ r = "no"
          \/ b = "NO"      /\ s = "yes"    /\ r = "none"
          \/ b = "YES"     /\ s = "none"   /\ r = "yes"
          \/ b = "WANTNO"  /\ s = "none"   /\ r = "yes no"
          \/ b = "WANTNO"  /\ s = "no yes" /\ r = "none"
          \/ b = "WANTYES" /\ s = "none"   /\ r = "no yes"
          \/ b = "WANTYES" /\ s = "no yes" /\ r = "none"
          \/ b = "WANTYES" /\ s = "yes"    /\ r = "yes"

(* What one end makes of yes and of no.                                   *)
LEMMA HearsYes ==
    ASSUME NEW q, NEW supported \in BOOLEAN, NEW st, st = ReceivesYes(q, supported)
    PROVE  /\ q = "NO" => \/ st.q = "YES" /\ st.answer = "yes"
                          \/ st.q = "NO" /\ st.answer = "no"
           /\ q = "WANTNO" => st.q = "NO" /\ st.answer = "none"
           /\ q \in {"YES", "WANTYES", "WANTNO_OP"} => st.q = "YES" /\ st.answer = "none"
           /\ q = "WANTYES_OP" => st.q = "WANTNO" /\ st.answer = "no"
BY DEF ReceivesYes, Step

LEMMA HearsNo ==
    ASSUME NEW q, NEW st, st = ReceivesNo(q)
    PROVE  /\ q = "YES" => st.q = "NO" /\ st.answer = "no"
           /\ q \in {"NO", "WANTNO", "WANTYES", "WANTYES_OP"} => st.q = "NO" /\ st.answer = "none"
           /\ q = "WANTNO_OP" => st.q = "WANTYES" /\ st.answer = "none"
BY DEF ReceivesNo, Step

LEMMA ThenAdds ==
    /\ \A s : Then(s, "none") = s
    /\ \A w \in {"yes", "no"} : Then("none", w) = w
    /\ Then("yes", "no") = "yes no" /\ Then("no", "yes") = "no yes"
BY DEF Then

(* What one end hears, asks and answers leads from one to another.         *)
LEMMA OneHears ==
    ASSUME NEW a, NEW b, NEW s, NEW r, Talks(a, b, s, r), r # "none",
           NEW supported \in BOOLEAN, NEW st,
           st = IF First(r) = "yes" THEN ReceivesYes(a, supported) ELSE ReceivesNo(a)
    PROVE  Talks(st.q, b, Then(s, st.answer), Second(r))
<1>1. CASE First(r) = "yes"
  <2>1. r \in {"yes", "yes no"} /\ (Second(r) = IF r = "yes" THEN "none" ELSE "no")
    BY <1>1 DEF First, Second
  <2>2. st = ReceivesYes(a, supported)
    BY <1>1
  <2>3. /\ a = "NO" => \/ st.q = "YES" /\ st.answer = "yes"
                       \/ st.q = "NO" /\ st.answer = "no"
        /\ a = "WANTNO" => st.q = "NO" /\ st.answer = "none"
        /\ a \in {"YES", "WANTYES"} => st.q = "YES" /\ st.answer = "none"
        /\ a = "WANTYES_OP" => st.q = "WANTNO" /\ st.answer = "no"
    BY <2>2, HearsYes
  <2> QED BY <2>1, <2>3, ThenAdds DEF Talks
<1>2. CASE First(r) # "yes"
  <2>1. r \in {"no", "no yes"} /\ (Second(r) = IF r = "no" THEN "none" ELSE "yes")
    BY <1>2 DEF First, Second, Talks
  <2> QED BY <1>2, <2>1, HearsNo DEF Talks, Then
<1> QED BY <1>1, <1>2

LEMMA OtherHears ==
    ASSUME NEW a, NEW b, NEW s, NEW r, Talks(a, b, s, r), s # "none",
           NEW supported \in BOOLEAN, NEW st,
           st = IF First(s) = "yes" THEN ReceivesYes(b, supported) ELSE ReceivesNo(b)
    PROVE  Talks(a, st.q, Second(s), Then(r, st.answer))
<1>1. CASE First(s) = "yes"
  <2>1. s \in {"yes", "yes no"} /\ (Second(s) = IF s = "yes" THEN "none" ELSE "no")
    BY <1>1 DEF First, Second
  <2>2. st = ReceivesYes(b, supported)
    BY <1>1
  <2>3. /\ b = "NO" => \/ st.q = "YES" /\ st.answer = "yes"
                       \/ st.q = "NO" /\ st.answer = "no"
        /\ b = "WANTNO" => st.q = "NO" /\ st.answer = "none"
        /\ b \in {"YES", "WANTYES"} => st.q = "YES" /\ st.answer = "none"
    BY <2>2, HearsYes
  <2> QED BY <2>1, <2>3, ThenAdds DEF Talks
<1>2. CASE First(s) # "yes"
  <2>1. s \in {"no", "no yes"} /\ (Second(s) = IF s = "no" THEN "none" ELSE "yes")
    BY <1>2 DEF First, Second, Talks
  <2> QED BY <1>2, <2>1, HearsNo DEF Talks, Then
<1> QED BY <1>1, <1>2

LEMMA OneAsks ==
    ASSUME NEW a, NEW b, NEW s, NEW r, Talks(a, b, s, r),
           NEW st \in {AskYes(a), AskNo(a)}, st.q # "WANTNO_OP"
    PROVE  Talks(st.q, b, Then(s, st.answer), r)
<1>1. \/ st.q = "WANTYES" /\ st.answer = "yes" /\ a = "NO"
      \/ st.q = "WANTNO" /\ st.answer = "no" /\ a = "YES"
      \/ st.q = a /\ st.answer = "none"
      \/ a = "WANTYES" /\ st.q = "WANTYES_OP" /\ st.answer = "none"
      \/ a = "WANTYES_OP" /\ st.q = "WANTYES" /\ st.answer = "none"
  <2>1. a # "WANTNO_OP"
    BY DEF Talks
  <2>2. CASE st = AskYes(a)
    BY <2>1, <2>2 DEF AskYes, Step
  <2>3. CASE st = AskNo(a)
    BY <2>1, <2>3 DEF AskNo, Step
  <2> QED BY <2>2, <2>3
<1> QED BY <1>1, ThenAdds DEF Talks

LEMMA OtherAsks ==
    ASSUME NEW a, NEW b, NEW s, NEW r, Talks(a, b, s, r), b \in {"YES", "NO"}, NEW st,
           st = IF b = "YES" THEN AskNo(b) ELSE AskYes(b)
    PROVE  Talks(a, st.q, s, Then(r, st.answer))
BY DEF Talks, AskYes, AskNo, Step, Then

-----------------------------------------------------------------------------
(* A stream has so much of a conversation on its way: the messages about o *)
(* in the words w are those, in this order.                                *)
About(m, o, w) == m.opt = o /\ m.cmd \in {w.yes, w.no}

Says(p, o, w, s) ==
    \E i, j \in Int :
        /\ \A k \in 1 .. Len(p) :
              About(p[k], o, w) <=> \/ First(s) # "none" /\ k = i
                                    \/ Second(s) # "none" /\ k = j
        /\ First(s) # "none"  => i \in 1 .. Len(p) /\ p[i].cmd = w[First(s)]
        /\ Second(s) # "none" => j \in 1 .. Len(p) /\ i < j /\ p[j].cmd = w[Second(s)]

(* A stream grew by an answer about o, if there is one, and by messages    *)
(* that negotiate nothing.                                                 *)
Answers(p, q, o, w, answer) ==
    /\ Len(q) \in Nat /\ Len(p) <= Len(q)
    /\ \A k \in 1 .. Len(p) : q[k] = p[k]
    /\ answer # "none" => /\ Len(p) < Len(q)
                          /\ q[Len(p) + 1].opt = o /\ q[Len(p) + 1].cmd = w[answer]
    /\ \A k \in Len(p) + 1 .. Len(q) :
          (answer # "none" /\ k = Len(p) + 1) \/ q[k].cmd \in {"SB", "MARK", "WIN32"}

Words == {OwnWord, TheirWord}
Replies == {"yes", "no", "none"}

LEMMA WordsDiffer ==
    /\ OwnWord.yes = "WILL" /\ OwnWord.no = "WONT" /\ TheirWord.yes = "DO" /\ TheirWord.no = "DONT"
    /\ OwnWord["yes"] = "WILL" /\ OwnWord["no"] = "WONT"
    /\ TheirWord["yes"] = "DO" /\ TheirWord["no"] = "DONT"
    /\ OwnWord # TheirWord
BY DEF OwnWord, TheirWord

LEMMA UnheardWords ==
    ASSUME NEW s \in Unheard
    PROVE  /\ First(s) \in {"yes", "no", "none"} /\ Second(s) \in {"yes", "no", "none"}
           /\ First(s) = "none" => s = "none"
           /\ First(Second(s)) = Second(s) /\ Second(Second(s)) = "none"
           /\ Second(s) \in Unheard
           /\ s = "none" => First(s) = "none" /\ Second(s) = "none"
BY DEF Unheard, First, Second

LEMMA SaysNothing ==
    ASSUME NEW p, Len(p) = 0, NEW o, NEW w, NEW s \in Unheard
    PROVE  Says(p, o, w, s) <=> s = "none"
<1>1. Says(p, o, w, s) => s = "none"
  BY UnheardWords DEF Says
<1>2. Says(p, o, w, "none")
  BY DEF Says, First, Second
<1> QED BY <1>1, <1>2

LEMMA SaysTail ==
    ASSUME NEW M, NEW p \in Seq(M), p # <<>>, NEW o, NEW w, NEW s \in Unheard, Says(p, o, w, s)
    PROVE  /\ About(Head(p), o, w) => /\ s # "none" /\ Head(p).cmd = w[First(s)]
                                      /\ Says(Tail(p), o, w, Second(s))
           /\ ~About(Head(p), o, w) => Says(Tail(p), o, w, s)
<1>1. PICK i \in Int, j \in Int :
        /\ \A k \in 1 .. Len(p) :
              About(p[k], o, w) <=> \/ First(s) # "none" /\ k = i
                                    \/ Second(s) # "none" /\ k = j
        /\ First(s) # "none"  => i \in 1 .. Len(p) /\ p[i].cmd = w[First(s)]
        /\ Second(s) # "none" => j \in 1 .. Len(p) /\ i < j /\ p[j].cmd = w[Second(s)]
  BY DEF Says
<1> DEFINE t == Tail(p)
<1>2. /\ Len(p) \in Nat /\ Len(p) > 0 /\ Len(t) = Len(p) - 1 /\ Head(p) = p[1]
      /\ \A k \in 1 .. Len(t) : t[k] = p[k + 1]
  BY HeadTailProperties, EmptySeq, LenProperties
<1>3. First(s) = "none" => Second(s) = "none"
  BY DEF First, Second
<1> HIDE DEF t
<1>4. ASSUME About(Head(p), o, w)
      PROVE  /\ s # "none" /\ Head(p).cmd = w[First(s)] /\ Says(t, o, w, Second(s))
  <2>1. First(s) # "none" /\ i = 1
    BY <1>1, <1>2, <1>3, <1>4
  <2>2. \A k \in 1 .. Len(t) : About(t[k], o, w) <=> Second(s) # "none" /\ k = j - 1
    BY <1>1, <1>2, <2>1
  <2>3. Second(s) # "none" => j - 1 \in 1 .. Len(t) /\ t[j - 1].cmd = w[Second(s)]
    BY <1>1, <1>2, <2>1
  <2>4. Says(t, o, w, Second(s))
    <3>1. /\ \A k \in 1 .. Len(t) :
                About(t[k], o, w) <=> \/ First(Second(s)) # "none" /\ k = j - 1
                                      \/ Second(Second(s)) # "none" /\ k = 0
          /\ First(Second(s)) # "none" => /\ j - 1 \in 1 .. Len(t)
                                          /\ t[j - 1].cmd = w[First(Second(s))]
          /\ Second(Second(s)) = "none"
      BY <2>2, <2>3, UnheardWords
    <3> QED BY <3>1 DEF Says
  <2> QED BY <1>1, <1>2, <2>1, <2>4, UnheardWords
<1>5. ASSUME ~About(Head(p), o, w) PROVE Says(t, o, w, s)
  <2>1. (First(s) # "none" => i # 1) /\ (Second(s) # "none" => j # 1)
    BY <1>1, <1>2, <1>5
  <2> DEFINE e == i - 1  f == j - 1
  <2>2. /\ \A k \in 1 .. Len(t) :
              About(t[k], o, w) <=> \/ First(s) # "none" /\ k = e
                                    \/ Second(s) # "none" /\ k = f
        /\ First(s) # "none"  => e \in 1 .. Len(t) /\ t[e].cmd = w[First(s)]
        /\ Second(s) # "none" => f \in 1 .. Len(t) /\ e < f /\ t[f].cmd = w[Second(s)]
    BY <1>1, <1>2, <2>1
  <2>3. e \in Int /\ f \in Int
    OBVIOUS
  <2> HIDE DEF e, f
  <2> QED BY <2>2, <2>3 DEF Says
<1> QED BY <1>4, <1>5 DEF t

(* An answer is added to its own conversation.                             *)
LEMMA SaysMore ==
    ASSUME NEW p, NEW q, Len(p) \in Nat, NEW o, NEW w \in Words,
           NEW answer \in Replies, Answers(p, q, o, w, answer),
           NEW s \in Unheard, Then(s, answer) \in Unheard, Says(p, o, w, s)
    PROVE  Says(q, o, w, Then(s, answer))
<1>1. PICK i \in Int, j \in Int :
        /\ \A k \in 1 .. Len(p) :
              About(p[k], o, w) <=> \/ First(s) # "none" /\ k = i
                                    \/ Second(s) # "none" /\ k = j
        /\ First(s) # "none"  => i \in 1 .. Len(p) /\ p[i].cmd = w[First(s)]
        /\ Second(s) # "none" => j \in 1 .. Len(p) /\ i < j /\ p[j].cmd = w[Second(s)]
  BY DEF Says
<1> DEFINE n == Len(p) + 1  t == Then(s, answer)
<1>2. /\ w.yes = w["yes"] /\ w.no = w["no"]
      /\ \A c \in {"SB", "MARK", "WIN32"} : c # w["yes"] /\ c # w["no"]
  BY WordsDiffer DEF Words
<1>3. /\ Len(q) \in Nat /\ Len(p) <= Len(q) /\ \A k \in 1 .. Len(p) : q[k] = p[k]
      /\ answer # "none" => n <= Len(q) /\ About(q[n], o, w) /\ q[n].cmd = w[answer]
      /\ \A k \in n .. Len(q) : (answer # "none" /\ k = n) \/ ~About(q[k], o, w)
  BY <1>2 DEF Answers, About, Replies
<1>4. \/ answer = "none" /\ t = s
      \/ answer # "none" /\ s = "none" /\ t = answer
      \/ answer # "none" /\ First(s) # "none" /\ Second(s) = "none"
           /\ First(t) = First(s) /\ Second(t) = answer
  BY DEF Then, Unheard, First, Second, Replies
<1> HIDE DEF t
<1>5. CASE answer = "none" /\ t = s
  <2>1. /\ \A k \in 1 .. Len(q) :
              About(q[k], o, w) <=> \/ First(s) # "none" /\ k = i
                                    \/ Second(s) # "none" /\ k = j
        /\ First(s) # "none"  => i \in 1 .. Len(q) /\ q[i].cmd = w[First(s)]
        /\ Second(s) # "none" => j \in 1 .. Len(q) /\ i < j /\ q[j].cmd = w[Second(s)]
    BY <1>1, <1>3, <1>5
  <2> QED BY <1>5, <2>1 DEF Says, t
<1>6. CASE answer # "none" /\ s = "none" /\ t = answer
  <2>1. First(t) = answer /\ Second(t) = "none" /\ First(s) = "none" /\ Second(s) = "none"
    BY <1>6 DEF First, Second, Replies
  <2>2. /\ \A k \in 1 .. Len(q) :
              About(q[k], o, w) <=> \/ First(t) # "none" /\ k = n
                                    \/ Second(t) # "none" /\ k = j
        /\ First(t) # "none"  => n \in 1 .. Len(q) /\ q[n].cmd = w[First(t)]
        /\ Second(t) = "none"
    BY <1>1, <1>3, <1>6, <2>1
  <2>3. n \in Int
    OBVIOUS
  <2> HIDE DEF n
  <2> QED BY <2>2, <2>3 DEF Says, t
<1>7. CASE /\ answer # "none" /\ First(s) # "none" /\ Second(s) = "none"
           /\ First(t) = First(s) /\ Second(t) = answer
  <2>1. /\ \A k \in 1 .. Len(q) :
              About(q[k], o, w) <=> \/ First(t) # "none" /\ k = i
                                    \/ Second(t) # "none" /\ k = n
        /\ First(t) # "none"  => i \in 1 .. Len(q) /\ q[i].cmd = w[First(t)]
        /\ Second(t) # "none" => n \in 1 .. Len(q) /\ i < n /\ q[n].cmd = w[Second(t)]
    BY <1>1, <1>3, <1>7
  <2>2. n \in Int
    OBVIOUS
  <2> HIDE DEF n
  <2> QED BY <2>1, <2>2 DEF Says, t
<1> QED BY <1>4, <1>5, <1>6, <1>7

(* And to no other.                                                        *)
LEMMA OthersSaid ==
    ASSUME NEW p, NEW q, Len(p) \in Nat, NEW o, NEW y \in Words,
           NEW answer \in Replies, Answers(p, q, o, y, answer),
           NEW x, NEW v \in Words, x # o \/ v # y \/ answer = "none", NEW s, Says(p, x, v, s)
    PROVE  Says(q, x, v, s)
<1>1. PICK i \in Int, j \in Int :
        /\ \A k \in 1 .. Len(p) :
              About(p[k], x, v) <=> \/ First(s) # "none" /\ k = i
                                    \/ Second(s) # "none" /\ k = j
        /\ First(s) # "none"  => i \in 1 .. Len(p) /\ p[i].cmd = v[First(s)]
        /\ Second(s) # "none" => j \in 1 .. Len(p) /\ i < j /\ p[j].cmd = v[Second(s)]
  BY DEF Says
<1>2. /\ \A c \in {"SB", "MARK", "WIN32"} : c # v.yes /\ c # v.no
      /\ v # y /\ answer # "none" => y[answer] # v.yes /\ y[answer] # v.no
  BY WordsDiffer DEF Words, Replies
<1>3. /\ Len(q) \in Nat /\ Len(p) <= Len(q) /\ \A k \in 1 .. Len(p) : q[k] = p[k]
      /\ \A k \in Len(p) + 1 .. Len(q) : ~About(q[k], x, v)
  BY <1>2 DEF Answers, About, Replies
<1>4. /\ \A k \in 1 .. Len(q) :
            About(q[k], x, v) <=> \/ First(s) # "none" /\ k = i
                                  \/ Second(s) # "none" /\ k = j
      /\ First(s) # "none"  => i \in 1 .. Len(q) /\ q[i].cmd = v[First(s)]
      /\ Second(s) # "none" => j \in 1 .. Len(q) /\ i < j /\ q[j].cmd = v[Second(s)]
  BY <1>1, <1>3
<1> QED BY <1>4 DEF Says

-----------------------------------------------------------------------------
(* A conversation between the two streams p and t: one end, in state a,    *)
(* speaks in the words w on p, the other, in state b, in v on t.           *)
Conversation(p, t, o, a, b, w, v) ==
    \E s, r \in Unheard : Talks(a, b, s, r) /\ Says(p, o, w, s) /\ Says(t, o, v, r)

LEMMA AnswersAreWords ==
    ASSUME NEW q \in Q
    PROVE  /\ \A supported \in BOOLEAN : /\ ReceivesYes(q, supported).answer \in Replies
                                         /\ ReceivesYes(q, supported).q \in Q
           /\ ReceivesNo(q).answer \in Replies /\ ReceivesNo(q).q \in Q
           /\ AskYes(q).answer \in Replies /\ AskYes(q).q \in Q
           /\ AskNo(q).answer \in Replies /\ AskNo(q).q \in Q
<1>1. ASSUME NEW supported \in BOOLEAN
      PROVE  /\ ReceivesYes(q, supported).answer \in Replies
             /\ ReceivesYes(q, supported).q \in Q
  BY HearsYes DEF Q, Replies
<1>2. ReceivesNo(q).answer \in Replies /\ ReceivesNo(q).q \in Q
  BY HearsNo DEF Q, Replies
<1>3. AskYes(q).answer \in Replies /\ AskYes(q).q \in Q
  BY DEF Q, AskYes, Step, Replies
<1>4. AskNo(q).answer \in Replies /\ AskNo(q).q \in Q
  BY DEF Q, AskNo, Step, Replies
<1> QED BY <1>1, <1>2, <1>3, <1>4

LEMMA TalksTyped ==
    ASSUME NEW a, NEW b, NEW s, NEW r, Talks(a, b, s, r)
    PROVE  a \in Q /\ b \in Q /\ s \in Unheard /\ r \in Unheard
BY DEF Talks, Q, Unheard

LEMMA FirstWord ==
    ASSUME NEW s \in Unheard, s # "none", NEW w \in Words
    PROVE  First(s) = "yes" <=> w[First(s)] = w.yes
BY WordsDiffer DEF Unheard, First, Words

(* Each end may hear, and each may ask.                                    *)
LEMMA OneHearsStream ==
    ASSUME NEW M, NEW p, NEW q, NEW t \in Seq(M), Len(p) \in Nat, NEW o, NEW a, NEW b,
           NEW w \in Words, NEW v \in Words, Conversation(p, t, o, a, b, w, v),
           t # <<>>, About(Head(t), o, v), NEW supported \in BOOLEAN, NEW st,
           st = IF Head(t).cmd = v.yes THEN ReceivesYes(a, supported) ELSE ReceivesNo(a),
           Answers(p, q, o, w, st.answer)
    PROVE  Conversation(q, Tail(t), o, st.q, b, w, v)
<1>1. PICK s \in Unheard, r \in Unheard : Talks(a, b, s, r) /\ Says(p, o, w, s) /\ Says(t, o, v, r)
  BY DEF Conversation
<1>2. r # "none" /\ Head(t).cmd = v[First(r)] /\ Says(Tail(t), o, v, Second(r))
  BY <1>1, SaysTail
<1>3. st = IF First(r) = "yes" THEN ReceivesYes(a, supported) ELSE ReceivesNo(a)
  BY <1>2, FirstWord
<1>4. Talks(st.q, b, Then(s, st.answer), Second(r))
  BY <1>1, <1>2, <1>3, OneHears
<1>5. st.answer \in Replies
  BY <1>1, <1>3, TalksTyped, AnswersAreWords
<1>6. Then(s, st.answer) \in Unheard /\ Second(r) \in Unheard
  BY <1>4, TalksTyped
<1>7. Says(q, o, w, Then(s, st.answer))
  BY <1>1, <1>5, <1>6, SaysMore
<1> QED BY <1>2, <1>4, <1>6, <1>7 DEF Conversation

LEMMA OtherHearsStream ==
    ASSUME NEW M, NEW p \in Seq(M), NEW t, NEW u, Len(t) \in Nat, NEW o, NEW a, NEW b,
           NEW w \in Words, NEW v \in Words, Conversation(p, t, o, a, b, w, v),
           p # <<>>, About(Head(p), o, w), NEW supported \in BOOLEAN, NEW st,
           st = IF Head(p).cmd = w.yes THEN ReceivesYes(b, supported) ELSE ReceivesNo(b),
           Answers(t, u, o, v, st.answer)
    PROVE  Conversation(Tail(p), u, o, a, st.q, w, v)
<1>1. PICK s \in Unheard, r \in Unheard : Talks(a, b, s, r) /\ Says(p, o, w, s) /\ Says(t, o, v, r)
  BY DEF Conversation
<1>2. s # "none" /\ Head(p).cmd = w[First(s)] /\ Says(Tail(p), o, w, Second(s))
  BY <1>1, SaysTail
<1>3. st = IF First(s) = "yes" THEN ReceivesYes(b, supported) ELSE ReceivesNo(b)
  BY <1>2, FirstWord
<1>4. Talks(a, st.q, Second(s), Then(r, st.answer))
  BY <1>1, <1>2, <1>3, OtherHears
<1>5. st.answer \in Replies
  BY <1>1, <1>3, TalksTyped, AnswersAreWords
<1>6. Then(r, st.answer) \in Unheard /\ Second(s) \in Unheard
  BY <1>4, TalksTyped
<1>7. Says(u, o, v, Then(r, st.answer))
  BY <1>1, <1>5, <1>6, SaysMore
<1> QED BY <1>2, <1>4, <1>6, <1>7 DEF Conversation

LEMMA OneAsksStream ==
    ASSUME NEW p, NEW q, NEW t, Len(p) \in Nat, NEW o, NEW a, NEW b,
           NEW w \in Words, NEW v \in Words, Conversation(p, t, o, a, b, w, v),
           NEW st \in {AskYes(a), AskNo(a)}, st.q # "WANTNO_OP",
           Answers(p, q, o, w, st.answer)
    PROVE  Conversation(q, t, o, st.q, b, w, v)
<1>1. PICK s \in Unheard, r \in Unheard : Talks(a, b, s, r) /\ Says(p, o, w, s) /\ Says(t, o, v, r)
  BY DEF Conversation
<1>2. Talks(st.q, b, Then(s, st.answer), r)
  BY <1>1, OneAsks
<1>3. st.answer \in Replies /\ Then(s, st.answer) \in Unheard
  BY <1>1, <1>2, TalksTyped, AnswersAreWords
<1> QED BY <1>1, <1>2, <1>3, SaysMore DEF Conversation

LEMMA OtherAsksStream ==
    ASSUME NEW p, NEW t, NEW u, Len(t) \in Nat, NEW o, NEW a, NEW b,
           NEW w \in Words, NEW v \in Words, Conversation(p, t, o, a, b, w, v),
           b \in {"YES", "NO"}, NEW st, st = IF b = "YES" THEN AskNo(b) ELSE AskYes(b),
           Answers(t, u, o, v, st.answer)
    PROVE  Conversation(p, u, o, a, st.q, w, v)
<1>1. PICK s \in Unheard, r \in Unheard : Talks(a, b, s, r) /\ Says(p, o, w, s) /\ Says(t, o, v, r)
  BY DEF Conversation
<1>2. Talks(a, st.q, s, Then(r, st.answer))
  BY <1>1, OtherAsks
<1>3. st.answer \in Replies /\ Then(r, st.answer) \in Unheard
  BY <1>1, <1>2, TalksTyped, AnswersAreWords
<1> QED BY <1>1, <1>2, <1>3, SaysMore DEF Conversation

(* Other messages pass it by.                                              *)
LEMMA Undisturbed ==
    ASSUME NEW p, NEW t, Len(p) \in Nat, Len(t) \in Nat, NEW x, NEW a, NEW b,
           NEW w \in Words, NEW v \in Words, Conversation(p, t, x, a, b, w, v),
           NEW o, NEW y \in Words, NEW answer \in Replies, NEW q
    PROVE  /\ (x # o \/ w # y \/ answer = "none") /\ Answers(p, q, o, y, answer)
                 => Conversation(q, t, x, a, b, w, v)
           /\ (x # o \/ v # y \/ answer = "none") /\ Answers(t, q, o, y, answer)
                 => Conversation(p, q, x, a, b, w, v)
<1>1. ASSUME x # o \/ w # y \/ answer = "none", Answers(p, q, o, y, answer) PROVE Conversation(q, t, x, a, b, w, v)
  <2>1. ASSUME NEW s, Says(p, x, w, s) PROVE Says(q, x, w, s)
    BY <1>1, <2>1, OthersSaid
  <2> QED BY <2>1 DEF Conversation
<1>2. ASSUME x # o \/ v # y \/ answer = "none", Answers(t, q, o, y, answer) PROVE Conversation(p, q, x, a, b, w, v)
  <2>1. \A s : Says(t, x, v, s) => Says(q, x, v, s)
    BY <1>2, OthersSaid
  <2> QED BY <2>1 DEF Conversation
<1> QED BY <1>1, <1>2

LEMMA PassedBy ==
    ASSUME NEW M, NEW p, NEW t, NEW x, NEW a, NEW b, NEW w, NEW v,
           Conversation(p, t, x, a, b, w, v)
    PROVE  /\ p \in Seq(M) /\ p # <<>> /\ ~About(Head(p), x, w)
                 => Conversation(Tail(p), t, x, a, b, w, v)
           /\ t \in Seq(M) /\ t # <<>> /\ ~About(Head(t), x, v)
                 => Conversation(p, Tail(t), x, a, b, w, v)
<1>1. PICK s \in Unheard, r \in Unheard : Talks(a, b, s, r) /\ Says(p, x, w, s) /\ Says(t, x, v, r)
  BY DEF Conversation
<1>2. p \in Seq(M) /\ p # <<>> /\ ~About(Head(p), x, w) => Says(Tail(p), x, w, s)
  BY <1>1, SaysTail
<1>3. t \in Seq(M) /\ t # <<>> /\ ~About(Head(t), x, v) => Says(Tail(t), x, v, r)
  BY <1>1, SaysTail
<1> QED BY <1>1, <1>2, <1>3 DEF Conversation

-----------------------------------------------------------------------------
(* What the ends send.                                                     *)
Msg == [cmd : {"WILL", "WONT", "DO", "DONT", "SB", "MARK", "WIN32"}, opt : Opts, z : BOOLEAN]
ServerMsg == [cmd : {"WILL", "WONT", "DO", "DONT", "WIN32"}, opt : Opts, z : BOOLEAN]

LEMMA SaidAnswers ==
    ASSUME NEW o \in Opts, NEW w \in Words, NEW answer \in Replies
    PROVE  /\ Said(w, o, answer) \in Seq(ServerMsg)
           /\ Answers(<<>>, Said(w, o, answer), o, w, answer)
           /\ Len(Said(w, o, answer)) \in {0, 1}
<1>1. answer # "none" => Message(w[answer], o) \in ServerMsg
  BY WordsDiffer DEF Words, Replies, Message, ServerMsg
<1>2. CASE answer = "none"
  BY <1>2 DEF Said, Answers
<1>3. CASE answer # "none"
  <2>1. Said(w, o, answer) = <<Message(w[answer], o)>>
    BY <1>3 DEF Said
  <2>2. Message(w[answer], o).cmd = w[answer] /\ Message(w[answer], o).opt = o
    BY DEF Message
  <2> QED BY <1>1, <1>3, <2>1, <2>2 DEF Answers
<1> QED BY <1>2, <1>3

LEMMA ServerMsgs ==
    ASSUME NEW ms \in Seq(ServerMsg)
    PROVE  /\ ms \in Seq(Msg)
           /\ \A k \in 1 .. Len(ms) : ms[k].cmd # "MARK"
<1>1. ServerMsg \subseteq Msg
  BY DEF ServerMsg, Msg
<1>2. \A k \in 1 .. Len(ms) : ms[k] \in ServerMsg
  BY ElementOfSeq
<1> QED BY <1>1, <1>2, SeqMonotonic DEF ServerMsg

LEMMA SendKeeps ==
    ASSUME z \in BOOLEAN, NEW ms \in Seq(Msg)
    PROVE  /\ Send(ms) \in Seq(Msg) /\ Len(Send(ms)) = Len(ms)
           /\ \A k \in 1 .. Len(ms) : /\ Send(ms)[k].cmd = ms[k].cmd
                                      /\ Send(ms)[k].opt = ms[k].opt
                                      /\ Send(ms)[k].z = z
<1>1. DOMAIN ms = 1 .. Len(ms) /\ Len(ms) \in Nat /\ \A k \in 1 .. Len(ms) : ms[k] \in Msg
  BY LenProperties, ElementOfSeq
<1>2. \A k \in 1 .. Len(ms) : [ms[k] EXCEPT !.z = z] \in Msg
  BY <1>1 DEF Msg
<1>3. \A k \in 1 .. Len(ms) : /\ [ms[k] EXCEPT !.z = z].cmd = ms[k].cmd
                              /\ [ms[k] EXCEPT !.z = z].opt = ms[k].opt
                              /\ [ms[k] EXCEPT !.z = z].z = z
  BY <1>1 DEF Msg
<1>4. Send(ms) = [k \in 1 .. Len(ms) |-> [ms[k] EXCEPT !.z = z]]
  BY <1>1 DEF Send
<1>5. Send(ms) \in [1 .. Len(ms) -> Msg]
  BY <1>2, <1>4
<1>6. Send(ms) \in Seq(Msg) /\ Len(Send(ms)) = Len(ms)
  BY <1>1, <1>5
<1> QED BY <1>3, <1>4, <1>6

(* Messages that answer o still do so behind others.                       *)
LEMMA AnswersBehind ==
    ASSUME NEW M, NEW p \in Seq(M), NEW ms \in Seq(M), NEW ns,
           NEW o, NEW w, NEW answer, Answers(<<>>, ns, o, w, answer), Len(ns) = Len(ms),
           \A k \in 1 .. Len(ms) : ms[k].cmd = ns[k].cmd /\ ms[k].opt = ns[k].opt
    PROVE  Answers(p, p \o ms, o, w, answer)
<1>1. /\ Len(p) \in Nat /\ Len(ms) \in Nat /\ Len(p \o ms) = Len(p) + Len(ms)
      /\ \A k \in 1 .. Len(p) : (p \o ms)[k] = p[k]
      /\ \A k \in Len(p) + 1 .. Len(p) + Len(ms) : (p \o ms)[k] = ms[k - Len(p)]
  BY ConcatProperties, LenProperties
<1>2. /\ answer # "none" => /\ 1 \in 1 .. Len(ms) /\ ms[1].opt = o /\ ms[1].cmd = w[answer]
      /\ \A k \in 1 .. Len(ms) :
            (answer # "none" /\ k = 1) \/ ms[k].cmd \in {"SB", "MARK", "WIN32"}
  <2>1. Len(<<>>) = 0 /\ Len(ms) \in Nat /\ Len(ns) = Len(ms)
    BY LenProperties
  <2>2. answer # "none" => 1 \in 1 .. Len(ns) /\ ns[1].opt = o /\ ns[1].cmd = w[answer]
    BY <2>1 DEF Answers
  <2>3. ASSUME NEW k \in 1 .. Len(ns)
        PROVE  (answer # "none" /\ k = 1) \/ ns[k].cmd \in {"SB", "MARK", "WIN32"}
    BY <2>1, <2>3 DEF Answers
  <2> QED BY <2>1, <2>2, <2>3
<1> DEFINE q == p \o ms
<1> HIDE DEF q
<1>3. /\ Len(q) = Len(p) + Len(ms)
      /\ \A k \in 1 .. Len(p) : q[k] = p[k]
      /\ \A k \in Len(p) + 1 .. Len(p) + Len(ms) : k - Len(p) \in 1 .. Len(ms) /\ q[k] = ms[k - Len(p)]
  BY <1>1 DEF q
<1>4. answer # "none" => /\ Len(p) < Len(q)
                         /\ q[Len(p) + 1].opt = o /\ q[Len(p) + 1].cmd = w[answer]
  <2>1. answer # "none" => q[Len(p) + 1] = ms[1]
    BY <1>1, <1>2, <1>3
  <2> QED BY <1>1, <1>2, <1>3, <2>1
<1>5. \A k \in Len(p) + 1 .. Len(q) :
         (answer # "none" /\ k = Len(p) + 1) \/ q[k].cmd \in {"SB", "MARK", "WIN32"}
  BY <1>1, <1>2, <1>3
<1> QED BY <1>1, <1>3, <1>4, <1>5 DEF Answers, q

(* Messages that negotiate nothing may follow.                             *)
LEMMA AnswersThen ==
    ASSUME NEW p \in Seq(Msg), NEW q \in Seq(Msg), NEW cs \in Seq(Msg),
           NEW o, NEW w, NEW answer, Answers(p, q, o, w, answer),
           \A k \in 1 .. Len(cs) : cs[k].cmd \in {"SB", "MARK", "WIN32"}
    PROVE  Answers(p, q \o cs, o, w, answer)
<1>1. /\ Len(p) \in Nat /\ Len(q) \in Nat /\ Len(cs) \in Nat /\ Len(q \o cs) = Len(q) + Len(cs)
      /\ \A k \in 1 .. Len(q) : (q \o cs)[k] = q[k]
      /\ \A k \in Len(q) + 1 .. Len(q) + Len(cs) : (q \o cs)[k] = cs[k - Len(q)]
  BY ConcatProperties, LenProperties
<1> DEFINE n == q \o cs
<1> HIDE DEF n
<1>2. /\ Len(n) = Len(q) + Len(cs)
      /\ \A k \in 1 .. Len(q) : n[k] = q[k]
      /\ \A k \in Len(q) + 1 .. Len(n) : n[k].cmd \in {"SB", "MARK", "WIN32"}
  BY <1>1 DEF n
<1> QED BY <1>1, <1>2 DEF Answers, n

-----------------------------------------------------------------------------
(* A step of the server that sends an answer about o: what it adds to the  *)
(* stream, and whether compression begins.                                 *)
Sent(o, w, answer) ==
    /\ toPeer' \in Seq(Msg) /\ z' \in BOOLEAN
    /\ Answers(toPeer, toPeer', o, w, answer)
    /\ \/ /\ z' = z
          /\ \A k \in Len(toPeer) + 1 .. Len(toPeer') : /\ toPeer'[k].z = z
                                                        /\ toPeer'[k].cmd # "MARK"
       \/ /\ z = FALSE /\ z' = TRUE /\ Len(toPeer) < Len(toPeer')
          /\ \A k \in Len(toPeer) + 1 .. Len(toPeer') :
                /\ toPeer'[k].z = FALSE
                /\ toPeer'[k].cmd = "MARK" <=> k = Len(toPeer')

Plain(ms) == \A k \in 1 .. Len(ms) : ms[k].cmd # "MARK"

LEMMA SendSent ==
    ASSUME toPeer \in Seq(Msg), z \in BOOLEAN, NEW ms \in Seq(Msg), Plain(ms),
           NEW o, NEW w, NEW answer, Answers(<<>>, ms, o, w, answer)
    PROVE  /\ toPeer \o Send(ms) \in Seq(Msg)
           /\ Answers(toPeer, toPeer \o Send(ms), o, w, answer)
           /\ \A k \in Len(toPeer) + 1 .. Len(toPeer \o Send(ms)) :
                 /\ (toPeer \o Send(ms))[k].z = z
                 /\ (toPeer \o Send(ms))[k].cmd # "MARK"
<1> DEFINE n == Send(ms)
<1>1. /\ n \in Seq(Msg) /\ Len(n) = Len(ms)
      /\ \A k \in 1 .. Len(ms) : n[k].cmd = ms[k].cmd /\ n[k].opt = ms[k].opt /\ n[k].z = z
  BY SendKeeps
<1> HIDE DEF n
<1>2. Answers(toPeer, toPeer \o n, o, w, answer)
  BY <1>1, AnswersBehind
<1>3. /\ Len(toPeer) \in Nat /\ Len(n) \in Nat /\ toPeer \o n \in Seq(Msg)
      /\ Len(toPeer \o n) = Len(toPeer) + Len(n)
      /\ \A k \in Len(toPeer) + 1 .. Len(toPeer) + Len(n) : (toPeer \o n)[k] = n[k - Len(toPeer)]
  <2>1. Len(toPeer) \in Nat /\ Len(n) \in Nat /\ n \in Seq(Msg)
    BY <1>1, LenProperties
  <2>2. /\ toPeer \o n \in Seq(Msg) /\ Len(toPeer \o n) = Len(toPeer) + Len(n)
        /\ \A k \in 1 .. Len(toPeer) + Len(n) :
              (toPeer \o n)[k] = IF k <= Len(toPeer) THEN toPeer[k] ELSE n[k - Len(toPeer)]
    BY <2>1, ConcatProperties
  <2> QED BY <2>1, <2>2
<1>4. \A k \in Len(toPeer) + 1 .. Len(toPeer) + Len(n) : k - Len(toPeer) \in 1 .. Len(ms)
  BY <1>1, <1>3
<1>5. \A k \in 1 .. Len(ms) : n[k].z = z /\ n[k].cmd # "MARK"
  BY <1>1 DEF Plain
<1> QED BY <1>2, <1>3, <1>4, <1>5 DEF n

LEMMA NoEventSent ==
    ASSUME toPeer \in Seq(Msg), z \in BOOLEAN, NEW ms \in Seq(Msg), Plain(ms),
           NEW o, NEW w, NEW answer, Answers(<<>>, ms, o, w, answer),
           toPeer' = toPeer \o Send(ms), z' = z
    PROVE  Sent(o, w, answer)
BY SendSent DEF Sent

LEMMA CompressSent ==
    ASSUME toPeer \in Seq(Msg), z \in BOOLEAN, NEW ms \in Seq(Msg), Plain(ms), "COMPRESS2" \in Opts,
           NEW o, NEW w, NEW answer, Answers(<<>>, ms, o, w, answer), BeginCompress2(ms)
    PROVE  Sent(o, w, answer)
<1>1. CASE z
  BY <1>1, NoEventSent DEF BeginCompress2
<1>2. CASE ~z
  <2> DEFINE n == toPeer \o Send(ms)  x == Message("MARK", "COMPRESS2")
  <2>1. /\ n \in Seq(Msg) /\ Answers(toPeer, n, o, w, answer)
        /\ \A k \in Len(toPeer) + 1 .. Len(n) : n[k].z = FALSE /\ n[k].cmd # "MARK"
    BY <1>2, SendSent
  <2>2. z' = TRUE /\ toPeer' = n \o <<x>>
    <3>1. toPeer' = toPeer \o Send(ms) \o <<x>>
      BY <1>2 DEF BeginCompress2
    <3> QED BY <1>2, <3>1 DEF BeginCompress2
  <2> HIDE DEF n
  <2>3. x \in Msg /\ x.cmd = "MARK" /\ x.z = FALSE
    BY DEF Message, Msg
  <2> HIDE DEF x
  <2>4. <<x>> \in Seq(Msg) /\ Len(<<x>>) = 1 /\ <<x>>[1] = x
    BY <2>3
  <2>5. toPeer' \in Seq(Msg) /\ Answers(toPeer, toPeer', o, w, answer)
    <3>1. \A k \in 1 .. Len(<<x>>) : <<x>>[k].cmd \in {"SB", "MARK", "WIN32"}
      BY <2>3, <2>4
    <3>2. n \o <<x>> \in Seq(Msg)
      BY <2>1, <2>4, ConcatProperties
    <3> QED BY <2>1, <2>2, <2>4, <3>1, <3>2, AnswersThen
  <2>6. /\ Len(toPeer') = Len(n) + 1 /\ toPeer'[Len(n) + 1] = x
        /\ \A k \in 1 .. Len(n) : toPeer'[k] = n[k]
    <3>1. /\ Len(n) \in Nat /\ Len(n \o <<x>>) = Len(n) + 1
          /\ \A k \in 1 .. Len(n) + 1 : (n \o <<x>>)[k] = IF k <= Len(n) THEN n[k] ELSE <<x>>[k - Len(n)]
      BY <2>1, <2>4, ConcatProperties, LenProperties
    <3>2. <<x>>[Len(n) + 1 - Len(n)] = x
      BY <2>4, <3>1
    <3> QED BY <2>2, <3>1, <3>2
  <2>7. Len(toPeer) \in Nat /\ Len(n) \in Nat /\ Len(toPeer) <= Len(n)
    BY <2>1, LenProperties DEF Answers
  <2>8. \A k \in Len(toPeer) + 1 .. Len(toPeer') :
           /\ toPeer'[k].z = FALSE
           /\ toPeer'[k].cmd = "MARK" <=> k = Len(toPeer')
    BY <2>1, <2>3, <2>6, <2>7
  <2>9. Len(toPeer) < Len(toPeer') /\ z = FALSE /\ z' \in BOOLEAN
    BY <1>2, <2>2, <2>6, <2>7
  <2> QED BY <2>2, <2>5, <2>8, <2>9 DEF Sent
<1> QED BY <1>1, <1>2

FlagNames == {"want_echo", "do_echo", "force_echo", "do_eor", "zmp"}

(* An answer followed by one or by three subnegotiations.                  *)
LEMMA AnswersAndAsks ==
    ASSUME NEW ms \in Seq(Msg), Plain(ms), NEW o, NEW w, NEW answer,
           Answers(<<>>, ms, o, w, answer), NEW x \in Opts,
           NEW cs, cs = <<Message("SB", x)>> \/ cs = [i \in 1 .. 3 |-> Message("SB", x)]
    PROVE  ms \o cs \in Seq(Msg) /\ Plain(ms \o cs) /\ Answers(<<>>, ms \o cs, o, w, answer)
<1>1. Message("SB", x) \in Msg /\ Message("SB", x).cmd = "SB"
  BY DEF Message, Msg
<1>2. cs \in Seq(Msg) /\ \A k \in 1 .. Len(cs) : cs[k].cmd = "SB"
  <2>1. CASE cs = <<Message("SB", x)>>
    BY <1>1, <2>1
  <2>2. CASE cs = [i \in 1 .. 3 |-> Message("SB", x)]
    <3>1. cs \in [1 .. 3 -> Msg]
      BY <1>1, <2>2
    <3> DEFINE n == 3
    <3>2. n \in Nat /\ cs \in [1 .. n -> Msg]
      BY <3>1
    <3> HIDE DEF n
    <3>3. cs \in Seq(Msg)
      BY <3>2
    <3>4. Len(cs) = 3
      BY <3>1, <3>2, <3>3 DEF n
    <3> QED BY <1>1, <2>2, <3>3, <3>4
  <2> QED BY <2>1, <2>2
<1>3. ms \o cs \in Seq(Msg) /\ Plain(ms \o cs)
  <2>1. /\ ms \o cs \in Seq(Msg) /\ Len(ms) \in Nat /\ Len(cs) \in Nat
        /\ Len(ms \o cs) = Len(ms) + Len(cs)
        /\ \A k \in 1 .. Len(ms) + Len(cs) :
              (ms \o cs)[k] = IF k <= Len(ms) THEN ms[k] ELSE cs[k - Len(ms)]
    BY <1>2, ConcatProperties, LenProperties
  <2>2. \A k \in 1 .. Len(ms) + Len(cs) : k <= Len(ms) \/ k - Len(ms) \in 1 .. Len(cs)
    BY <2>1
  <2> QED BY <1>2, <2>1, <2>2 DEF Plain
<1>4. Answers(<<>>, ms \o cs, o, w, answer)
  <2>1. <<>> \in Seq(Msg) /\ \A k \in 1 .. Len(cs) : cs[k].cmd \in {"SB", "MARK", "WIN32"}
    BY <1>2
  <2> QED BY <1>2, <2>1, AnswersThen
<1> QED BY <1>3, <1>4

(* Whatever event follows an answer: it is sent, and the flags stay flags. *)
LEMMA EventsSent ==
    ASSUME toPeer \in Seq(Msg), z \in BOOLEAN, flags \in [FlagNames -> BOOLEAN],
           NEW ms \in Seq(Msg), Plain(ms), NEW o \in Opts, NEW w, NEW answer,
           Answers(<<>>, ms, o, w, answer),
           NoEvent(ms) \/ EventWill(o, ms) \/ EventDo(o, ms) \/ EventDont(o, ms)
    PROVE  Sent(o, w, answer) /\ flags' \in [FlagNames -> BOOLEAN]
<1>1. CASE NoEvent(ms)
  BY <1>1, NoEventSent DEF NoEvent
<1>2. CASE EventWill(o, ms)
  <2>1. CASE o \in {"TTYPE", "NEW_ENVIRON"}
    <3> DEFINE cs == <<Message("SB", o)>>
    <3>1. toPeer' = toPeer \o Send(ms \o cs) /\ z' = z /\ flags' = flags
      BY <1>2, <2>1 DEF EventWill
    <3>2. ms \o cs \in Seq(Msg) /\ Plain(ms \o cs) /\ Answers(<<>>, ms \o cs, o, w, answer)
      BY AnswersAndAsks
    <3> HIDE DEF cs
    <3> QED BY <3>1, <3>2, NoEventSent
  <2>2. CASE o \notin {"TTYPE", "NEW_ENVIRON"}
    <3>1. toPeer' = toPeer \o Send(ms \o <<>>) /\ z' = z /\ flags' = flags
      BY <1>2, <2>2 DEF EventWill
    <3>2. ms \o <<>> = ms
      BY ConcatEmptySeq
    <3> QED BY <3>1, <3>2, NoEventSent
  <2> QED BY <2>1, <2>2
<1>3. CASE EventDo(o, ms)
  <2>1. flags' \in [FlagNames -> BOOLEAN]
    BY <1>3 DEF EventDo, FlagNames
  <2>2. CASE o = "COMPRESS2"
    <3>1. BeginCompress2(ms)
      BY <1>3, <2>2 DEF EventDo
    <3> QED BY <2>1, <2>2, <3>1, CompressSent
  <2>3. CASE o = "ZMP"
    <3> DEFINE cs == [i \in 1 .. 3 |-> Message("SB", o)]
    <3>1. toPeer' = toPeer \o Send(ms \o cs) /\ z' = z
      BY <1>3, <2>3 DEF EventDo
    <3>2. ms \o cs \in Seq(Msg) /\ Plain(ms \o cs) /\ Answers(<<>>, ms \o cs, o, w, answer)
      BY AnswersAndAsks
    <3> HIDE DEF cs
    <3> QED BY <2>1, <3>1, <3>2, NoEventSent
  <2>4. CASE o # "COMPRESS2" /\ o # "ZMP"
    <3>1. toPeer' = toPeer \o Send(ms) /\ z' = z
      BY <1>3, <2>4 DEF EventDo
    <3> QED BY <2>1, <3>1, NoEventSent
  <2> QED BY <2>2, <2>3, <2>4
<1>4. CASE EventDont(o, ms)
  <2>1. flags' \in [FlagNames -> BOOLEAN]
    BY <1>4 DEF EventDont, FlagNames
  <2>2. toPeer' = toPeer \o Send(ms) /\ z' = z
    BY <1>4 DEF EventDont
  <2> QED BY <2>1, <2>2, NoEventSent
<1> QED BY <1>1, <1>2, <1>3, <1>4

-----------------------------------------------------------------------------
(* Compression has begun where the marker is under way or was read, and    *)
(* what was sent since then is compressed (StreamReadable of Telopt, with  *)
(* what the next message needs).                                           *)
Readable(p, read) ==
    \A i \in 1 .. Len(p) : p[i].z <=> read \/ \E j \in 1 .. Len(p) : j < i /\ p[j].cmd = "MARK"
Begun == inflating \/ \E j \in 1 .. Len(toPeer) : toPeer[j].cmd = "MARK"

Deflating == Readable(toPeer, inflating) /\ (z <=> Begun)

LEMMA SentDeflates ==
    ASSUME toPeer \in Seq(Msg), z \in BOOLEAN, inflating \in BOOLEAN, Deflating,
           NEW o, NEW w, NEW answer, Sent(o, w, answer), inflating' = inflating
    PROVE  Deflating'
<1>1. /\ Len(toPeer) \in Nat /\ Len(toPeer') \in Nat /\ Len(toPeer) <= Len(toPeer')
      /\ \A k \in 1 .. Len(toPeer) : toPeer'[k] = toPeer[k]
  BY LenProperties DEF Sent, Answers
<1> DEFINE q == toPeer'
<1> HIDE DEF q
<1>2. CASE /\ z' = z
           /\ \A k \in Len(toPeer) + 1 .. Len(q) : q[k].z = z /\ q[k].cmd # "MARK"
  <2>1. Begun' <=> Begun
    BY <1>1, <1>2 DEF Begun, q
  <2>2. ASSUME NEW i \in 1 .. Len(q)
        PROVE  q[i].z <=> inflating \/ \E j \in 1 .. Len(q) : j < i /\ q[j].cmd = "MARK"
    <3>1. CASE i \in 1 .. Len(toPeer)
      <4>1. toPeer[i].z <=> inflating \/ \E j \in 1 .. Len(toPeer) : j < i /\ toPeer[j].cmd = "MARK"
        BY <3>1 DEF Deflating, Readable
      <4>2. (\E j \in 1 .. Len(q) : j < i /\ q[j].cmd = "MARK")
              <=> \E j \in 1 .. Len(toPeer) : j < i /\ toPeer[j].cmd = "MARK"
        BY <1>1, <3>1 DEF q
      <4> QED BY <1>1, <3>1, <4>1, <4>2 DEF q
    <3>2. CASE i \in Len(toPeer) + 1 .. Len(q)
      <4>1. q[i].z = z
        BY <1>2, <3>2
      <4>2. (\E j \in 1 .. Len(q) : j < i /\ q[j].cmd = "MARK")
              <=> \E j \in 1 .. Len(toPeer) : toPeer[j].cmd = "MARK"
        BY <1>1, <1>2, <3>2 DEF q
      <4> QED BY <4>1, <4>2 DEF Deflating, Begun
    <3>3. i \in 1 .. Len(toPeer) \/ i \in Len(toPeer) + 1 .. Len(q)
      BY <1>1 DEF q
    <3> QED BY <3>1, <3>2, <3>3
  <2>3. Readable(toPeer, inflating)'
    BY <2>2 DEF Readable, q
  <2> QED BY <1>2, <2>1, <2>3 DEF Deflating
<1>3. CASE /\ z = FALSE /\ z' = TRUE /\ Len(toPeer) < Len(q)
           /\ \A k \in Len(toPeer) + 1 .. Len(q) :
                 q[k].z = FALSE /\ (q[k].cmd = "MARK" <=> k = Len(q))
  <2>1. ~Begun /\ \A j \in 1 .. Len(toPeer) : toPeer[j].cmd # "MARK"
    BY <1>3 DEF Deflating, Begun
  <2>2. \A i \in 1 .. Len(q) : q[i].z <=> FALSE
    <3>1. ASSUME NEW i \in 1 .. Len(toPeer) PROVE toPeer[i].z <=> FALSE
      BY <2>1, <3>1 DEF Deflating, Readable, Begun
    <3> QED BY <1>1, <1>3, <3>1 DEF q
  <2>3. \A j \in 1 .. Len(q) : q[j].cmd = "MARK" <=> j = Len(q)
    BY <1>1, <1>3, <2>1 DEF q
  <2>4. Readable(q, inflating)
    BY <1>1, <2>1, <2>2, <2>3 DEF Readable, Begun, q
  <2>5. \E j \in 1 .. Len(q) : q[j].cmd = "MARK"
    BY <1>1, <1>3, <2>3 DEF q
  <2>6. Begun'
    BY <2>5 DEF Begun, q
  <2> QED BY <1>3, <2>4, <2>6 DEF Deflating, q, Readable
<1> QED BY <1>2, <1>3 DEF Sent, q

LEMMA TailDeflates ==
    ASSUME toPeer \in Seq(Msg), inflating \in BOOLEAN, Deflating, toPeer # <<>>,
           toPeer' = Tail(toPeer), z' = z,
           inflating' = (inflating \/ Head(toPeer).cmd = "MARK")
    PROVE  Deflating'
<1> DEFINE q == toPeer'
<1>1. /\ Len(toPeer) \in Nat /\ Len(toPeer) > 0 /\ Len(q) = Len(toPeer) - 1
      /\ Head(toPeer) = toPeer[1] /\ \A k \in 1 .. Len(q) : q[k] = toPeer[k + 1]
  BY HeadTailProperties, EmptySeq, LenProperties
<1> HIDE DEF q
<1>2. \A i \in 1 .. Len(q) :
         (\E j \in 1 .. Len(toPeer) : j < i + 1 /\ toPeer[j].cmd = "MARK")
           <=> toPeer[1].cmd = "MARK" \/ \E j \in 1 .. Len(q) : j < i /\ q[j].cmd = "MARK"
  <2> SUFFICES ASSUME NEW i \in 1 .. Len(q)
               PROVE  (\E j \in 1 .. Len(toPeer) : j < i + 1 /\ toPeer[j].cmd = "MARK")
                        <=> \/ toPeer[1].cmd = "MARK"
                            \/ \E j \in 1 .. Len(q) : j < i /\ q[j].cmd = "MARK"
    OBVIOUS
  <2>1. ASSUME NEW j \in 1 .. Len(toPeer), j < i + 1, toPeer[j].cmd = "MARK"
        PROVE  toPeer[1].cmd = "MARK" \/ \E k \in 1 .. Len(q) : k < i /\ q[k].cmd = "MARK"
    <3>1. CASE j = 1
      BY <2>1, <3>1
    <3>2. CASE j # 1
      <4>1. j - 1 \in 1 .. Len(q) /\ j - 1 < i /\ q[j - 1].cmd = "MARK"
        BY <1>1, <2>1, <3>2
      <4> QED BY <4>1
    <3> QED BY <3>1, <3>2
  <2>2. ASSUME NEW k \in 1 .. Len(q), k < i, q[k].cmd = "MARK"
        PROVE  \E j \in 1 .. Len(toPeer) : j < i + 1 /\ toPeer[j].cmd = "MARK"
    <3>1. k + 1 \in 1 .. Len(toPeer) /\ k + 1 < i + 1 /\ toPeer[k + 1].cmd = "MARK"
      BY <1>1, <2>2
    <3> QED BY <3>1
  <2>3. 1 \in 1 .. Len(toPeer) /\ 1 < i + 1
    BY <1>1
  <2> QED BY <2>1, <2>2, <2>3
<1>3. (\E j \in 1 .. Len(toPeer) : toPeer[j].cmd = "MARK")
        <=> toPeer[1].cmd = "MARK" \/ \E j \in 1 .. Len(q) : q[j].cmd = "MARK"
  <2>1. ASSUME NEW j \in 1 .. Len(toPeer), toPeer[j].cmd = "MARK"
        PROVE  toPeer[1].cmd = "MARK" \/ \E k \in 1 .. Len(q) : q[k].cmd = "MARK"
    <3>1. CASE j # 1
      <4>1. j - 1 \in 1 .. Len(q) /\ q[j - 1].cmd = "MARK"
        BY <1>1, <2>1, <3>1
      <4> QED BY <4>1
    <3> QED BY <2>1, <3>1
  <2>2. ASSUME NEW k \in 1 .. Len(q), q[k].cmd = "MARK"
        PROVE  \E j \in 1 .. Len(toPeer) : toPeer[j].cmd = "MARK"
    <3>1. k + 1 \in 1 .. Len(toPeer) /\ toPeer[k + 1].cmd = "MARK"
      BY <1>1, <2>2
    <3> QED BY <3>1
  <2> QED BY <1>1, <2>1, <2>2
<1>4. Readable(q, inflating')
  <2>1. \A i \in 1 .. Len(q) :
           q[i].z <=> inflating \/ \E j \in 1 .. Len(toPeer) : j < i + 1 /\ toPeer[j].cmd = "MARK"
    <3> SUFFICES ASSUME NEW i \in 1 .. Len(q)
                 PROVE  q[i].z <=> \/ inflating
                                   \/ \E j \in 1 .. Len(toPeer) : j < i + 1 /\ toPeer[j].cmd = "MARK"
      OBVIOUS
    <3>1. i + 1 \in 1 .. Len(toPeer) /\ q[i] = toPeer[i + 1]
      BY <1>1
    <3> QED BY <3>1 DEF Deflating, Readable
  <2> QED BY <1>1, <1>2, <2>1 DEF Readable
<1>5. z' <=> Begun'
  BY <1>1, <1>3 DEF Deflating, Begun, q
<1> QED BY <1>4, <1>5 DEF Deflating, Readable, q

-----------------------------------------------------------------------------
Streams == toPeer \in Seq(Msg) /\ toServer \in Seq(ServerMsg)

(* Both conversations about every option, but those asked for again while  *)
(* their refusal was unanswered.                                           *)
Conversing ==
    \A o \in Opts :
        /\ o \notin reasked => Conversation(toPeer, toServer, o, us[o], phim[o], OwnWord, TheirWord)
        /\ Conversation(toPeer, toServer, o, him[o], pus[o], TheirWord, OwnWord)

IInv == TypeOK /\ Streams /\ Conversing /\ Deflating

LEMMA WordsPartition ==
    ASSUME NEW m, NEW w \in Words, NEW v \in Words, w # v
    PROVE  /\ m.cmd \in {w.yes, w.no} => m.cmd \notin {v.yes, v.no}
           /\ \A x \in Words : x = w \/ x = v
BY WordsDiffer DEF Words

(* An end that hears about o: what it makes of all conversations.          *)
LEMMA OthersPass ==
    ASSUME NEW p \in Seq(Msg), NEW t \in Seq(ServerMsg), NEW o,
           NEW w \in Words, NEW v \in Words, w # v, NEW answer \in Replies,
           NEW x, NEW a, NEW b, NEW e \in Words, NEW f \in Words, e # f,
           x # o \/ e # w, Conversation(p, t, x, a, b, e, f), NEW n
    PROVE  /\ t # <<>> /\ About(Head(t), o, v) /\ Answers(p, n, o, w, answer)
                 => Conversation(n, Tail(t), x, a, b, e, f)
           /\ p # <<>> /\ About(Head(p), o, w) /\ Answers(t, n, o, v, answer)
                 => Conversation(Tail(p), n, x, a, b, e, f)
<1>1. f = v => e = w
  BY WordsDiffer DEF Words
<1>2. Len(p) \in Nat /\ Len(t) \in Nat
  BY LenProperties
<1>3. ASSUME t # <<>>, About(Head(t), o, v), Answers(p, n, o, w, answer)
      PROVE  Conversation(n, Tail(t), x, a, b, e, f)
  <2>1. Conversation(n, t, x, a, b, e, f)
    BY <1>2, <1>3, Undisturbed
  <2>2. ~About(Head(t), x, f)
    <3>1. CASE x # o
      BY <1>3, <3>1 DEF About
    <3>2. CASE f # v
      BY <1>3, <3>2, WordsPartition DEF About
    <3> QED BY <1>1, <3>1, <3>2
  <2> QED BY <1>3, <2>1, <2>2, PassedBy
<1>4. ASSUME p # <<>>, About(Head(p), o, w), Answers(t, n, o, v, answer)
      PROVE  Conversation(Tail(p), n, x, a, b, e, f)
  <2>1. Conversation(p, n, x, a, b, e, f)
    <3>1. x # o \/ f # v
      BY <1>1
    <3> QED BY <1>2, <1>4, <3>1, Undisturbed
  <2>2. ~About(Head(p), x, e)
    <3>1. CASE x # o
      BY <1>4, <3>1 DEF About
    <3>2. CASE e # w
      BY <1>4, <3>2, WordsPartition DEF About
    <3> QED BY <3>1, <3>2
  <2> QED BY <1>4, <2>1, <2>2, PassedBy
<1> QED BY <1>3, <1>4

(* _negotiate of the server, about the client's end and about its own.     *)
LEMMA NegotiateHimKeeps ==
    ASSUME IInv, toServer # <<>>, NEW m, m = Head(toServer), m.cmd \in {"WILL", "WONT"},
           NEW supported \in BOOLEAN, NEW s,
           s = IF m.cmd = "WILL" THEN ReceivesYes(him[m.opt], supported) ELSE ReceivesNo(him[m.opt]),
           NegotiateHim(m.opt, s), toServer' = Tail(toServer),
           UNCHANGED <<peer, toggles, asks, reasked>>
    PROVE  IInv'
<1> DEFINE o == m.opt
<1>1. m \in ServerMsg /\ o \in Opts /\ About(m, o, OwnWord)
  <2>1. m \in ServerMsg
    BY HeadTailProperties DEF IInv, Streams
  <2> QED BY <2>1, WordsDiffer DEF ServerMsg, About
<1>2. him[o] \in Q /\ s.answer \in Replies /\ s.q \in Q
  <2>1. him[o] \in Q
    BY <1>1 DEF IInv, TypeOK
  <2> QED BY <2>1, AnswersAreWords DEF Replies
<1>3. him' = [him EXCEPT ![o] = s.q] /\ us' = us
  BY DEF NegotiateHim
<1>4. Sent(o, TheirWord, s.answer) /\ flags' \in [FlagNames -> BOOLEAN]
  <2> DEFINE ms == Said(TheirWord, o, s.answer)
  <2>1. ms \in Seq(ServerMsg) /\ Answers(<<>>, ms, o, TheirWord, s.answer)
    BY <1>1, <1>2, SaidAnswers DEF Words
  <2>2. ms \in Seq(Msg) /\ Plain(ms)
    BY Zenon, <2>1, ServerMsgs DEF Plain
  <2>3. EventWill(o, ms) \/ EventDo(o, ms) \/ NoEvent(ms)
    BY DEF NegotiateHim
  <2>4. toPeer \in Seq(Msg) /\ z \in BOOLEAN /\ flags \in [FlagNames -> BOOLEAN]
    BY DEF IInv, TypeOK, Streams, FlagNames
  <2> HIDE DEF ms
  <2> QED BY <1>1, <2>1, <2>2, <2>3, <2>4, EventsSent
<1>5. TypeOK'
  BY <1>2, <1>3, <1>4 DEF IInv, TypeOK, Sent, FlagNames, peer
<1>6. Streams'
  BY <1>4, HeadTailProperties DEF IInv, Streams, Sent
<1>7. Deflating'
  <2>1. inflating' = inflating
    BY DEF peer
  <2> QED BY <1>4, <2>1, SentDeflates DEF IInv, TypeOK, Streams
<1>8. Conversing'
  <2> SUFFICES ASSUME NEW x \in Opts
               PROVE  /\ x \notin reasked =>
                            Conversation(toPeer', toServer', x, us[x], phim[x], OwnWord, TheirWord)
                      /\ Conversation(toPeer', toServer', x, him'[x], pus[x], TheirWord, OwnWord)
    BY <1>3 DEF Conversing, peer
  <2>1. /\ toPeer \in Seq(Msg) /\ toServer \in Seq(ServerMsg) /\ Len(toPeer) \in Nat
        /\ Answers(toPeer, toPeer', o, TheirWord, s.answer) /\ toServer' = Tail(toServer)
        /\ OwnWord \in Words /\ TheirWord \in Words /\ OwnWord # TheirWord
    BY <1>4, LenProperties, WordsDiffer DEF IInv, Streams, Sent, Words
  <2>2. x \notin reasked => Conversation(toPeer, toServer, x, us[x], phim[x], OwnWord, TheirWord)
    BY DEF IInv, Conversing
  <2>3. Conversation(toPeer, toServer, x, him[x], pus[x], TheirWord, OwnWord)
    BY DEF IInv, Conversing
  <2>4. ASSUME x \notin reasked
        PROVE  Conversation(toPeer', Tail(toServer), x, us[x], phim[x], OwnWord, TheirWord)
    BY <1>1, <1>2, <2>1, <2>2, <2>4, OthersPass
  <2>5. CASE x # o
    <3>1. Conversation(toPeer', Tail(toServer), x, him[x], pus[x], TheirWord, OwnWord)
      BY <1>1, <1>2, <2>1, <2>3, <2>5, OthersPass
    <3>2. him'[x] = him[x]
      BY <1>3, <2>5 DEF IInv, TypeOK
    <3> QED BY <2>1, <2>4, <3>1, <3>2
  <2>6. CASE x = o
    <3>1. him'[x] = s.q
      BY <1>3, <2>6 DEF IInv, TypeOK
    <3>2. s = IF m.cmd = OwnWord.yes THEN ReceivesYes(him[o], supported) ELSE ReceivesNo(him[o])
      BY WordsDiffer
    <3>3. Conversation(toPeer', Tail(toServer), o, s.q, pus[o], TheirWord, OwnWord)
      BY <1>1, <2>1, <2>3, <2>6, <3>2, OneHearsStream
    <3> QED BY <2>1, <2>4, <2>6, <3>1, <3>3
  <2> QED BY <2>5, <2>6
<1> QED BY <1>5, <1>6, <1>7, <1>8 DEF IInv

LEMMA NegotiateUsKeeps ==
    ASSUME IInv, toServer # <<>>, NEW m, m = Head(toServer), m.cmd \in {"DO", "DONT"},
           NEW supported \in BOOLEAN, NEW s,
           s = IF m.cmd = "DO" THEN ReceivesYes(us[m.opt], supported) ELSE ReceivesNo(us[m.opt]),
           NegotiateUs(m.opt, s), toServer' = Tail(toServer),
           UNCHANGED <<peer, toggles, asks, reasked>>
    PROVE  IInv'
<1> DEFINE o == m.opt
<1>1. m \in ServerMsg /\ o \in Opts /\ About(m, o, TheirWord)
  <2>1. m \in ServerMsg
    BY HeadTailProperties DEF IInv, Streams
  <2> QED BY <2>1, WordsDiffer DEF ServerMsg, About
<1>2. us[o] \in Q /\ s.answer \in Replies /\ s.q \in Q
  <2>1. us[o] \in Q
    BY <1>1 DEF IInv, TypeOK
  <2> QED BY <2>1, AnswersAreWords DEF Replies
<1>3. us' = [us EXCEPT ![o] = s.q] /\ him' = him
  BY DEF NegotiateUs
<1>4. Sent(o, OwnWord, s.answer) /\ flags' \in [FlagNames -> BOOLEAN]
  <2> DEFINE ms == Said(OwnWord, o, s.answer)
  <2>1. ms \in Seq(ServerMsg) /\ Answers(<<>>, ms, o, OwnWord, s.answer)
    BY <1>1, <1>2, SaidAnswers DEF Words
  <2>2. ms \in Seq(Msg) /\ Plain(ms)
    BY Zenon, <2>1, ServerMsgs DEF Plain
  <2>3. EventWill(o, ms) \/ EventDo(o, ms) \/ EventDont(o, ms) \/ NoEvent(ms)
    BY DEF NegotiateUs
  <2>4. toPeer \in Seq(Msg) /\ z \in BOOLEAN /\ flags \in [FlagNames -> BOOLEAN]
    BY DEF IInv, TypeOK, Streams, FlagNames
  <2> HIDE DEF ms
  <2> QED BY <1>1, <2>1, <2>2, <2>3, <2>4, EventsSent
<1>5. TypeOK'
  BY <1>2, <1>3, <1>4 DEF IInv, TypeOK, Sent, FlagNames, peer
<1>6. Streams'
  BY <1>4, HeadTailProperties DEF IInv, Streams, Sent
<1>7. Deflating'
  <2>1. inflating' = inflating
    BY DEF peer
  <2> QED BY <1>4, <2>1, SentDeflates DEF IInv, TypeOK, Streams
<1>8. Conversing'
  <2> SUFFICES ASSUME NEW x \in Opts
               PROVE  /\ x \notin reasked =>
                            Conversation(toPeer', toServer', x, us'[x], phim[x], OwnWord, TheirWord)
                      /\ Conversation(toPeer', toServer', x, him[x], pus[x], TheirWord, OwnWord)
    BY <1>3 DEF Conversing, peer
  <2>1. /\ toPeer \in Seq(Msg) /\ toServer \in Seq(ServerMsg) /\ Len(toPeer) \in Nat
        /\ Answers(toPeer, toPeer', o, OwnWord, s.answer) /\ toServer' = Tail(toServer)
        /\ OwnWord \in Words /\ TheirWord \in Words /\ OwnWord # TheirWord
    BY <1>4, LenProperties, WordsDiffer DEF IInv, Streams, Sent, Words
  <2>2. x \notin reasked => Conversation(toPeer, toServer, x, us[x], phim[x], OwnWord, TheirWord)
    BY DEF IInv, Conversing
  <2>3. Conversation(toPeer, toServer, x, him[x], pus[x], TheirWord, OwnWord)
    BY DEF IInv, Conversing
  <2>4. Conversation(toPeer', Tail(toServer), x, him[x], pus[x], TheirWord, OwnWord)
    BY <1>1, <1>2, <2>1, <2>3, OthersPass
  <2>5. CASE x # o
    <3>1. x \notin reasked => Conversation(toPeer', Tail(toServer), x, us[x], phim[x], OwnWord, TheirWord)
      BY <1>1, <1>2, <2>1, <2>2, <2>5, OthersPass
    <3>2. us'[x] = us[x]
      BY <1>3, <2>5 DEF IInv, TypeOK
    <3> QED BY <2>1, <2>4, <3>1, <3>2
  <2>6. CASE x = o
    <3>1. us'[x] = s.q
      BY <1>3, <2>6 DEF IInv, TypeOK
    <3>2. s = IF m.cmd = TheirWord.yes THEN ReceivesYes(us[o], supported) ELSE ReceivesNo(us[o])
      BY WordsDiffer
    <3>3. o \notin reasked => Conversation(toPeer', Tail(toServer), o, s.q, phim[o], OwnWord, TheirWord)
      BY <1>1, <2>1, <2>2, <2>6, <3>2, OneHearsStream
    <3> QED BY <2>1, <2>4, <2>6, <3>1, <3>3
  <2> QED BY <2>5, <2>6
<1> QED BY <1>5, <1>6, <1>7, <1>8 DEF IInv

LEMMA ServerReceivesKeeps ==
    ASSUME IInv, ServerReceives
    PROVE  IInv'
<1> DEFINE m == Head(toServer)
<1>1. toServer # <<>> /\ toServer' = Tail(toServer) /\ UNCHANGED <<peer, toggles, asks, reasked>>
  BY DEF ServerReceives
<1>2. m \in ServerMsg /\ m.opt \in Opts /\ m.cmd \in {"WILL", "WONT", "DO", "DONT", "WIN32"}
  <2>1. m \in ServerMsg
    BY <1>1, HeadTailProperties DEF IInv, Streams
  <2> QED BY <2>1 DEF ServerMsg
<1>3. CASE m.cmd = "WILL"
  <2>1. NegotiateHim(m.opt, ReceivesYes(him[m.opt], m.opt \in TeloptsHim))
    BY <1>3 DEF ServerReceives
  <2>2. (m.opt \in TeloptsHim) \in BOOLEAN
    OBVIOUS
  <2> QED BY <1>1, <1>3, <2>1, <2>2, NegotiateHimKeeps
<1>4. CASE m.cmd = "WONT"
  <2>1. NegotiateHim(m.opt, ReceivesNo(him[m.opt]))
    BY <1>4 DEF ServerReceives
  <2> QED BY <1>1, <1>4, <2>1, NegotiateHimKeeps
<1>5. CASE m.cmd = "DO"
  <2>1. NegotiateUs(m.opt, ReceivesYes(us[m.opt], m.opt \in TeloptsUs))
    BY <1>5 DEF ServerReceives
  <2>2. (m.opt \in TeloptsUs) \in BOOLEAN
    OBVIOUS
  <2> QED BY <1>1, <1>5, <2>1, <2>2, NegotiateUsKeeps
<1>6. CASE m.cmd = "DONT"
  <2>1. NegotiateUs(m.opt, ReceivesNo(us[m.opt]))
    BY <1>6 DEF ServerReceives
  <2> QED BY <1>1, <1>6, <2>1, NegotiateUsKeeps
<1>7. CASE m.cmd = "WIN32"
  <2>1. /\ flags' = [flags EXCEPT !.force_echo = TRUE, !.do_echo = @ \/ flags.want_echo]
        /\ UNCHANGED <<us, him, z, toPeer>>
    BY <1>7 DEF ServerReceives
  <2>2. TypeOK'
    BY <1>1, <2>1 DEF IInv, TypeOK, peer
  <2>3. Streams' /\ Deflating'
    BY <1>1, <2>1, HeadTailProperties DEF IInv, Streams, Deflating, Readable, Begun, peer
  <2>4. Conversing'
    <3>1. toServer \in Seq(ServerMsg) /\ \A x : ~About(m, x, OwnWord) /\ ~About(m, x, TheirWord)
      BY <1>7, WordsDiffer DEF IInv, Streams, About
    <3>2. \A x \in Opts : \A a, b : Conversation(toPeer, toServer, x, a, b, OwnWord, TheirWord)
             => Conversation(toPeer, Tail(toServer), x, a, b, OwnWord, TheirWord)
      BY <1>1, <3>1, PassedBy
    <3>3. \A x \in Opts : \A a, b : Conversation(toPeer, toServer, x, a, b, TheirWord, OwnWord)
             => Conversation(toPeer, Tail(toServer), x, a, b, TheirWord, OwnWord)
      BY <1>1, <3>1, PassedBy
    <3> QED BY <1>1, <2>1, <3>2, <3>3 DEF IInv, Conversing, peer
  <2> QED BY <2>2, <2>3, <2>4 DEF IInv
<1> QED BY <1>2, <1>3, <1>4, <1>5, <1>6, <1>7

(* What the client sends is added as it is.                                *)
LEMMA PeerSends ==
    ASSUME toServer \in Seq(ServerMsg), NEW o \in Opts, NEW w \in Words, NEW answer \in Replies
    PROVE  /\ toServer \o Said(w, o, answer) \in Seq(ServerMsg)
           /\ Answers(toServer, toServer \o Said(w, o, answer), o, w, answer)
<1>1. Said(w, o, answer) \in Seq(ServerMsg) /\ Answers(<<>>, Said(w, o, answer), o, w, answer)
  BY SaidAnswers
<1>2. toServer \o Said(w, o, answer) \in Seq(ServerMsg)
  BY <1>1, ConcatProperties
<1> QED BY <1>1, <1>2, AnswersBehind

(* The client hears about an option of the server.                         *)
LEMMA PeerHearsHim ==
    ASSUME IInv, toPeer # <<>>, NEW m, m = Head(toPeer), m.cmd \in {"WILL", "WONT"},
           NEW supported \in BOOLEAN, NEW s,
           s = IF m.cmd = "WILL" THEN ReceivesYes(phim[m.opt], supported) ELSE ReceivesNo(phim[m.opt]),
           phim' = [phim EXCEPT ![m.opt] = s.q], pus' = pus,
           toServer' = toServer \o Said(TheirWord, m.opt, s.answer),
           toPeer' = Tail(toPeer), UNCHANGED reasked, us' = us, him' = him
    PROVE  /\ Conversing' /\ phim' \in [Opts -> Q] /\ toServer' \in Seq(ServerMsg)
<1> DEFINE o == m.opt
<1>1. m \in Msg /\ o \in Opts /\ About(m, o, OwnWord)
  <2>1. m \in Msg
    BY HeadTailProperties DEF IInv, Streams
  <2> QED BY <2>1, WordsDiffer DEF Msg, About
<1>2. phim[o] \in Q /\ s.answer \in Replies /\ s.q \in Q
  <2>1. phim[o] \in Q
    BY <1>1 DEF IInv, TypeOK
  <2> QED BY Zenon, <2>1, AnswersAreWords DEF Replies
<1>3. /\ toPeer \in Seq(Msg) /\ toServer \in Seq(ServerMsg) /\ Len(toServer) \in Nat
      /\ OwnWord \in Words /\ TheirWord \in Words /\ OwnWord # TheirWord
  BY LenProperties, WordsDiffer DEF IInv, Streams, Words
<1>4. /\ toServer' \in Seq(ServerMsg)
      /\ Answers(toServer, toServer', o, TheirWord, s.answer)
  BY Zenon, <1>1, <1>2, <1>3, PeerSends
<1>5. phim' \in [Opts -> Q]
  BY Zenon, <1>2 DEF IInv, TypeOK
<1>6. Conversing'
  <2> SUFFICES ASSUME NEW x \in Opts
               PROVE  /\ x \notin reasked =>
                            Conversation(toPeer', toServer', x, us[x], phim'[x], OwnWord, TheirWord)
                      /\ Conversation(toPeer', toServer', x, him[x], pus[x], TheirWord, OwnWord)
    BY Zenon DEF Conversing
  <2>1. x \notin reasked => Conversation(toPeer, toServer, x, us[x], phim[x], OwnWord, TheirWord)
    BY DEF IInv, Conversing
  <2>2. Conversation(toPeer, toServer, x, him[x], pus[x], TheirWord, OwnWord)
    BY DEF IInv, Conversing
  <2>3. Conversation(Tail(toPeer), toServer', x, him[x], pus[x], TheirWord, OwnWord)
    BY Zenon, <1>1, <1>2, <1>3, <1>4, <2>2, OthersPass
  <2>4. CASE x # o
    <3>1. x \notin reasked => Conversation(Tail(toPeer), toServer', x, us[x], phim[x], OwnWord, TheirWord)
      BY Zenon, <1>1, <1>2, <1>3, <1>4, <2>1, <2>4, OthersPass
    <3>2. phim'[x] = phim[x]
      BY <2>4 DEF IInv, TypeOK
    <3> QED BY Zenon, <2>3, <3>1, <3>2
  <2>5. CASE x = o
    <3>1. phim'[x] = s.q
      BY <2>5 DEF IInv, TypeOK
    <3>2. s = IF m.cmd = OwnWord.yes THEN ReceivesYes(phim[o], supported) ELSE ReceivesNo(phim[o])
      BY WordsDiffer
    <3>3. o \notin reasked => Conversation(Tail(toPeer), toServer', o, us[o], s.q, OwnWord, TheirWord)
      BY Zenon, <1>1, <1>3, <1>4, <2>1, <2>5, <3>2, OtherHearsStream
    <3> QED BY Zenon, <2>3, <2>5, <3>1, <3>3
  <2> QED BY Zenon, <2>4, <2>5
<1> QED BY Zenon, <1>4, <1>5, <1>6
(* The client hears about an option of its own.                            *)
LEMMA PeerHearsUs ==
    ASSUME IInv, toPeer # <<>>, NEW m, m = Head(toPeer), m.cmd \in {"DO", "DONT"},
           NEW supported \in BOOLEAN, NEW s,
           s = IF m.cmd = "DO" THEN ReceivesYes(pus[m.opt], supported) ELSE ReceivesNo(pus[m.opt]),
           pus' = [pus EXCEPT ![m.opt] = s.q], phim' = phim,
           toServer' = toServer \o Said(OwnWord, m.opt, s.answer),
           toPeer' = Tail(toPeer), UNCHANGED reasked, us' = us, him' = him
    PROVE  /\ Conversing' /\ pus' \in [Opts -> Q] /\ toServer' \in Seq(ServerMsg)
<1> DEFINE o == m.opt
<1>1. m \in Msg /\ o \in Opts /\ About(m, o, TheirWord)
  <2>1. m \in Msg
    BY HeadTailProperties DEF IInv, Streams
  <2> QED BY <2>1, WordsDiffer DEF Msg, About
<1>2. pus[o] \in Q /\ s.answer \in Replies /\ s.q \in Q
  <2>1. pus[o] \in Q
    BY Zenon, <1>1 DEF IInv, TypeOK
  <2> QED BY Zenon, <2>1, AnswersAreWords DEF Replies
<1>3. /\ toPeer \in Seq(Msg) /\ toServer \in Seq(ServerMsg) /\ Len(toServer) \in Nat
      /\ OwnWord \in Words /\ TheirWord \in Words /\ OwnWord # TheirWord
  BY LenProperties, WordsDiffer DEF IInv, Streams, Words
<1>4. /\ toServer' \in Seq(ServerMsg)
      /\ Answers(toServer, toServer', o, OwnWord, s.answer)
  BY <1>1, <1>2, <1>3, PeerSends
<1>5. pus' \in [Opts -> Q]
  BY Zenon, <1>2 DEF IInv, TypeOK
<1>6. Conversing'
  <2> SUFFICES ASSUME NEW x \in Opts
               PROVE  /\ x \notin reasked =>
                            Conversation(toPeer', toServer', x, us[x], phim[x], OwnWord, TheirWord)
                      /\ Conversation(toPeer', toServer', x, him[x], pus'[x], TheirWord, OwnWord)
    BY Zenon DEF Conversing
  <2>1. x \notin reasked => Conversation(toPeer, toServer, x, us[x], phim[x], OwnWord, TheirWord)
    BY DEF IInv, Conversing
  <2>2. Conversation(toPeer, toServer, x, him[x], pus[x], TheirWord, OwnWord)
    BY DEF IInv, Conversing
  <2>3. ASSUME x \notin reasked
        PROVE  Conversation(Tail(toPeer), toServer', x, us[x], phim[x], OwnWord, TheirWord)
    BY Zenon, <1>1, <1>2, <1>3, <1>4, <2>1, <2>3, OthersPass
  <2>4. CASE x # o
    <3>1. Conversation(Tail(toPeer), toServer', x, him[x], pus[x], TheirWord, OwnWord)
      BY Zenon, <1>1, <1>2, <1>3, <1>4, <2>2, <2>4, OthersPass
    <3>2. pus'[x] = pus[x]
      BY <2>4 DEF IInv, TypeOK
    <3> QED BY Zenon, <2>3, <3>1, <3>2
  <2>5. CASE x = o
    <3>1. pus'[x] = s.q
      BY <2>5 DEF IInv, TypeOK
    <3>2. s = IF m.cmd = TheirWord.yes THEN ReceivesYes(pus[o], supported) ELSE ReceivesNo(pus[o])
      BY WordsDiffer
    <3>3. Conversation(Tail(toPeer), toServer', o, him[o], s.q, TheirWord, OwnWord)
      BY Zenon, <1>1, <1>3, <1>4, <2>2, <2>5, <3>2, OtherHearsStream
    <3> QED BY Zenon, <2>3, <2>5, <3>1, <3>3
  <2> QED BY Zenon, <2>4, <2>5
<1> QED BY Zenon, <1>4, <1>5, <1>6

LEMMA PeerReceivesKeeps ==
    ASSUME IInv, PeerReceives
    PROVE  IInv'
<1> DEFINE m == Head(toPeer)  o == m.opt
<1>1. /\ toPeer # <<>> /\ toPeer' = Tail(toPeer) /\ UNCHANGED <<server, toggles, asks>>
      /\ PeerTakes(m, o)
  BY DEF PeerReceives
<1>2. m \in Msg /\ o \in Opts /\ toPeer' \in Seq(Msg)
  <2>1. m \in Msg /\ toPeer' \in Seq(Msg)
    BY <1>1, HeadTailProperties DEF IInv, Streams
  <2> QED BY <2>1 DEF Msg
<1>3. inflating' = (inflating \/ m.cmd = "MARK")
  BY <1>1 DEF PeerTakes
<1>4. Deflating'
  BY <1>1, <1>3, TailDeflates DEF IInv, TypeOK, Streams, server
<1>5. (Conversing' /\ pus' \in [Opts -> Q] /\ phim' \in [Opts -> Q] /\ toServer' \in Seq(ServerMsg)) => IInv'
  <2>1. inflating' \in BOOLEAN
    BY <1>3
  <2> QED BY <1>1, <1>2, <1>4, <2>1 DEF IInv, TypeOK, Streams, server
<1>6. pus \in [Opts -> Q] /\ phim \in [Opts -> Q] /\ reasked' = reasked /\ us' = us /\ him' = him
  BY <1>1 DEF IInv, TypeOK, server
<1> DEFINE accepts == o \in PeerAccepts
<1>7. accepts \in BOOLEAN
  OBVIOUS
<1>8. CASE m.cmd \in {"WILL", "WONT"}
  <2> DEFINE s == IF m.cmd = "WILL" THEN ReceivesYes(phim[o], accepts) ELSE ReceivesNo(phim[o])
  <2>1. /\ phim' = [phim EXCEPT ![o] = s.q] /\ pus' = pus
        /\ toServer' = toServer \o Said(TheirWord, o, s.answer)
    BY <1>1, <1>8 DEF PeerTakes
  <2> HIDE DEF s
  <2>2. Conversing' /\ phim' \in [Opts -> Q] /\ toServer' \in Seq(ServerMsg)
    BY Zenon, <1>1, <1>6, <1>7, <1>8, <2>1, PeerHearsHim DEF s
  <2> QED BY <1>5, <1>6, <2>1, <2>2
<1>9. CASE m.cmd \in {"DO", "DONT"}
  <2> DEFINE s == IF m.cmd = "DO" THEN ReceivesYes(pus[o], accepts) ELSE ReceivesNo(pus[o])
  <2>1. /\ pus' = [pus EXCEPT ![o] = s.q] /\ phim' = phim
        /\ toServer' = toServer \o Said(OwnWord, o, s.answer)
    BY <1>1, <1>9 DEF PeerTakes
  <2> HIDE DEF s
  <2>2. Conversing' /\ pus' \in [Opts -> Q] /\ toServer' \in Seq(ServerMsg)
    BY Zenon, <1>1, <1>6, <1>7, <1>9, <2>1, PeerHearsUs DEF s
  <2> QED BY <1>5, <1>6, <2>1, <2>2
<1>10. CASE m.cmd \notin {"WILL", "WONT", "DO", "DONT"}
  <2>1. /\ UNCHANGED <<pus, phim>>
        /\ toServer' = toServer \/ toServer' = Append(toServer, Message("WIN32", o))
    BY <1>1, <1>10 DEF PeerTakes
  <2>2. toServer \in Seq(ServerMsg) /\ toPeer \in Seq(Msg) /\ Len(toServer) \in Nat /\ Len(toPeer) \in Nat
    BY LenProperties DEF IInv, Streams
  <2>3. toServer' \in Seq(ServerMsg) /\ Answers(toServer, toServer', o, OwnWord, "none")
    <3>1. Message("WIN32", o) \in ServerMsg /\ Message("WIN32", o).cmd = "WIN32"
      BY <1>2 DEF Message, ServerMsg
    <3>2. CASE toServer' = toServer
      BY <2>2, <3>2 DEF Answers
    <3>3. CASE toServer' = Append(toServer, Message("WIN32", o))
      <4> DEFINE n == Message("WIN32", o)
      <4> HIDE DEF n
      <4>1. /\ Append(toServer, n) \in Seq(ServerMsg) /\ Len(Append(toServer, n)) = Len(toServer) + 1
            /\ \A k \in 1 .. Len(toServer) : Append(toServer, n)[k] = toServer[k]
            /\ Append(toServer, n)[Len(toServer) + 1] = n
        BY <2>2, <3>1, AppendProperties DEF n
      <4>2. n.cmd = "WIN32"
        BY <3>1 DEF n
      <4>3. toServer' = Append(toServer, n)
        BY <3>3 DEF n
      <4> QED BY <2>2, <4>1, <4>2, <4>3 DEF Answers
    <3> QED BY <2>1, <3>2, <3>3
  <2>4. /\ \A x : \A w \in Words : ~About(m, x, w)
        /\ OwnWord \in Words /\ TheirWord \in Words /\ "none" \in Replies
    BY <1>10, WordsDiffer DEF About, Words, Replies
  <2>5. ASSUME NEW x \in Opts, NEW a, NEW b, NEW w \in Words, NEW v \in Words,
               Conversation(toPeer, toServer, x, a, b, w, v)
        PROVE  Conversation(toPeer', toServer', x, a, b, w, v)
    <3>1. Conversation(toPeer, toServer', x, a, b, w, v)
      BY <2>2, <2>3, <2>4, <2>5, Undisturbed
    <3> QED BY <1>1, <2>2, <2>4, <3>1, PassedBy
  <2>6. Conversing'
    <3>1. OwnWord \in Words /\ TheirWord \in Words
      BY <2>4
    <3> QED BY <1>6, <2>1, <2>5, <3>1 DEF IInv, Conversing
  <2> QED BY <1>5, <1>6, <2>1, <2>3, <2>6
<1> QED BY <1>8, <1>9, <1>10

LEMMA PeerAsksKeeps ==
    ASSUME IInv, NEW o \in Opts, PeerAsks(o)
    PROVE  IInv'
<1> DEFINE s == IF phim[o] = "YES" THEN AskNo(phim[o]) ELSE AskYes(phim[o])
<1>1. /\ phim[o] \in {"YES", "NO"} /\ asks < MaxAsks /\ asks' = asks + 1
      /\ phim' = [phim EXCEPT ![o] = s.q] /\ toServer' = toServer \o Said(TheirWord, o, s.answer)
      /\ UNCHANGED <<server, pus, inflating, toPeer, toggles>>
  BY DEF PeerAsks
<1>2. s.answer \in Replies /\ s.q \in Q
  <2>1. phim[o] \in Q
    BY DEF IInv, TypeOK
  <2> QED BY <2>1, AnswersAreWords DEF Replies
<1> HIDE DEF s
<1>3. /\ toPeer \in Seq(Msg) /\ toServer \in Seq(ServerMsg) /\ Len(toServer) \in Nat /\ Len(toPeer) \in Nat
      /\ OwnWord \in Words /\ TheirWord \in Words /\ OwnWord # TheirWord
  BY LenProperties, WordsDiffer DEF IInv, Streams, Words
<1>4. /\ toServer' \in Seq(ServerMsg)
      /\ Answers(toServer, toServer', o, TheirWord, s.answer)
  BY <1>1, <1>2, <1>3, PeerSends
<1>5. TypeOK'
  <2>1. asks' \in 0 .. MaxAsks
    BY <1>1, BoundsAssumption DEF IInv, TypeOK
  <2> QED BY <1>1, <1>2, <2>1 DEF IInv, TypeOK, server
<1>6. Streams' /\ Deflating'
  BY <1>1, <1>3, <1>4 DEF IInv, Streams, Deflating, Readable, Begun, server
<1>7. Conversing'
  <2> SUFFICES ASSUME NEW x \in Opts
               PROVE  /\ x \notin reasked =>
                            Conversation(toPeer, toServer', x, us[x], phim'[x], OwnWord, TheirWord)
                      /\ Conversation(toPeer, toServer', x, him[x], pus[x], TheirWord, OwnWord)
    BY <1>1 DEF Conversing, server
  <2>1. x \notin reasked => Conversation(toPeer, toServer, x, us[x], phim[x], OwnWord, TheirWord)
    BY DEF IInv, Conversing
  <2>2. Conversation(toPeer, toServer, x, him[x], pus[x], TheirWord, OwnWord)
    BY DEF IInv, Conversing
  <2>3. Conversation(toPeer, toServer', x, him[x], pus[x], TheirWord, OwnWord)
    BY <1>2, <1>3, <1>4, <2>2, Undisturbed
  <2>4. CASE x # o
    <3>1. x \notin reasked => Conversation(toPeer, toServer', x, us[x], phim[x], OwnWord, TheirWord)
      BY <1>2, <1>3, <1>4, <2>1, <2>4, Undisturbed
    <3>2. phim'[x] = phim[x]
      BY <1>1, <2>4 DEF IInv, TypeOK
    <3> QED BY <2>3, <3>1, <3>2
  <2>5. CASE x = o
    <3>1. phim'[x] = s.q
      BY <1>1, <2>5 DEF IInv, TypeOK
    <3>2. s = IF phim[o] = "YES" THEN AskNo(phim[o]) ELSE AskYes(phim[o])
      BY DEF s
    <3>3. o \notin reasked => Conversation(toPeer, toServer', o, us[o], s.q, OwnWord, TheirWord)
      BY <1>1, <1>3, <1>4, <2>1, <2>5, <3>2, OtherAsksStream
    <3> QED BY <2>3, <2>5, <3>1, <3>3
  <2> QED BY <2>4, <2>5
<1> QED BY <1>5, <1>6, <1>7 DEF IInv

(* telnet_negotiate.                                                       *)
LEMMA NegotiateKeeps ==
    ASSUME IInv, NEW o \in Opts, NEW s \in {AskYes(us[o]), AskNo(us[o])}, Negotiate(o, s),
           flags' \in [FlagNames -> BOOLEAN], toggles < MaxToggles, toggles' = toggles + 1,
           UNCHANGED <<peer, toServer, asks>>
    PROVE  IInv'
<1>1. /\ us' = [us EXCEPT ![o] = s.q] /\ toPeer' = toPeer \o Send(Said(OwnWord, o, s.answer))
      /\ reasked' = (IF s.q = "WANTNO_OP" THEN reasked \cup {o} ELSE reasked)
      /\ him' = him /\ z' = z
  BY DEF Negotiate
<1>2. s.answer \in Replies /\ s.q \in Q
  <2>1. us[o] \in Q
    BY DEF IInv, TypeOK
  <2> QED BY <2>1, AnswersAreWords DEF Replies
<1>3. /\ toPeer \in Seq(Msg) /\ toServer \in Seq(ServerMsg) /\ Len(toServer) \in Nat /\ Len(toPeer) \in Nat
      /\ OwnWord \in Words /\ TheirWord \in Words /\ OwnWord # TheirWord /\ z \in BOOLEAN
  BY LenProperties, WordsDiffer DEF IInv, TypeOK, Streams, Words
<1>4. Sent(o, OwnWord, s.answer)
  <2> DEFINE ms == Said(OwnWord, o, s.answer)
  <2>1. ms \in Seq(ServerMsg) /\ Answers(<<>>, ms, o, OwnWord, s.answer)
    BY <1>2, <1>3, SaidAnswers
  <2>2. ms \in Seq(Msg) /\ Plain(ms)
    BY <2>1, ServerMsgs DEF Plain
  <2> HIDE DEF ms
  <2>3. toPeer' = toPeer \o Send(ms)
    BY <1>1 DEF ms
  <2> QED BY <1>1, <1>3, <2>1, <2>2, <2>3, NoEventSent
<1>5. TypeOK'
  <2>1. toggles' \in 0 .. MaxToggles
    BY BoundsAssumption DEF IInv, TypeOK
  <2>2. us' \in [Opts -> Q] /\ reasked' \in SUBSET Opts
    BY <1>1, <1>2 DEF IInv, TypeOK
  <2> QED BY <1>1, <2>1, <2>2 DEF IInv, TypeOK, FlagNames, peer
<1>6. Streams'
  BY <1>4 DEF IInv, Streams, Sent
<1>7. Deflating'
  <2>1. inflating' = inflating
    BY DEF peer
  <2> QED BY <1>4, <2>1, SentDeflates DEF IInv, TypeOK, Streams
<1>8. Conversing'
  <2> SUFFICES ASSUME NEW x \in Opts
               PROVE  /\ x \notin reasked' =>
                            Conversation(toPeer', toServer, x, us'[x], phim[x], OwnWord, TheirWord)
                      /\ Conversation(toPeer', toServer, x, him[x], pus[x], TheirWord, OwnWord)
    BY <1>1 DEF Conversing, peer
  <2>1. x \notin reasked => Conversation(toPeer, toServer, x, us[x], phim[x], OwnWord, TheirWord)
    BY DEF IInv, Conversing
  <2>2. Conversation(toPeer, toServer, x, him[x], pus[x], TheirWord, OwnWord)
    BY DEF IInv, Conversing
  <2>3. Answers(toPeer, toPeer', o, OwnWord, s.answer)
    BY <1>4 DEF Sent
  <2>4. Conversation(toPeer', toServer, x, him[x], pus[x], TheirWord, OwnWord)
    BY <1>2, <1>3, <2>2, <2>3, Undisturbed
  <2>5. reasked \subseteq reasked'
    BY <1>1
  <2>6. CASE x # o
    <3>1. x \notin reasked => Conversation(toPeer', toServer, x, us[x], phim[x], OwnWord, TheirWord)
      BY <1>2, <1>3, <2>1, <2>3, <2>6, Undisturbed
    <3>2. us'[x] = us[x]
      BY <1>1, <2>6 DEF IInv, TypeOK
    <3> QED BY <2>4, <2>5, <3>1, <3>2
  <2>7. CASE x = o
    <3>1. us'[x] = s.q
      BY <1>1, <2>7 DEF IInv, TypeOK
    <3>2. ASSUME x \notin reasked'
          PROVE  Conversation(toPeer', toServer, x, s.q, phim[x], OwnWord, TheirWord)
      <4>1. s.q # "WANTNO_OP" /\ o \notin reasked
        BY <1>1, <2>7, <3>2
      <4> QED BY <1>3, <2>1, <2>3, <2>7, <4>1, OneAsksStream
    <3> QED BY <2>4, <3>1, <3>2
  <2> QED BY <2>6, <2>7
<1> QED BY <1>5, <1>6, <1>7, <1>8 DEF IInv

LEMMA ToggleEchoKeeps ==
    ASSUME IInv, NEW v \in BOOLEAN, ToggleEcho(v)
    PROVE  IInv'
<1>1. /\ "ECHO" \in Opts /\ toggles < MaxToggles /\ toggles' = toggles + 1
      /\ UNCHANGED <<peer, toServer, asks>>
      /\ Negotiate("ECHO", IF v THEN AskNo(us["ECHO"]) ELSE AskYes(us["ECHO"]))
  BY DEF ToggleEcho
<1>2. flags' \in [FlagNames -> BOOLEAN]
  BY DEF ToggleEcho, IInv, TypeOK, FlagNames
<1>3. (IF v THEN AskNo(us["ECHO"]) ELSE AskYes(us["ECHO"])) \in {AskYes(us["ECHO"]), AskNo(us["ECHO"])}
  OBVIOUS
<1> QED BY <1>1, <1>2, <1>3, NegotiateKeeps

LEMMA EchoCommandKeeps ==
    ASSUME IInv, NEW on \in BOOLEAN, EchoCommand(on)
    PROVE  IInv'
<1>1. /\ "ECHO" \in Opts /\ toggles < MaxToggles /\ toggles' = toggles + 1
      /\ UNCHANGED <<peer, toServer, asks>>
  BY DEF EchoCommand
<1>2. flags' \in [FlagNames -> BOOLEAN]
  <2>1. CASE on
    BY <2>1 DEF EchoCommand, IInv, TypeOK, FlagNames
  <2>2. CASE ~on
    BY <2>2 DEF EchoCommand, IInv, TypeOK, FlagNames
  <2> QED BY <2>1, <2>2
<1>3. CASE Negotiate("ECHO", AskNo(us["ECHO"]))
  BY <1>1, <1>2, <1>3, NegotiateKeeps
<1>4. CASE UNCHANGED <<us, him, z, reasked, toPeer>>
  <2>1. TypeOK'
    <3>1. toggles' \in 0 .. MaxToggles
      BY <1>1, BoundsAssumption DEF IInv, TypeOK
    <3> QED BY <1>1, <1>2, <1>4, <3>1 DEF IInv, TypeOK, FlagNames, peer
  <2>2. Streams' /\ Deflating' /\ Conversing'
    BY <1>1, <1>4 DEF IInv, Streams, Deflating, Readable, Begun, Conversing, peer
  <2> QED BY <2>1, <2>2 DEF IInv
<1> QED BY <1>3, <1>4 DEF EchoCommand

-----------------------------------------------------------------------------
(* The constructor's offers and wishes: plain messages, and the words said *)
(* about the options in "own" and in "other".                              *)
Opened(p, own, other) ==
    /\ p \in Seq(Msg)
    /\ \A k \in 1 .. Len(p) : p[k].z = FALSE /\ p[k].cmd # "MARK"
    /\ \A x \in Opts : /\ Says(p, x, OwnWord, IF x \in own THEN "yes" ELSE "none")
                       /\ Says(p, x, TheirWord, IF x \in other THEN "yes" ELSE "none")

LEMMA OpeningAnswers ==
    ASSUME NEW p \in Seq(Msg), \A k \in 1 .. Len(p) : p[k].z = FALSE /\ p[k].cmd # "MARK",
           NEW o, NEW w \in Words, NEW cmd, cmd = w.yes
    PROVE  LET q == p \o Opening(cmd, o)
           IN /\ q \in Seq(Msg)
              /\ \A k \in 1 .. Len(q) : q[k].z = FALSE /\ q[k].cmd # "MARK"
              /\ Answers(p, q, o, w, IF o \in Opts THEN "yes" ELSE "none")
<1> DEFINE ms == Opening(cmd, o)  answer == IF o \in Opts THEN "yes" ELSE "none"
<1>1. w.yes \in {"WILL", "DO"} /\ w["yes"] = w.yes
  BY WordsDiffer DEF Words
<1>2. /\ ms \in Seq(Msg) /\ Answers(<<>>, ms, o, w, answer)
      /\ \A k \in 1 .. Len(ms) : ms[k].z = FALSE /\ ms[k].cmd # "MARK"
  <2>1. CASE o \in Opts
    <3>1. ms = <<Message(cmd, o)>> /\ answer = "yes"
      BY <2>1 DEF Opening
    <3>2. /\ Message(cmd, o) \in Msg /\ Message(cmd, o).z = FALSE
          /\ Message(cmd, o).cmd = cmd /\ Message(cmd, o).opt = o
      BY <1>1, <2>1 DEF Message, Msg
    <3> QED BY <1>1, <3>1, <3>2 DEF Answers
  <2>2. CASE o \notin Opts
    BY <2>2 DEF Opening, Answers
  <2> QED BY <2>1, <2>2
<1> HIDE DEF ms, answer
<1>3. Answers(p, p \o ms, o, w, answer)
  BY <1>2, AnswersBehind
<1>4. /\ p \o ms \in Seq(Msg) /\ Len(p) \in Nat /\ Len(ms) \in Nat
      /\ Len(p \o ms) = Len(p) + Len(ms)
      /\ \A k \in 1 .. Len(p) + Len(ms) :
            (p \o ms)[k] = IF k <= Len(p) THEN p[k] ELSE ms[k - Len(p)]
  BY <1>2, ConcatProperties, LenProperties
<1>5. \A k \in 1 .. Len(p) + Len(ms) : k \in 1 .. Len(p) \/ k - Len(p) \in 1 .. Len(ms)
  BY <1>4
<1>6. \A k \in 1 .. Len(p \o ms) : (p \o ms)[k].z = FALSE /\ (p \o ms)[k].cmd # "MARK"
  <2> SUFFICES ASSUME NEW k \in 1 .. Len(p \o ms)
               PROVE  (p \o ms)[k].z = FALSE /\ (p \o ms)[k].cmd # "MARK"
    OBVIOUS
  <2>1. CASE k <= Len(p)
    BY <1>4, <2>1
  <2>2. CASE ~(k <= Len(p))
    BY <1>2, <1>4, <1>5, <2>2
  <2> QED BY <2>1, <2>2
<1> QED BY <1>3, <1>4, <1>6 DEF ms, answer

LEMMA Opens ==
    ASSUME NEW p, NEW own, NEW other, Opened(p, own, other), NEW o
    PROVE  /\ o \notin own => Opened(p \o Opening("WILL", o), own \cup {o}, other)
           /\ o \notin other => Opened(p \o Opening("DO", o), own, other \cup {o})
<1> DEFINE answer == IF o \in Opts THEN "yes" ELSE "none"
<1>1. /\ p \in Seq(Msg) /\ Len(p) \in Nat
      /\ \A k \in 1 .. Len(p) : p[k].z = FALSE /\ p[k].cmd # "MARK"
  BY LenProperties DEF Opened
<1>2. /\ OwnWord \in Words /\ TheirWord \in Words /\ OwnWord # TheirWord
      /\ OwnWord.yes = "WILL" /\ TheirWord.yes = "DO"
  BY WordsDiffer DEF Words
<1>3. answer \in Replies /\ (o \in Opts => answer = "yes")
  BY DEF Replies
<1>4. /\ "none" \in Unheard /\ "yes" \in Unheard
      /\ Then("none", "yes") = "yes"
  BY ThenAdds DEF Unheard
<1>5. ASSUME o \notin own PROVE Opened(p \o Opening("WILL", o), own \cup {o}, other)
  <2> DEFINE q == p \o Opening("WILL", o)
  <2>1. /\ q \in Seq(Msg) /\ \A k \in 1 .. Len(q) : q[k].z = FALSE /\ q[k].cmd # "MARK"
        /\ Answers(p, q, o, OwnWord, answer)
    BY <1>1, <1>2, OpeningAnswers
  <2> HIDE DEF q, answer
  <2>2. ASSUME NEW x \in Opts
        PROVE  /\ Says(q, x, OwnWord, IF x \in own \cup {o} THEN "yes" ELSE "none")
               /\ Says(q, x, TheirWord, IF x \in other THEN "yes" ELSE "none")
    <3>1. Says(q, x, TheirWord, IF x \in other THEN "yes" ELSE "none")
      <4>1. Says(p, x, TheirWord, IF x \in other THEN "yes" ELSE "none")
        BY DEF Opened
      <4> QED BY <1>1, <1>2, <1>3, <2>1, <4>1, OthersSaid
    <3>2. CASE x # o
      <4>1. Says(p, x, OwnWord, IF x \in own THEN "yes" ELSE "none")
        BY DEF Opened
      <4>2. Says(q, x, OwnWord, IF x \in own THEN "yes" ELSE "none")
        BY <1>1, <1>2, <1>3, <2>1, <3>2, <4>1, OthersSaid
      <4> QED BY <3>1, <3>2, <4>2
    <3>3. CASE x = o
      <4>1. Says(p, o, OwnWord, "none") /\ answer = "yes"
        BY <1>3, <1>5, <3>3 DEF Opened
      <4>2. Says(q, o, OwnWord, "yes")
        BY <1>1, <1>2, <1>3, <1>4, <2>1, <4>1, SaysMore
      <4> QED BY <3>1, <3>3, <4>2
    <3> QED BY <3>2, <3>3
  <2> QED BY <2>1, <2>2 DEF Opened, q
<1>6. ASSUME o \notin other PROVE Opened(p \o Opening("DO", o), own, other \cup {o})
  <2> DEFINE q == p \o Opening("DO", o)
  <2>1. /\ q \in Seq(Msg) /\ \A k \in 1 .. Len(q) : q[k].z = FALSE /\ q[k].cmd # "MARK"
        /\ Answers(p, q, o, TheirWord, answer)
    BY <1>1, <1>2, OpeningAnswers
  <2> HIDE DEF q, answer
  <2>2. ASSUME NEW x \in Opts
        PROVE  /\ Says(q, x, TheirWord, IF x \in other \cup {o} THEN "yes" ELSE "none")
               /\ Says(q, x, OwnWord, IF x \in own THEN "yes" ELSE "none")
    <3>1. Says(q, x, OwnWord, IF x \in own THEN "yes" ELSE "none")
      <4>1. Says(p, x, OwnWord, IF x \in own THEN "yes" ELSE "none")
        BY DEF Opened
      <4> QED BY <1>1, <1>2, <1>3, <2>1, <4>1, OthersSaid
    <3>2. CASE x # o
      <4>1. Says(p, x, TheirWord, IF x \in other THEN "yes" ELSE "none")
        BY DEF Opened
      <4>2. Says(q, x, TheirWord, IF x \in other THEN "yes" ELSE "none")
        BY <1>1, <1>2, <1>3, <2>1, <3>2, <4>1, OthersSaid
      <4> QED BY <3>1, <3>2, <4>2
    <3>3. CASE x = o
      <4>1. Says(p, o, TheirWord, "none") /\ answer = "yes"
        BY <1>3, <1>6, <3>3 DEF Opened
      <4>2. Says(q, o, TheirWord, "yes")
        BY <1>1, <1>2, <1>3, <1>4, <2>1, <4>1, SaysMore
      <4> QED BY <3>1, <3>3, <4>2
    <3> QED BY <3>2, <3>3
  <2> QED BY <2>1, <2>2 DEF Opened, q
<1> QED BY <1>5, <1>6

LEMMA InitConverses ==
    ASSUME Init
    PROVE  IInv
<1> DEFINE own   == {"COMPRESS2", "EOR", "ZMP"}
           other == {"NEW_ENVIRON", "TTYPE", "NAWS"}
<1>1. Opened(toPeer, own, other)
  <2>1. Opened(<<>>, {}, {})
    <3>1. <<>> \in Seq(Msg) /\ Len(<<>>) = 0 /\ "none" \in Unheard
      BY DEF Unheard
    <3>2. \A x, w : Says(<<>>, x, w, "none")
      BY <3>1, SaysNothing
    <3> QED BY <3>1, <3>2 DEF Opened
  <2> DEFINE p1 == Opening("WILL", "COMPRESS2")
             p2 == p1 \o Opening("WILL", "EOR")
             p3 == p2 \o Opening("WILL", "ZMP")
             p4 == p3 \o Opening("DO", "NEW_ENVIRON")
             p5 == p4 \o Opening("DO", "TTYPE")
             p6 == p5 \o Opening("DO", "NAWS")
  <2>2. Opened(p1, {"COMPRESS2"}, {})
    <3>1. Opened(<<>> \o p1, {} \cup {"COMPRESS2"}, {})
      BY <2>1, Opens
    <3>2. p1 = <<>> \/ p1 = <<Message("WILL", "COMPRESS2")>>
      BY DEF Opening
    <3>3. <<>> \o p1 = p1
      BY <3>2
    <3>4. {} \cup {"COMPRESS2"} = {"COMPRESS2"}
      OBVIOUS
    <3> QED BY <3>1, <3>3, <3>4
  <2> HIDE DEF p1
  <2>3. Opened(p2, {"COMPRESS2"} \cup {"EOR"}, {})
    BY <2>2, Opens
  <2> HIDE DEF p2
  <2>4. Opened(p3, {"COMPRESS2"} \cup {"EOR"} \cup {"ZMP"}, {})
    BY <2>3, Opens
  <2> HIDE DEF p3
  <2>5. Opened(p4, {"COMPRESS2"} \cup {"EOR"} \cup {"ZMP"}, {} \cup {"NEW_ENVIRON"})
    BY <2>4, Opens
  <2> HIDE DEF p4
  <2>6. Opened(p5, {"COMPRESS2"} \cup {"EOR"} \cup {"ZMP"}, {} \cup {"NEW_ENVIRON"} \cup {"TTYPE"})
    BY <2>5, Opens
  <2> HIDE DEF p5
  <2>7. Opened(p6, {"COMPRESS2"} \cup {"EOR"} \cup {"ZMP"},
               {} \cup {"NEW_ENVIRON"} \cup {"TTYPE"} \cup {"NAWS"})
    BY <2>6, Opens
  <2>8. toPeer = p6
    BY DEF Init, p1, p2, p3, p4, p5
  <2>9. /\ {"COMPRESS2"} \cup {"EOR"} \cup {"ZMP"} = own
        /\ {} \cup {"NEW_ENVIRON"} \cup {"TTYPE"} \cup {"NAWS"} = other
    OBVIOUS
  <2> HIDE DEF p6
  <2> QED BY <2>7, <2>8, <2>9
<1>2. /\ us = [o \in Opts |-> IF o \in own THEN "WANTYES" ELSE "NO"]
      /\ him = [o \in Opts |-> IF o \in other THEN "WANTYES" ELSE "NO"]
      /\ pus = [o \in Opts |-> "NO"] /\ phim = [o \in Opts |-> "NO"]
      /\ toServer = <<>> /\ z = FALSE /\ inflating = FALSE
      /\ toggles = 0 /\ asks = 0 /\ reasked = {}
  BY DEF Init
<1>3. TypeOK
  <2>1. us \in [Opts -> Q] /\ him \in [Opts -> Q] /\ pus \in [Opts -> Q] /\ phim \in [Opts -> Q]
    BY <1>2 DEF Q
  <2>2. flags \in [{"want_echo", "do_echo", "force_echo", "do_eor", "zmp"} -> BOOLEAN]
    <3>1. flags = [want_echo |-> TRUE, do_echo |-> FALSE, force_echo |-> FALSE,
                   do_eor |-> FALSE, zmp |-> FALSE]
      BY DEF Init
    <3>2. flags \in [want_echo : BOOLEAN, do_echo : BOOLEAN, force_echo : BOOLEAN,
                     do_eor : BOOLEAN, zmp : BOOLEAN]
      BY <3>1
    <3> QED BY <3>2
  <2>3. toggles \in 0 .. MaxToggles /\ asks \in 0 .. MaxAsks
    BY <1>2, BoundsAssumption
  <2> QED BY <1>2, <2>1, <2>2, <2>3 DEF TypeOK
<1>4. Streams
  BY <1>1, <1>2 DEF Streams, Opened
<1>5. Conversing
  <2> SUFFICES ASSUME NEW o \in Opts
               PROVE  /\ Conversation(toPeer, toServer, o, us[o], phim[o], OwnWord, TheirWord)
                      /\ Conversation(toPeer, toServer, o, him[o], pus[o], TheirWord, OwnWord)
    BY DEF Conversing
  <2> HIDE DEF own, other
  <2>1. "none" \in Unheard /\ "yes" \in Unheard
    BY DEF Unheard
  <2>2. \A w : Says(toServer, o, w, "none")
    <3>1. Len(toServer) = 0
      BY <1>2
    <3> QED BY <2>1, <3>1, SaysNothing
  <2>3. Talks("WANTYES", "NO", "yes", "none") /\ Talks("NO", "NO", "none", "none")
    BY DEF Talks
  <2>4. /\ Says(toPeer, o, OwnWord, IF o \in own THEN "yes" ELSE "none")
        /\ Says(toPeer, o, TheirWord, IF o \in other THEN "yes" ELSE "none")
    BY <1>1 DEF Opened
  <2>5. /\ us[o] = (IF o \in own THEN "WANTYES" ELSE "NO") /\ phim[o] = "NO"
        /\ him[o] = (IF o \in other THEN "WANTYES" ELSE "NO") /\ pus[o] = "NO"
    BY <1>2
  <2>6. Conversation(toPeer, toServer, o, us[o], phim[o], OwnWord, TheirWord)
    <3>1. CASE o \in own
      BY <2>1, <2>2, <2>3, <2>4, <2>5, <3>1 DEF Conversation
    <3>2. CASE o \notin own
      BY <2>1, <2>2, <2>3, <2>4, <2>5, <3>2 DEF Conversation
    <3> QED BY <3>1, <3>2
  <2>7. Conversation(toPeer, toServer, o, him[o], pus[o], TheirWord, OwnWord)
    <3>1. CASE o \in other
      BY <2>1, <2>2, <2>3, <2>4, <2>5, <3>1 DEF Conversation
    <3>2. CASE o \notin other
      BY <2>1, <2>2, <2>3, <2>4, <2>5, <3>2 DEF Conversation
    <3> QED BY <3>1, <3>2
  <2> QED BY <2>6, <2>7
<1>6. Deflating
  BY <1>1, <1>2 DEF Opened, Deflating, Readable, Begun
<1> QED BY <1>3, <1>4, <1>5, <1>6 DEF IInv

LEMMA NextConverses ==
    ASSUME IInv, [Next]_vars
    PROVE  IInv'
<1>1. CASE ServerReceives
  BY <1>1, ServerReceivesKeeps
<1>2. CASE PeerReceives
  BY <1>2, PeerReceivesKeeps
<1>3. ASSUME NEW o \in Opts, PeerAsks(o) PROVE IInv'
  BY <1>3, PeerAsksKeeps
<1>4. ASSUME NEW v \in BOOLEAN, ToggleEcho(v) PROVE IInv'
  BY <1>4, ToggleEchoKeeps
<1>5. ASSUME NEW on \in BOOLEAN, EchoCommand(on) PROVE IInv'
  BY <1>5, EchoCommandKeeps
<1>6. CASE UNCHANGED vars
  <2>1. UNCHANGED <<us, him, flags, z, reasked, pus, phim, inflating, toPeer, toServer, toggles, asks>>
    BY <1>6 DEF vars, server, peer
  <2> QED BY <2>1 DEF IInv, TypeOK, Streams, Conversing, Deflating, Readable, Begun
<1> QED BY <1>1, <1>2, <1>3, <1>4, <1>5, <1>6 DEF Next

(* Once nothing is under way both conversations have come to an end.       *)
LEMMA QuietEnds ==
    ASSUME IInv
    PROVE  QuietAgreement
<1>1. Agreement
  <2> SUFFICES ASSUME Quiet, NEW o \in Opts \ reasked
               PROVE  /\ us[o] \in {"NO", "YES"} /\ him[o] \in {"NO", "YES"}
                      /\ us[o] = phim[o] /\ him[o] = pus[o]
    BY DEF Agreement
  <2>1. Len(toPeer) = 0 /\ Len(toServer) = 0
    BY DEF Quiet
  <2>2. ASSUME NEW a, NEW b, NEW w, NEW v, Conversation(toPeer, toServer, o, a, b, w, v)
        PROVE  a \in {"NO", "YES"} /\ a = b
    <3>1. PICK s \in Unheard, r \in Unheard :
             Talks(a, b, s, r) /\ Says(toPeer, o, w, s) /\ Says(toServer, o, v, r)
      BY <2>2 DEF Conversation
    <3>2. s = "none" /\ r = "none"
      BY <2>1, <3>1, SaysNothing
    <3> QED BY <3>1, <3>2 DEF Talks
  <2>3. /\ Conversation(toPeer, toServer, o, us[o], phim[o], OwnWord, TheirWord)
        /\ Conversation(toPeer, toServer, o, him[o], pus[o], TheirWord, OwnWord)
    BY DEF IInv, Conversing
  <2> QED BY <2>2, <2>3
<1>2. StreamReadable
  <2>1. DOMAIN toPeer = 1 .. Len(toPeer)
    BY DEF IInv, Streams
  <2>2. \A i \in 1 .. Len(toPeer) :
           toPeer[i].z <=> inflating \/ \E j \in 1 .. Len(toPeer) : j < i /\ toPeer[j].cmd = "MARK"
    BY DEF IInv, Deflating, Readable
  <2> DEFINE marks == {i \in DOMAIN toPeer : toPeer[i].cmd = "MARK"}
             before(i) == {j \in marks : j < i}
  <2>3. ASSUME NEW i \in DOMAIN toPeer
        PROVE  toPeer[i].z <=> inflating \/ before(i) # {}
    <3>1. (\E j \in 1 .. Len(toPeer) : j < i /\ toPeer[j].cmd = "MARK") <=> before(i) # {}
      BY <2>1
    <3> QED BY <2>1, <2>2, <3>1
  <2> QED BY <2>3 DEF StreamReadable
<1> QED BY <1>1, <1>2 DEF QuietAgreement

-----------------------------------------------------------------------------
(* Whatever order requests and answers cross in, both conversations about  *)
(* every option stay within the table Talks, and the output is deflated    *)
(* exactly behind the marker (libtelnet.c _negotiate, telnet_negotiate,    *)
(* telnet_begin_compress2).                                                *)
THEOREM Invariance == Spec => []IInv
<1>1. Init => IInv
  BY InitConverses
<1>2. IInv /\ [Next]_vars => IInv'
  BY NextConverses
<1> QED BY <1>1, <1>2, PTL DEF Spec

(* For any set of options, any client that follows RFC 1143 and any number *)
(* of changes of mind: once nothing is under way both ends agree about     *)
(* every option not asked for again too early, and at all times the client *)
(* can read the stream.                                                    *)
THEOREM AgreementCorrect == Spec => []QuietAgreement
<1>1. IInv => QuietAgreement
  BY QuietEnds
<1> QED BY <1>1, Invariance, PTL

-----------------------------------------------------------------------------
(* Types, and what a handler in each state has answered and executed.      *)
Over == hstate \in {"DONE", "ERROR"}

HttpTypeOK ==
    /\ hstate \in {"REQ", "HEADER", "BODY", "DONE", "ERROR"}
    /\ length \in {"none", "body", "huge"}
    /\ age \in 0 .. Timeout + 1
    /\ closed \in BOOLEAN /\ polled \in BOOLEAN /\ posted \in BOOLEAN
    /\ answers \in Nat /\ executed \in Nat

Answered ==
    ~posted => /\ Over => answers = 1 /\ executed <= 1
               /\ ~Over => answers = 0 /\ executed = 0

(* The poll loop comes round before a request that is over can time out.   *)
InTime ==
    /\ closed => Over
    /\ input # <<>> => age = 0 /\ ~closed
    /\ Over /\ ~closed => age = 0 \/ (age = 1 /\ ~polled)

HttpIInv == HttpTypeOK /\ Answered /\ InTime

(* A line that is taken answers and executes what it should.               *)
LEMMA TakeAnswers ==
    ASSUME HttpTypeOK, Answered, NEW l, NEW outcome \in Outcomes,
           NEW h, h = Take(Handler, l, outcome)
    PROVE  /\ h.hstate \in {"REQ", "HEADER", "BODY", "DONE", "ERROR"}
           /\ h.length \in {"none", "body", "huge"}
           /\ h.answers \in Nat /\ h.executed \in Nat /\ h.posted \in BOOLEAN
           /\ Over => h = Handler
           /\ ~h.posted => \/ /\ h.hstate \in {"DONE", "ERROR"}
                              /\ h.answers = 1 /\ h.executed <= 1
                           \/ /\ h.hstate \notin {"DONE", "ERROR"}
                              /\ h.answers = 0 /\ h.executed = 0
<1> DEFINE g == Handler
           x == Execute(g, outcome)
           b == [g EXCEPT !.body = g.body + 1]
<1>1. /\ g.hstate = hstate /\ g.length = length /\ g.answers = answers
      /\ g.executed = executed /\ g.posted = posted
  BY DEF Handler
<1>2. LET e == HttpError(g) IN
      /\ e.hstate = "ERROR" /\ e.length = length /\ e.answers = answers + 1
      /\ e.executed = executed /\ e.posted = posted
  BY DEF Handler, HttpError
<1>3. /\ x.hstate \in {hstate, "ERROR"} /\ x.length = length /\ x.answers = answers + 1
      /\ x.executed = executed + 1 /\ x.posted = posted
      /\ [x EXCEPT !.hstate = "DONE"].hstate = "DONE"
      /\ [x EXCEPT !.hstate = "DONE"].length = length
      /\ [x EXCEPT !.hstate = "DONE"].answers = answers + 1
      /\ [x EXCEPT !.hstate = "DONE"].executed = executed + 1
      /\ [x EXCEPT !.hstate = "DONE"].posted = posted
      /\ [x EXCEPT !.body = 0, !.posted = TRUE].hstate = x.hstate
      /\ [x EXCEPT !.body = 0, !.posted = TRUE].length = length
      /\ [x EXCEPT !.body = 0, !.posted = TRUE].answers = answers + 1
      /\ [x EXCEPT !.body = 0, !.posted = TRUE].executed = executed + 1
      /\ [x EXCEPT !.body = 0, !.posted = TRUE].posted = TRUE
  BY DEF Handler, HttpError, Execute
<1>4. /\ b.hstate = hstate /\ b.length = length /\ b.answers = answers
      /\ b.executed = executed /\ b.posted = posted
  BY DEF Handler
<1>5. \A f : \A v \in {"REQ", "HEADER", "BODY"} : f = [g EXCEPT !.hstate = v] =>
         /\ f.hstate = v /\ f.length = length /\ f.answers = answers
         /\ f.executed = executed /\ f.posted = posted
  BY DEF Handler
<1>6. \A f : \A v \in {"body", "huge"} : f = [g EXCEPT !.length = v] =>
         /\ f.hstate = hstate /\ f.length = v /\ f.answers = answers
         /\ f.executed = executed /\ f.posted = posted
  BY DEF Handler
<1> HIDE DEF g, x, b
<1>7. CASE Over
  <2>1. h = g
    BY <1>1, <1>7 DEF Take, Over, g
  <2> QED BY <1>1, <1>7, <2>1 DEF Over, HttpTypeOK, Answered, g
<1>8. CASE hstate = "REQ"
  <2>1. h = g \/ h = [g EXCEPT !.hstate = "HEADER"] \/ h = HttpError(g)
    BY <1>1, <1>8 DEF Take, ProcessRequest, g
  <2> QED BY <1>1, <1>2, <1>5, <1>8, <2>1 DEF Over, HttpTypeOK, Answered
<1>9. CASE hstate = "HEADER"
  <2>1. \/ h = g \/ h = HttpError(g) \/ h = [x EXCEPT !.hstate = "DONE"]
        \/ h = [g EXCEPT !.hstate = "BODY"]
        \/ \E v \in {"body", "huge"} : h = [g EXCEPT !.length = v]
    BY <1>1, <1>9 DEF Take, ProcessHeader, HttpTypeOK, g, x
  <2>2. /\ ~Over /\ length \in {"none", "body", "huge"} /\ answers \in Nat /\ executed \in Nat
        /\ posted \in BOOLEAN /\ (~posted => answers = 0 /\ executed = 0)
    BY <1>9 DEF Over, HttpTypeOK, Answered
  <2>3. CASE h = g
    BY <1>1, <1>9, <2>2, <2>3
  <2>4. CASE h = HttpError(g)
    BY <1>2, <2>2, <2>4
  <2>5. CASE h = [x EXCEPT !.hstate = "DONE"]
    BY <1>3, <2>2, <2>5
  <2>6. CASE h = [g EXCEPT !.hstate = "BODY"]
    BY <1>5, <2>2, <2>6
  <2>7. CASE \E v \in {"body", "huge"} : h = [g EXCEPT !.length = v]
    <3>1. PICK v \in {"body", "huge"} : h = [g EXCEPT !.length = v]
      BY <2>7
    <3>2. /\ h.hstate = "HEADER" /\ h.length = v /\ h.answers = answers
          /\ h.executed = executed /\ h.posted = posted
      BY <1>6, <1>9, <3>1
    <3> QED BY <1>9, <2>2, <3>2
  <2> QED BY <2>1, <2>3, <2>4, <2>5, <2>6, <2>7
<1>10. CASE hstate = "BODY"
  <2>1. h = [x EXCEPT !.body = 0, !.posted = TRUE] \/ h = b
    BY <1>1, <1>10 DEF Take, ProcessBody, g, x, b
  <2>2. /\ ~Over /\ length \in {"none", "body", "huge"} /\ answers \in Nat /\ executed \in Nat
        /\ posted \in BOOLEAN /\ (~posted => answers = 0 /\ executed = 0)
    BY <1>10 DEF Over, HttpTypeOK, Answered
  <2>3. CASE h = [x EXCEPT !.body = 0, !.posted = TRUE]
    BY <1>3, <1>10, <2>2, <2>3
  <2>4. CASE h = b
    BY <1>4, <1>10, <2>2, <2>4
  <2> QED BY <2>1, <2>3, <2>4
<1> QED BY <1>7, <1>8, <1>9, <1>10 DEF HttpTypeOK, Over

(* The invariant is inductive where the timeout, HTTP_REQUEST_TIMEOUT (30  *)
(* in http.cc:26), is longer than one round of the poll loop.              *)
LEMMA HttpStepIInv ==
    ASSUME Timeout \in Nat, Timeout > 1, HttpIInv, [HttpNext]_httpVars
    PROVE  HttpIInv'
<1>1. HttpTypeOK /\ Answered /\ InTime
  BY DEF HttpIInv
<1>2. ASSUME NEW p \in Packets, SockInput(p) PROVE HttpIInv'
  BY <1>1, <1>2 DEF SockInput, Idle, HttpIInv, HttpTypeOK, Answered, InTime, Over
<1>3. ASSUME NEW outcome \in Outcomes, SockTake(outcome) PROVE HttpIInv'
  <2> DEFINE h == Take(Handler, Head(input), outcome)
  <2>1. /\ hstate' = h.hstate /\ length' = h.length /\ answers' = h.answers
        /\ executed' = h.executed /\ posted' = h.posted
        /\ age' = age /\ closed' = closed /\ polled' = polled
        /\ age = 0 /\ ~closed
    BY <1>1, <1>3 DEF SockTake, InTime
  <2>2. /\ h.hstate \in {"REQ", "HEADER", "BODY", "DONE", "ERROR"}
        /\ h.length \in {"none", "body", "huge"}
        /\ h.answers \in Nat /\ h.executed \in Nat /\ h.posted \in BOOLEAN
        /\ ~h.posted => \/ /\ h.hstate \in {"DONE", "ERROR"}
                           /\ h.answers = 1 /\ h.executed <= 1
                        \/ /\ h.hstate \notin {"DONE", "ERROR"}
                           /\ h.answers = 0 /\ h.executed = 0
    BY <1>1, TakeAnswers
  <2> HIDE DEF h
  <2> QED BY <1>1, <2>1, <2>2 DEF HttpIInv, HttpTypeOK, Answered, InTime, Over
<1>4. ASSUME SockFlush PROVE HttpIInv'
  <2>1. CASE age = Timeout
    <3>1. ~Over
      BY <1>1, <1>4, <2>1 DEF SockFlush, Idle, InTime
    <3>2. /\ hstate' = "ERROR" /\ answers' = answers + 1 /\ age' = Timeout + 1
          /\ closed' = TRUE /\ polled' = TRUE
          /\ UNCHANGED <<length, input, executed, posted>> /\ input = <<>>
      <4>1. LET e == HttpError(Handler) IN e.hstate = "ERROR" /\ e.answers = answers + 1
        BY DEF Handler, HttpError
      <4>2. Ended(HttpError(Handler))
        BY <4>1 DEF Ended
      <4>3. closed' = Ended(HttpError(Handler))
        BY <1>4, <2>1 DEF SockFlush
      <4>4. closed' = TRUE
        BY <4>2, <4>3
      <4> QED BY <1>4, <2>1, <4>1, <4>4 DEF SockFlush, Idle
    <3> QED BY <1>1, <3>1, <3>2 DEF HttpIInv, HttpTypeOK, Answered, InTime, Over
  <2>2. CASE age # Timeout
    <3>1. /\ hstate' = hstate /\ answers' = answers /\ age' = age
          /\ closed' \in BOOLEAN /\ (closed' <=> Over) /\ polled' = TRUE
          /\ UNCHANGED <<length, input, executed, posted>> /\ input = <<>>
      <4>1. Handler.hstate = hstate /\ Handler.answers = answers
        BY DEF Handler
      <4>2. /\ hstate' = hstate /\ answers' = answers /\ age' = age /\ polled' = TRUE
            /\ UNCHANGED <<length, input, executed, posted>> /\ input = <<>>
            /\ closed' = Ended(Handler)
        BY <1>4, <2>2, <4>1 DEF SockFlush, Idle
      <4>3. Ended(Handler) <=> Over
        BY <4>1 DEF Ended, Over
      <4>4. CASE Ended(Handler)
        BY <4>2, <4>3, <4>4
      <4>5. CASE ~Ended(Handler)
        <5>1. closed' = FALSE
          BY <4>2, <4>5
        <5> QED BY <4>2, <4>3, <4>5, <5>1
      <4> QED BY <4>4, <4>5
    <3> QED BY <1>1, <3>1 DEF HttpIInv, HttpTypeOK, Answered, InTime, Over
  <2> QED BY <2>1, <2>2
<1>5. ASSUME Tick PROVE HttpIInv'
  <2>1. /\ UNCHANGED <<hstate, length, input, closed, answers, executed, posted>>
        /\ polled' = FALSE /\ polled /\ input = <<>> /\ ~closed
    BY <1>5 DEF Tick, Idle
  <2>2. age' \in 0 .. Timeout + 1 /\ (age = 0 => age' = 1)
    BY <1>1, <1>5 DEF Tick, HttpTypeOK
  <2>3. Over => age = 0
    BY <1>1, <2>1 DEF InTime
  <2>4. HttpTypeOK'
    BY <1>1, <2>1, <2>2 DEF HttpTypeOK
  <2>5. Answered'
    BY <1>1, <2>1 DEF Answered, Over
  <2>6. InTime'
    BY <1>1, <2>1, <2>2, <2>3 DEF InTime, Over
  <2> QED BY <2>4, <2>5, <2>6 DEF HttpIInv
<1>6. ASSUME UNCHANGED httpVars PROVE HttpIInv'
  BY <1>1, <1>6 DEF httpVars, HttpIInv, HttpTypeOK, Answered, InTime, Over
<1> QED BY <1>2, <1>3, <1>4, <1>5, <1>6 DEF HttpNext, SockRead

(* Whatever packets arrive, when and cut in whatever way, a connection     *)
(* that is closed was answered once, unless a body was read                *)
(* (HTTPHandler::sockInput, process, sockFlush).                           *)
THEOREM AnsweredCorrect ==
    ASSUME Timeout \in Nat, Timeout > 1
    PROVE  HttpSpec => []AnsweredOnce
<1>1. HttpInit => HttpIInv
  <2>1. HttpInit => HttpTypeOK
    <3>1. 0 \in 0 .. Timeout + 1 /\ 0 \in Nat
      OBVIOUS
    <3>2. HttpInit => age \in 0 .. Timeout + 1 /\ answers \in Nat /\ executed \in Nat
      BY <3>1 DEF HttpInit
    <3> QED BY <3>2 DEF HttpInit, HttpTypeOK
  <2>2. HttpInit => Answered /\ InTime
    BY DEF HttpInit, Answered, InTime, Over
  <2> QED BY <2>1, <2>2 DEF HttpIInv
<1>2. HttpIInv /\ [HttpNext]_httpVars => HttpIInv'
  BY HttpStepIInv
<1>3. HttpIInv => AnsweredOnce
  BY DEF HttpIInv, HttpTypeOK, Answered, InTime, Over, AnsweredOnce
<1> QED BY <1>1, <1>2, <1>3, PTL DEF HttpSpec

-----------------------------------------------------------------------------
(* The connections (Network), for any number of them, of hosts and limits. *)

(* The cursors of poll are empty outside the loop they belong to, and what *)
(* the prepare loop has passed and kept is open.                           *)
PollShape ==
    /\ phase # "ready" => cwrite = {}
    /\ phase \in {"game", "stopped"} => todo = {}
    /\ phase = "prepare" => sockets \ todo \subseteq open
    /\ phase = "stopped" => Handlers = {}

(* The table stays within the host limit, exact or not.                    *)
TableWithinLimit ==
    \A h \in Hosts : h \notin Local /\ MaxPerHost > 0 => conns[h] <= MaxPerHost

(* The table is a lower bound of the connections that run, exact until a   *)
(* disconnect is repeated.                                                 *)
TableSound ==
    phase # "stopped" => \A h \in Hosts :
        /\ conns[h] <= Cardinality(Live(h))
        /\ ~twice => conns[h] = Cardinality(Live(h))

Shape == NetworkTypeOK /\ ClosedWasReleased /\ ServedAreOpen /\ PollShape

TableIInv == Shape /\ TableWithinLimit /\ TableSound

(* Every step keeps the handlers' bookkeeping: types, lists, descriptors.  *)
LEMMA ShapeStep == Shape /\ [NetworkNext]_networkVars => Shape'
<1> SUFFICES ASSUME Shape, [NetworkNext]_networkVars PROVE Shape'
  OBVIOUS
<1> USE NetworkAssumption
    DEF Shape, NetworkTypeOK, ClosedWasReleased, ServedAreOpen, PollShape, Handlers,
        who, table, place, Kinds
<1>1. CASE PollBegin
  BY <1>1 DEF PollBegin
<1>2. CASE Select
  BY <1>2 DEF Select
<1>3. CASE ReadyEnd
  BY <1>3 DEF ReadyEnd
<1>4. CASE Shutdown
  BY <1>4 DEF Shutdown
<1>5. ASSUME NEW c \in Conns, Flush(c) PROVE Shape'
  BY <1>5 DEF Flush
<1>6. ASSUME NEW c \in Conns, FlushDisconnect(c) PROVE Shape'
  BY <1>6 DEF FlushDisconnect, ConnsRemove, Delete
<1>7. ASSUME NEW c \in Conns, Reap(c) PROVE Shape'
  BY <1>7 DEF Reap, Delete
<1>8. ASSUME NEW c \in Conns, OutReady(c) PROVE Shape'
  BY <1>8 DEF OutReady
<1>9. ASSUME NEW c \in Conns, Hangup(c) PROVE Shape'
  BY <1>9 DEF Hangup, Disconnect, ConnsRemove
<1>10. ASSUME NEW c \in Conns, Input(c) PROVE Shape'
  BY <1>10 DEF Input, Disconnect, ConnsRemove
<1>11. ASSUME NEW c \in Conns, GameOutput(c) PROVE Shape'
  BY <1>11 DEF GameOutput
<1>12. ASSUME NEW c \in Conns, GameDisconnect(c) PROVE Shape'
  BY <1>12 DEF GameDisconnect, Disconnect, ConnsRemove
<1>13. ASSUME NEW c \in Conns, NEW h \in Hosts, NEW k \in Kinds, Accept(c, h, k)
       PROVE  Shape'
  BY <1>13 DEF Accept
<1>14. CASE UNCHANGED networkVars
  BY <1>14 DEF networkVars
<1> QED BY <1>1, <1>2, <1>3, <1>4, <1>5, <1>6, <1>7, <1>8, <1>9, <1>10, <1>11,
           <1>12, <1>13, <1>14 DEF NetworkNext, Stopped

(* A step that ends a connection returns its place in the table, a step    *)
(* that ends it again returns one it does not own.                         *)
LEMMA RemoveSound ==
    ASSUME TableIInv, Shape', phase # "stopped", NEW c \in Handlers,
           ConnsRemove(addr[c]), addr' = addr,
           (Handlers \ disconnect)' = (Handlers \ disconnect) \ {c},
           twice' = (twice \/ c \in disconnect)
    PROVE  TableWithinLimit' /\ TableSound'
<1> DEFINE a == addr[c]
<1>1. /\ c \in Conns /\ a \in Hosts
      /\ conns \in [Hosts -> Nat] /\ twice \in BOOLEAN /\ twice' \in BOOLEAN
  BY DEF TableIInv, Shape, NetworkTypeOK, Handlers
<1>2. conns' = IF conns[a] > 0 THEN [conns EXCEPT ![a] = @ - 1] ELSE conns
  BY DEF ConnsRemove
<1>3. \A h \in Hosts : conns'[h] = IF h = a /\ conns[h] > 0 THEN conns[h] - 1 ELSE conns[h]
  BY <1>1, <1>2
<1>4. TableWithinLimit'
  BY <1>1, <1>3, NetworkAssumption DEF TableWithinLimit, TableIInv
<1>5. ASSUME NEW h \in Hosts
      PROVE  /\ conns'[h] <= Cardinality(Live(h)')
             /\ ~twice' => conns'[h] = Cardinality(Live(h)')
  <2>1. IsFiniteSet(Live(h))
    <3>1. Live(h) \subseteq Conns
      BY DEF Live, Handlers, TableIInv, Shape, NetworkTypeOK
    <3> QED BY <3>1, NetworkAssumption, FS_Subset
  <2>2. Cardinality(Live(h)) \in Nat
    BY <2>1, FS_CardinalityType
  <2>3. /\ conns[h] <= Cardinality(Live(h))
        /\ ~twice => conns[h] = Cardinality(Live(h))
    BY DEF TableIInv, TableSound
  <2>4. Live(h)' = Live(h) \ {c}
    BY DEF Live
  <2>5. c \in Live(h) <=> h = a /\ c \notin disconnect
    BY DEF Live
  <2>6. CASE c \in Live(h)
    <3>1. Cardinality(Live(h)') = Cardinality(Live(h)) - 1
      BY <2>1, <2>4, <2>6, FS_RemoveElement
    <3>2. Cardinality(Live(h)) > 0
      BY <2>1, <2>2, <2>6, FS_EmptySet
    <3> QED BY <1>1, <1>3, <2>2, <2>3, <2>5, <2>6, <3>1, <3>2
  <2>7. CASE c \notin Live(h)
    <3>1. Live(h)' = Live(h)
      BY <2>4, <2>7
    <3>2. ~twice' => ~twice /\ c \notin disconnect
      OBVIOUS
    <3>3. ~twice' => h # a
      BY <3>2, <2>5, <2>7
    <3> QED BY <1>1, <1>3, <2>2, <2>3, <3>1, <3>2, <3>3
  <2> QED BY <2>6, <2>7
<1>6. TableSound'
  BY <1>5 DEF TableSound
<1> QED BY <1>4, <1>6

(* A step that admits a connection counts it.                              *)
LEMMA AcceptSound ==
    ASSUME TableIInv, NEW c \in Conns, NEW h \in Hosts, NEW k \in Kinds, Accept(c, h, k)
    PROVE  TableWithinLimit' /\ TableSound'
<1>1. /\ conns \in [Hosts -> Nat] /\ addr \in [Conns -> Hosts]
      /\ c \notin Handlers /\ phase = "ready"
  BY DEF TableIInv, Shape, NetworkTypeOK, Accept
<1>2. \A g \in Hosts : conns'[g] = IF g = h THEN conns[g] + 1 ELSE conns[g]
  BY <1>1 DEF Accept
<1>3. TableWithinLimit'
  BY <1>1, <1>2, NetworkAssumption DEF TableWithinLimit, TableIInv, Accept, AddResult
<1>4. ASSUME NEW g \in Hosts
      PROVE  /\ conns'[g] <= Cardinality(Live(g)')
             /\ ~twice' => conns'[g] = Cardinality(Live(g)')
  <2>1. IsFiniteSet(Live(g))
    <3>1. Live(g) \subseteq Conns
      BY DEF Live, Handlers, TableIInv, Shape, NetworkTypeOK
    <3> QED BY <3>1, NetworkAssumption, FS_Subset
  <2>2. Cardinality(Live(g)) \in Nat
    BY <2>1, FS_CardinalityType
  <2>3. /\ conns[g] <= Cardinality(Live(g))
        /\ ~twice => conns[g] = Cardinality(Live(g))
    BY <1>1 DEF TableIInv, TableSound
  <2>4. Handlers' = Handlers \cup {c} /\ disconnect' = disconnect /\ c \notin disconnect
    BY <1>1 DEF Accept, Handlers, TableIInv, Shape, NetworkTypeOK
  <2>5. \A d \in Handlers : addr'[d] = addr[d]
    BY <1>1 DEF Accept, Handlers, TableIInv, Shape, NetworkTypeOK
  <2>6. addr'[c] = h
    BY <1>1 DEF Accept
  <2>7. CASE g = h
    <3>1. Live(g)' = Live(g) \cup {c} /\ c \notin Live(g)
      BY <1>1, <2>4, <2>5, <2>6, <2>7 DEF Live
    <3>2. Cardinality(Live(g)') = Cardinality(Live(g)) + 1
      BY <2>1, <3>1, FS_AddElement
    <3> QED BY <1>1, <1>2, <2>2, <2>3, <2>7, <3>2 DEF Accept
  <2>8. CASE g # h
    <3>1. Live(g)' = Live(g)
      BY <1>1, <2>4, <2>5, <2>6, <2>8 DEF Live
    <3> QED BY <1>1, <1>2, <2>3, <2>8, <3>1 DEF Accept
  <2> QED BY <2>7, <2>8
<1>5. TableSound'
  BY <1>4 DEF TableSound
<1> QED BY <1>3, <1>5

(* A step that leaves the table and the running connections alone.         *)
LEMMA QuietSound ==
    ASSUME TableIInv, conns' = conns, twice' = twice, addr' = addr,
           (Handlers \ disconnect)' = Handlers \ disconnect,
           phase' = "stopped" \/ phase # "stopped"
    PROVE  TableWithinLimit' /\ TableSound'
<1>1. \A h \in Hosts : Live(h)' = Live(h)
  BY DEF Live
<1> QED BY <1>1 DEF TableIInv, TableWithinLimit, TableSound

(* TableIInv holds initially.                                                   *)
LEMMA NetworkInitIInv == NetworkInit => TableIInv
<1> SUFFICES ASSUME NetworkInit PROVE TableIInv
  OBVIOUS
<1>1. AnyHost \in Hosts
  BY NetworkAssumption DEF AnyHost
<1>2. Shape
  <2>1. /\ addr \in [Conns -> Hosts] /\ kind \in [Conns -> Kinds]
        /\ conns \in [Hosts -> Nat] /\ total_conns \in Int
    BY <1>1 DEF NetworkInit, Kinds
  <2>2. NetworkTypeOK
    BY <2>1 DEF NetworkInit, NetworkTypeOK, Handlers
  <2> QED BY <2>2 DEF NetworkInit, Shape, ClosedWasReleased, ServedAreOpen, PollShape, Handlers
<1>3. \A h \in Hosts : Live(h) = {} /\ conns[h] = 0
  BY DEF NetworkInit, Live, Handlers
<1> QED BY <1>2, <1>3, FS_EmptySet, NetworkAssumption
        DEF TableIInv, TableWithinLimit, TableSound

(* Every step preserves TableIInv.                                              *)
LEMMA NetworkStepIInv == TableIInv /\ [NetworkNext]_networkVars => TableIInv'
<1> SUFFICES ASSUME TableIInv, [NetworkNext]_networkVars PROVE TableIInv'
  OBVIOUS
<1>1. Shape'
  BY ShapeStep DEF TableIInv
<1> SUFFICES TableWithinLimit' /\ TableSound'
  BY <1>1 DEF TableIInv
<1>2. /\ disconnect \subseteq Handlers /\ todo \subseteq sockets
      /\ add \cap sockets = {} /\ twice \in BOOLEAN
  BY DEF TableIInv, Shape, NetworkTypeOK, ClosedWasReleased
<1>3. CASE PollBegin \/ Select \/ ReadyEnd
  BY <1>3, QuietSound DEF PollBegin, Select, ReadyEnd, who, table, place, Handlers
<1>4. CASE Shutdown
  BY <1>4 DEF Shutdown, table, TableIInv, TableWithinLimit, TableSound
<1>5. ASSUME NEW c \in Conns, Flush(c) \/ OutReady(c) \/ GameOutput(c)
      PROVE  TableWithinLimit' /\ TableSound'
  BY <1>5, QuietSound DEF Flush, OutReady, GameOutput, who, table, place, Handlers
<1>6. ASSUME NEW c \in Conns, FlushDisconnect(c) PROVE TableWithinLimit' /\ TableSound'
  <2>1. /\ phase # "stopped" /\ c \in Handlers /\ ConnsRemove(addr[c]) /\ addr' = addr
        /\ twice' = (twice \/ c \in disconnect)
    BY <1>2, <1>6 DEF FlushDisconnect, who, Handlers
  <2>2. (Handlers \ disconnect)' = (Handlers \ disconnect) \ {c}
    BY <1>2, <1>6 DEF FlushDisconnect, Delete, place, Handlers
  <2> QED BY <1>1, <2>1, <2>2, RemoveSound
<1>7. ASSUME NEW c \in Conns, Reap(c) PROVE TableWithinLimit' /\ TableSound'
  <2>1. (Handlers \ disconnect)' = Handlers \ disconnect
    BY <1>2, <1>7 DEF Reap, Delete, Handlers
  <2> QED BY <1>7, <2>1, QuietSound DEF Reap, who, table
<1>8. ASSUME NEW c \in Conns, c \in Handlers, phase # "stopped", Disconnect(c),
             UNCHANGED <<place, who>>
      PROVE  TableWithinLimit' /\ TableSound'
  <2>1. (Handlers \ disconnect)' = (Handlers \ disconnect) \ {c}
    BY <1>8 DEF Disconnect, place, Handlers
  <2> QED BY <1>1, <1>8, <2>1, RemoveSound DEF Disconnect, who
<1>9. ASSUME NEW c \in Conns, Hangup(c) \/ GameDisconnect(c)
      PROVE  TableWithinLimit' /\ TableSound'
  BY <1>2, <1>8, <1>9 DEF Hangup, GameDisconnect, Handlers
<1>10. ASSUME NEW c \in Conns, Input(c) PROVE TableWithinLimit' /\ TableSound'
  <2>1. CASE UNCHANGED <<disconnect, table>>
    BY <1>10, <2>1, QuietSound DEF Input, who, table, place, Handlers
  <2>2. CASE Disconnect(c)
    BY <1>2, <1>8, <1>10, <2>2 DEF Input, Handlers
  <2> QED BY <1>10, <2>1, <2>2 DEF Input
<1>11. ASSUME NEW c \in Conns, NEW h \in Hosts, NEW k \in Kinds, Accept(c, h, k)
       PROVE  TableWithinLimit' /\ TableSound'
  BY <1>11, AcceptSound
<1>12. CASE UNCHANGED networkVars
  BY <1>12, QuietSound DEF networkVars, who, table, place, Handlers
<1> QED BY <1>3, <1>4, <1>5, <1>6, <1>7, <1>9, <1>10, <1>11, <1>12 DEF NetworkNext, Stopped

(* TableIInv holds in every reachable state of the connection layer.            *)
THEOREM TableInvariance == NetworkSpec => []TableIInv
BY NetworkInitIInv, NetworkStepIInv, PTL DEF NetworkSpec

(* The variables of the connection layer keep their types.                 *)
THEOREM NetworkTypeCorrect == NetworkSpec => []NetworkTypeOK
<1>1. TableIInv => NetworkTypeOK
  BY DEF TableIInv, Shape
<1> QED BY <1>1, TableInvariance, PTL

(* poll deletes a handler only after its place in the table is returned.   *)
THEOREM ReleaseCorrect == NetworkSpec => []ClosedWasReleased
<1>1. TableIInv => ClosedWasReleased
  BY DEF TableIInv, Shape
<1> QED BY <1>1, TableInvariance, PTL

(* Every handler the ready loop of poll serves has an open descriptor.     *)
THEOREM ServedCorrect == NetworkSpec => []ServedAreOpen
<1>1. TableIInv => ServedAreOpen
  BY DEF TableIInv, Shape
<1> QED BY <1>1, TableInvariance, PTL

(* However connections are opened, closed, timed out, booted and hung up,  *)
(* IPConnList counts no connection that has ended.                         *)
THEOREM NoLeftoversCorrect == NetworkSpec => []NoLeftovers
<1>1. TableIInv => NoLeftovers
  BY DEF TableIInv, TableSound, NoLeftovers
<1> QED BY <1>1, TableInvariance, PTL

(* Until some disconnect() is repeated, IPConnList is exact and no remote  *)
(* host has more than max_per_host connections.                            *)
THEOREM ExactCorrect == NetworkSpec => []ExactUnlessRepeated
<1>1. TableIInv => ExactUnlessRepeated
  BY DEF TableIInv, TableSound, TableWithinLimit, ExactUnlessRepeated
<1> QED BY <1>1, TableInvariance, PTL

(* Table, sockets and descriptors agree through every order of hang-ups,   *)
(* disconnects and polls.                                                  *)
THEOREM TableCorrect == NetworkSpec => []TableAgrees
<1>1. TableIInv => ClosedWasReleased /\ ServedAreOpen
  BY DEF TableIInv, Shape
<1>2. TableIInv => NoLeftovers
  BY DEF TableIInv, TableSound, NoLeftovers
<1>3. TableIInv => ExactUnlessRepeated
  BY DEF TableIInv, TableSound, TableWithinLimit, ExactUnlessRepeated
<1>4. TableIInv => TableAgrees
  BY <1>1, <1>2, <1>3 DEF TableAgrees
<1> QED BY <1>4, TableInvariance, PTL
=============================================================================

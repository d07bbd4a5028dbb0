---------------------------- MODULE SearchProofs ----------------------------
(***************************************************************************)
(* The search for a creator, for any number of creators, calls, ratings    *)
(* and distances: that the ranking always has a first, and what being      *)
(* ranked first means; that each assignment is paid for once; and that no  *)
(* question thread outlives the search.                                    *)
(***************************************************************************)
EXTENDS Search, SumLemmas

-----------------------------------------------------------------------------
(* Fractions, compared across.                                             *)

\* Multiplying keeps the order of two naturals, and dividing gives it back.
LEMMA TimesOrder ==
    ASSUME NEW x \in Nat, NEW y \in Nat, NEW z \in Nat \ {0}
    PROVE  /\ x * z \in Nat
           /\ x >= y <=> x * z >= y * z
           /\ x > y <=> x * z > y * z
  <1>1. ASSUME NEW u \in Nat, NEW v \in Nat, u > v
        PROVE  u * z > v * z
    <2>1. PICK n \in Nat \ {0} : u = v + n
      <3>1. u - v \in Nat \ {0} /\ u = v + (u - v)
        BY <1>1
      <3> QED
        BY <3>1
    <2>2. u * z = v * z + n * z
      BY <2>1
    <2>3. n * z \in Nat \ {0} /\ v * z \in Nat
      OBVIOUS
    <2> QED
      BY <2>2, <2>3
  <1>2. x > y \/ x = y \/ y > x
    OBVIOUS
  <1>3. x * z \in Nat /\ y * z \in Nat
    OBVIOUS
  <1> QED
    BY <1>1, <1>2, <1>3

\* If one fraction is at least another and that at least a third, so is the
\* first, strictly if one of the two is.
LEMMA AcrossTransitive ==
    ASSUME NEW na \in Nat \ {0}, NEW da \in Nat \ {0}, NEW nb \in Nat \ {0}, NEW db \in Nat \ {0},
           NEW nc \in Nat \ {0}, NEW dc \in Nat \ {0},
           na * db >= nb * da, nb * dc >= nc * db
    PROVE  /\ na * dc >= nc * da
           /\ na * db > nb * da \/ nb * dc > nc * db => na * dc > nc * da
  <1> DEFINE ab == na * db  ba == nb * da  bc == nb * dc  cb == nc * db
             ac == na * dc  ca == nc * da
  <1>1. ab \in Nat /\ ba \in Nat /\ bc \in Nat /\ cb \in Nat /\ ac \in Nat /\ ca \in Nat
    OBVIOUS
  <1>2. ab * dc = ac * db /\ ba * dc = bc * da /\ cb * da = ca * db
    OBVIOUS
  <1>3. ab >= ba /\ bc >= cb /\ (na * db > nb * da <=> ab > ba) /\ (nb * dc > nc * db <=> bc > cb)
        /\ (na * dc >= nc * da <=> ac >= ca) /\ (na * dc > nc * da <=> ac > ca)
    OBVIOUS
  <1> HIDE DEF ab, ba, bc, cb, ac, ca
  <1>4. ab * dc >= ba * dc /\ (ab > ba => ab * dc > ba * dc)
    BY <1>1, <1>3, TimesOrder
  <1>5. bc * da >= cb * da /\ (bc > cb => bc * da > cb * da)
    BY <1>1, <1>3, TimesOrder
  <1>6. ab * dc \in Nat /\ ba * dc \in Nat /\ cb * da \in Nat
    BY <1>1
  <1>7. ac * db >= ca * db /\ (ab > ba \/ bc > cb => ac * db > ca * db)
    BY <1>2, <1>4, <1>5, <1>6
  <1>8. ac >= ca /\ (ab > ba \/ bc > cb => ac > ca)
    BY <1>1, <1>7, TimesOrder
  <1> QED
    BY <1>3, <1>8

-----------------------------------------------------------------------------
(* The ranking.                                                            *)

LEMMA RatingTypes ==
    ASSUME NEW c \in Creators
    PROVE  /\ Ratings[c].count \in Nat /\ Ratings[c].sum \in Nat
           /\ Ratings[c].sum <= 5 * Ratings[c].count
           /\ Distance[c] \in Nat
  BY SearchAssumption

LEMMA ScoreTypes ==
    ASSUME NEW c \in Creators
    PROVE  Score(c).num \in Nat \ {0} /\ Score(c).den \in Nat \ {0}
  BY RatingTypes DEF Score

\* The scores are ordered: nobody outscores whoever outscores it, and being
\* outscored by none passes on.
LEMMA OutscoresOrder ==
    /\ \A a, b \in Creators : ~(Outscores(a, b) /\ Outscores(b, a))
    /\ \A a, b, c \in Creators :
        ~Outscores(b, a) /\ ~Outscores(c, b) =>
            /\ ~Outscores(c, a)
            /\ Outscores(a, b) \/ Outscores(b, c) => Outscores(a, c)
  <1>1. ASSUME NEW a \in Creators, NEW b \in Creators
        PROVE  /\ ~(Outscores(a, b) /\ Outscores(b, a))
               /\ ~Outscores(b, a) <=> Score(a).num * Score(b).den >= Score(b).num * Score(a).den
    <2> DEFINE ab == Score(a).num * Score(b).den
               ba == Score(b).num * Score(a).den
    <2>1. ab \in Nat /\ ba \in Nat
      BY ScoreTypes
    <2>2. /\ Outscores(a, b) <=> ab > ba
          /\ Outscores(b, a) <=> ba > ab
      BY DEF Outscores
    <2> HIDE DEF ab, ba
    <2>3. ~(Outscores(a, b) /\ Outscores(b, a)) /\ (~Outscores(b, a) <=> ab >= ba)
      BY <2>1, <2>2
    <2> QED
      BY <2>3 DEF ab, ba
  <1>2. ASSUME NEW a \in Creators, NEW b \in Creators, NEW c \in Creators,
               ~Outscores(b, a), ~Outscores(c, b)
        PROVE  /\ ~Outscores(c, a)
               /\ Outscores(a, b) \/ Outscores(b, c) => Outscores(a, c)
    <2>1. /\ Score(a).num * Score(b).den >= Score(b).num * Score(a).den
          /\ Score(b).num * Score(c).den >= Score(c).num * Score(b).den
      BY <1>1, <1>2
    <2>2. /\ Score(a).num * Score(c).den >= Score(c).num * Score(a).den
          /\ \/ Score(a).num * Score(b).den > Score(b).num * Score(a).den
             \/ Score(b).num * Score(c).den > Score(c).num * Score(b).den
             => Score(a).num * Score(c).den > Score(c).num * Score(a).den
      BY <2>1, ScoreTypes, AcrossTransitive
    <2> QED
      BY <1>1, <2>2 DEF Outscores
  <1> QED
    BY <1>1, <1>2

\* Nobody has responded twice.
Responded == {responses[i] : i \in DOMAIN responses}
RespondOnce ==
    /\ responses \in Seq(Creators)
    /\ \A i, j \in DOMAIN responses : responses[i] = responses[j] => i = j

\* The order of the responses settles every tie.
LEMMA RespondedOrder ==
    ASSUME RespondOnce
    PROVE  /\ Responded \subseteq Creators
           /\ \A a, b \in Responded : a # b => RespondedBefore(a, b) \/ RespondedBefore(b, a)
           /\ \A a, b, c \in Responded :
                RespondedBefore(a, b) /\ RespondedBefore(b, c) => RespondedBefore(a, c)
  <1>1. DOMAIN responses \subseteq Nat /\ \A i \in DOMAIN responses : responses[i] \in Creators
    BY DEF RespondOnce
  <1>2. ASSUME NEW a \in Responded, NEW b \in Responded, a # b
        PROVE  RespondedBefore(a, b) \/ RespondedBefore(b, a)
    <2>1. PICK i \in DOMAIN responses : a = responses[i]
      BY DEF Responded
    <2>2. PICK j \in DOMAIN responses : b = responses[j]
      BY DEF Responded
    <2>3. i < j \/ j < i
      BY <1>1, <1>2, <2>1, <2>2
    <2> QED
      BY <2>1, <2>2, <2>3 DEF RespondedBefore
  <1>3. ASSUME NEW a \in Responded, NEW b \in Responded, NEW c \in Responded,
               RespondedBefore(a, b), RespondedBefore(b, c)
        PROVE  RespondedBefore(a, c)
    <2>1. PICK i, j \in DOMAIN responses : i < j /\ responses[i] = a /\ responses[j] = b
      BY <1>3 DEF RespondedBefore
    <2>2. PICK m, n \in DOMAIN responses : m < n /\ responses[m] = b /\ responses[n] = c
      BY <1>3 DEF RespondedBefore
    <2>3. j = m
      BY <2>1, <2>2 DEF RespondOnce
    <2>4. i < n
      BY <1>1, <2>1, <2>2, <2>3
    <2> QED
      BY <2>1, <2>2, <2>4 DEF RespondedBefore
  <1> QED
    BY <1>1, <1>2, <1>3 DEF Responded

\* The comparator of the sort decides between any two responses, and passes on.
LEMMA BeforeOrder ==
    ASSUME RespondOnce
    PROVE  /\ \A a, b \in Responded : a # b => Before(a, b) \/ Before(b, a)
           /\ \A a, b, c \in Responded : Before(a, b) /\ Before(b, c) => Before(a, c)
           /\ \A a, b \in Responded : Before(a, b) => ~Outscores(b, a)
  <1>1. Responded \subseteq Creators
    BY RespondedOrder
  <1>2. \A a, b \in Responded : Before(a, b) => ~Outscores(b, a)
    BY <1>1, OutscoresOrder DEF Before
  <1>3. ASSUME NEW a \in Responded, NEW b \in Responded, a # b
        PROVE  Before(a, b) \/ Before(b, a)
    <2>1. /\ Ratings[a].count \in Nat /\ Ratings[b].count \in Nat
          /\ Distance[a] \in Nat /\ Distance[b] \in Nat
      BY <1>1, RatingTypes
    <2>2. RespondedBefore(a, b) \/ RespondedBefore(b, a)
      BY <1>3, RespondedOrder
    <2> QED
      BY <2>1, <2>2 DEF Before
  <1>4. ASSUME NEW a \in Responded, NEW b \in Responded, NEW c \in Responded,
               Before(a, b), Before(b, c)
        PROVE  Before(a, c)
    <2>1. ~Outscores(b, a) /\ ~Outscores(c, b)
      BY <1>2, <1>4
    <2>2. /\ ~Outscores(c, a)
          /\ Outscores(a, b) \/ Outscores(b, c) => Outscores(a, c)
      BY <1>1, <2>1, OutscoresOrder
    <2>3. /\ Ratings[a].count \in Nat /\ Ratings[b].count \in Nat /\ Ratings[c].count \in Nat
          /\ Distance[a] \in Nat /\ Distance[b] \in Nat /\ Distance[c] \in Nat
      BY <1>1, RatingTypes
    <2>4. RespondedBefore(a, b) /\ RespondedBefore(b, c) => RespondedBefore(a, c)
      BY RespondedOrder
    <2> QED
      BY <1>4, <2>2, <2>3, <2>4 DEF Before
  <1> QED
    BY <1>2, <1>3, <1>4

LEMMA RespondedFinite ==
    ASSUME RespondOnce
    PROVE  IsFiniteSet(Responded)
  <1>1. DOMAIN responses = 1..Len(responses) /\ Len(responses) \in Nat
    BY DEF RespondOnce
  <1>2. IsFiniteSet(1..Len(responses))
    BY <1>1, FS_Interval
  <1> DEFINE f == [i \in 1..Len(responses) |-> responses[i]]
  <1>3. f \in Surjection(1..Len(responses), Responded)
    BY <1>1 DEF Responded, Surjection, Range
  <1> QED
    BY <1>2, <1>3, FS_Surjection

First(a, S) == a \in S /\ \A b \in S \ {a} : Before(a, b)

\* Of any set of responses one is ranked before all others, and the sort has it
\* first.
LEMMA RankedIsFirst ==
    ASSUME RespondOnce, NEW S \in SUBSET Responded, S # {}
    PROVE  First(Ranked(S), S)
  <1> DEFINE Bad == {T \in SUBSET S : T # {} /\ ~ \E a \in T : First(a, T)}
  <1>1. IsFiniteSet(S)
    BY RespondedFinite, FS_Subset
  <1>2. Bad = {}
    <2> SUFFICES ASSUME Bad # {}
                 PROVE  FALSE
      OBVIOUS
    <2>1. PICK T \in Bad : \A R \in Bad : R \subseteq T => R = T
      <3>1. Bad \in SUBSET SUBSET S
        OBVIOUS
      <3> HIDE DEF Bad
      <3> QED
        BY <1>1, <3>1, MinimalSet
    <2>2. PICK x \in T : TRUE
      BY <2>1
    <2> DEFINE R == T \ {x}
    <2>3. R \subseteq T /\ R # T /\ x \in Responded /\ T \subseteq Responded
      BY <2>1, <2>2
    <2>4. CASE R = {}
      <3>1. First(x, T)
        BY <2>2, <2>4 DEF First
      <3> QED
        BY <2>1, <2>2, <3>1
    <2>5. CASE R # {}
      <3>1. PICK a \in R : First(a, R)
        BY <2>1, <2>3, <2>5
      <3>2. a \in Responded /\ a # x
        BY <2>3, <3>1
      <3>3. CASE Before(a, x)
        <4>1. First(a, T)
          BY <3>1, <3>3 DEF First
        <4> QED
          BY <2>1, <3>1, <4>1
      <3>4. CASE Before(x, a)
        <4>1. \A b \in T \ {x} : b = a \/ Before(a, b)
          BY <3>1 DEF First
        <4>2. \A b \in T \ {x} : Before(x, b)
          BY <2>3, <3>2, <3>4, <4>1, BeforeOrder
        <4>3. First(x, T)
          BY <2>2, <4>2 DEF First
        <4> QED
          BY <2>1, <2>2, <4>3
      <3> QED
        BY <2>3, <3>2, <3>3, <3>4, BeforeOrder
    <2> QED
      BY <2>4, <2>5
  <1>3. \E a \in S : \A b \in S \ {a} : Before(a, b)
    <2>1. S \notin Bad
      BY <1>2
    <2>2. \E a \in S : First(a, S)
      BY <2>1
    <2> QED
      BY <2>2 DEF First
  <1> QED
    BY <1>3 DEF Ranked, First

\* What not being outscored says of the ratings themselves.
BetterByRatings(w, d) ==
    /\ Ratings[d].count >= Ratings[w].count
    /\ 2 * Ratings[d].sum >= 7 * Ratings[d].count
    /\ Ratings[d].sum * Ratings[w].count > Ratings[w].sum * Ratings[d].count
ManyAgainstOne(w, d) ==
    /\ Ratings[w].count = 1 /\ Ratings[d].count >= 3
    /\ 2 * Ratings[d].sum >= 9 * Ratings[d].count

\* With as many ratings, of 3.5 or more on average, a better average outscores:
\* the three ratings of 3.5 weigh on it less.
LEMMA AverageDecides ==
    ASSUME NEW w \in Creators, NEW d \in Creators, BetterByRatings(w, d)
    PROVE  Outscores(d, w)
  <1> DEFINE cw == Ratings[w].count  sw == Ratings[w].sum
             cd == Ratings[d].count  sd == Ratings[d].sum
             A == 2 * sd - 7 * cd    B == 2 * sw - 7 * cw
  <1>1. cw \in Nat /\ sw \in Nat /\ cd \in Nat /\ sd \in Nat
    BY RatingTypes
  <1>2. A \in Nat /\ B \in Int /\ cd >= cw
    BY <1>1 DEF BetterByRatings
  <1>3. A * cw > B * cd
    <2>1. sd * cw > sw * cd
      BY DEF BetterByRatings
    <2>2. A * cw = 2 * (sd * cw) - 7 * (cd * cw) /\ B * cd = 2 * (sw * cd) - 7 * (cd * cw)
      BY <1>1
    <2>3. sd * cw \in Nat /\ sw * cd \in Nat /\ cd * cw \in Nat
      BY <1>1
    <2> QED
      BY <2>1, <2>2, <2>3
  <1>4. A > B
    <2> SUFFICES ASSUME B >= A
                 PROVE  FALSE
      BY <1>2
    <2>1. B \in Nat
      BY <1>2
    <2>2. B * cw >= A * cw
      BY <1>1, <1>2, <2>1
    <2>3. B * cd >= B * cw
      BY <1>1, <1>2, <2>1
    <2>4. B * cd \in Int /\ B * cw \in Int /\ A * cw \in Int
      BY <1>1, <1>2
    <2> QED
      BY <1>3, <2>2, <2>3, <2>4
  <1>5. Score(d).num * Score(w).den > Score(w).num * Score(d).den
    <2>1. Score(d).num = 7 * (3 + cd) + A /\ Score(w).num = 7 * (3 + cw) + B
      BY <1>1 DEF Score
    <2>2. Score(d).den = 2 * (3 + cd) /\ Score(w).den = 2 * (3 + cw)
      BY DEF Score
    <2> HIDE DEF A, B, cw, cd
    <2>3. /\ (7 * (3 + cd) + A) * (2 * (3 + cw))
               = 14 * ((3 + cd) * (3 + cw)) + 6 * A + 2 * (A * cw)
          /\ (7 * (3 + cw) + B) * (2 * (3 + cd))
               = 14 * ((3 + cd) * (3 + cw)) + 6 * B + 2 * (B * cd)
      BY <1>1, <1>2
    <2>4. (3 + cd) * (3 + cw) \in Int /\ A * cw \in Int /\ B * cd \in Int
      BY <1>1, <1>2
    <2> QED
      BY <1>2, <1>3, <1>4, <2>1, <2>2, <2>3, <2>4
  <1> QED
    BY <1>5 DEF Outscores

\* One rating, whatever its stars, does not reach three that average 4.5.
LEMMA OneRatingIsOutscored ==
    ASSUME NEW w \in Creators, NEW d \in Creators, ManyAgainstOne(w, d)
    PROVE  Outscores(d, w)
  <1> DEFINE sw == Ratings[w].sum  cd == Ratings[d].count  sd == Ratings[d].sum
  <1>1. sw \in Nat /\ cd \in Nat /\ sd \in Nat /\ sw <= 5
    BY RatingTypes DEF ManyAgainstOne
  <1>2. cd >= 3 /\ 2 * sd >= 9 * cd
    BY DEF ManyAgainstOne
  <1>3. Score(d).num * Score(w).den = (21 + 2 * sd) * 8
    BY DEF Score, ManyAgainstOne
  <1>4. Score(w).num * Score(d).den = (21 + 2 * sw) * (2 * (3 + cd))
    BY DEF Score
  <1> HIDE DEF sw, cd, sd
  <1>5. (21 + 2 * sw) * (2 * (3 + cd)) <= 31 * (2 * (3 + cd))
    <2>1. 2 * (3 + cd) \in Nat \ {0} /\ 21 + 2 * sw \in Nat /\ 31 >= 21 + 2 * sw
      BY <1>1
    <2> QED
      BY <2>1, TimesOrder
  <1>6. (21 + 2 * sw) * (2 * (3 + cd)) \in Int
    BY <1>1
  <1> QED
    BY <1>1, <1>2, <1>3, <1>4, <1>5, <1>6 DEF Outscores

-----------------------------------------------------------------------------
(* The inductive invariant of the window.                                  *)

Places == {"idle", "loaded", "due", "ranked", "debited", "won", "lost", "spent", "taken", "paid",
           "refused", "recorded", "open", "asked", "blocked", "done"}
Locals == [pc : Places, read : SUBSET Creators, todo : SUBSET Creators, saw : Creators \cup {Nobody}]

WindowTypes ==
    /\ creator \in Creators \cup {Nobody}
    /\ reservation \in [Creators -> {"none", "RESERVED", "SPENT", "RELEASED"}]
    /\ call \in [Calls -> Locals]
    /\ chosen \in [winner : Creators \cup {Nobody}, over : SUBSET Creators]

ResponsesReserved == \A c \in Responded : reservation[c] # "none"

TodoResponded == \A k \in Calls : call[k].todo \subseteq Responded

\* A sweep that has debited its candidate, and how it has it.
Picked(k, l) == Job[k].op = "close" /\ l.pc \in {"debited", "lost", "won", "spent"}
WellPicked(l) == l.saw \in l.todo /\ \A d \in l.todo \ {l.saw} : ~Outscores(d, l.saw)

PickedUnbeaten == \A k \in Calls : Picked(k, call[k]) => WellPicked(call[k])

ChosenUnbeaten ==
    \A d \in chosen.over : chosen.winner \in Creators /\ ~Outscores(d, chosen.winner)

ChosenOnce == status = "MATCHING_WINDOW" => chosen.winner = Nobody

\* The sweep that won marks the winner's response, and no other.
Marking(k, l) == Job[k].op = "close" /\ l.pc \in {"won", "spent"}
MarksWinner == \A k \in Calls : Marking(k, call[k]) => chosen.winner = call[k].saw
SpentIsWinners == \A c \in Creators : reservation[c] = "SPENT" => chosen.winner = c
WinnerGetsMarked ==
    ~torn => \A c \in Creators :
        chosen.winner = c /\ reservation[c] # "SPENT" =>
            \E k \in Calls : Job[k].op = "close" /\ call[k].pc = "won"

WindowInv ==
    /\ RespondOnce /\ WindowTypes /\ ResponsesReserved /\ TodoResponded
    /\ PickedUnbeaten /\ ChosenUnbeaten /\ ChosenOnce
    /\ MarksWinner /\ SpentIsWinners /\ WinnerGetsMarked

-----------------------------------------------------------------------------
(* Its steps.                                                              *)

\* Call k moves on to the locals l.
Moves(k, l) == l \in Locals /\ call' = [call EXCEPT ![k] = l]

LEMMA OnlyOneMoves ==
    ASSUME call \in [Calls -> Locals], NEW k \in Calls, NEW l, Moves(k, l)
    PROVE  /\ call' \in [Calls -> Locals] /\ call'[k] = l
           /\ \A j \in Calls \ {k} : call'[j] = call[j]
  BY DEF Moves

\* A step of k that leaves the window's rows alone and picks nobody.
Beside(k) ==
    /\ UNCHANGED <<responses, reservation, chosen>>
    /\ creator' \in Creators \cup {Nobody}
    /\ status' = "MATCHING_WINDOW" => status = "MATCHING_WINDOW"
    /\ torn \/ (Job[k].op = "close" /\ call[k].pc = "won") => torn'
    /\ \E l : Moves(k, l) /\ l.todo \subseteq Responded /\ ~Picked(k, l)

LEMMA BesideKeepsWindow ==
    ASSUME WindowInv, NEW k \in Calls, Beside(k)
    PROVE  WindowInv'
  <1>1. PICK l : Moves(k, l) /\ l.todo \subseteq Responded /\ ~Picked(k, l)
    BY DEF Beside
  <1>2. /\ call' \in [Calls -> Locals] /\ call'[k] = l
        /\ \A j \in Calls \ {k} : call'[j] = call[j]
    BY <1>1, OnlyOneMoves DEF WindowInv, WindowTypes
  <1>3. Responded' = Responded
    BY DEF Beside, Responded
  <1>4. RespondOnce' /\ WindowTypes'
    BY <1>2 DEF WindowInv, RespondOnce, WindowTypes, Beside
  <1>5. ResponsesReserved' /\ TodoResponded'
    BY <1>1, <1>2, <1>3 DEF WindowInv, ResponsesReserved, TodoResponded, Beside
  <1>6. PickedUnbeaten'
    BY <1>1, <1>2 DEF WindowInv, PickedUnbeaten
  <1>7. ChosenUnbeaten' /\ ChosenOnce' /\ SpentIsWinners'
    BY DEF WindowInv, ChosenUnbeaten, ChosenOnce, SpentIsWinners, Beside
  <1>8. MarksWinner'
    BY <1>1, <1>2 DEF WindowInv, MarksWinner, Marking, Picked, Beside
  <1>9. WinnerGetsMarked'
    <2> SUFFICES ASSUME ~torn', NEW c \in Creators, chosen'.winner = c, reservation'[c] # "SPENT"
                 PROVE  \E j \in Calls : Job[j].op = "close" /\ call'[j].pc = "won"
      BY DEF WinnerGetsMarked
    <2>1. ~torn /\ ~(Job[k].op = "close" /\ call[k].pc = "won")
      BY DEF Beside
    <2>2. PICK j \in Calls : Job[j].op = "close" /\ call[j].pc = "won"
      BY <2>1 DEF WindowInv, WinnerGetsMarked, Beside
    <2> QED
      BY <1>2, <2>1, <2>2
  <1> QED
    BY <1>4, <1>5, <1>6, <1>7, <1>8, <1>9 DEF WindowInv

LEMMA RespondKeepsWindow ==
    ASSUME WindowInv, NEW k \in Calls, Respond(k)
    PROVE  WindowInv'
  <1> DEFINE c == Job[k].creator  l == [Start EXCEPT !.pc = "done"]
  <1>1. Moves(k, l) /\ l.todo = {} /\ Job[k].op = "respond" /\ c \in Creators
    BY SearchCallsAssumption DEF Respond, Finish, Moves, At, Start, Locals, Places
  <1>2. UNCHANGED <<status, creator, chosen, torn>>
    BY DEF Respond, request, history
  <1>3. CASE reservation[c] # "none"
    <2>1. UNCHANGED <<responses, reservation>>
      BY <1>3 DEF Respond
    <2>2. Beside(k)
      BY <1>1, <1>2, <2>1 DEF Beside, Picked, WindowInv, WindowTypes
    <2> QED
      BY <2>2, BesideKeepsWindow
  <1>4. CASE reservation[c] = "none"
    <2>1. responses' = Append(responses, c) /\ reservation' = [reservation EXCEPT ![c] = "RESERVED"]
      BY <1>4 DEF Respond
    <2>2. c \notin Responded
      BY <1>4 DEF WindowInv, ResponsesReserved
    <2>3. RespondOnce' /\ Responded' = Responded \cup {c}
      <3>1. responses \in Seq(Creators)
        BY DEF WindowInv, RespondOnce
      <3>2. /\ responses' \in Seq(Creators) /\ Len(responses') = Len(responses) + 1
            /\ Len(responses) \in Nat
            /\ DOMAIN responses = 1..Len(responses) /\ DOMAIN responses' = 1..(Len(responses) + 1)
            /\ \A i \in 1..Len(responses) : responses'[i] = responses[i]
            /\ responses'[Len(responses) + 1] = c
        BY <1>1, <2>1, <3>1
      <3>3. Responded' = Responded \cup {c}
        BY <3>2 DEF Responded
      <3>4. \A i \in 1..Len(responses) : responses[i] # c
        BY <2>2, <3>2 DEF Responded
      <3>5. RespondOnce'
        <4> SUFFICES ASSUME NEW i \in DOMAIN responses', NEW j \in DOMAIN responses',
                            responses'[i] = responses'[j]
                     PROVE  i = j
          BY <3>2 DEF RespondOnce
        <4>1. CASE i \in 1..Len(responses) /\ j \in 1..Len(responses)
          BY <3>2, <4>1 DEF WindowInv, RespondOnce
        <4>2. CASE ~(i \in 1..Len(responses) /\ j \in 1..Len(responses))
          BY <3>2, <3>4, <4>2
        <4> QED
          BY <4>1, <4>2
      <3> QED
        BY <3>3, <3>5
    <2>4. /\ call' \in [Calls -> Locals] /\ call'[k] = l
          /\ \A j \in Calls \ {k} : call'[j] = call[j]
      BY <1>1, OnlyOneMoves DEF WindowInv, WindowTypes
    <2>5. WindowTypes'
      BY <1>2, <2>1, <2>4 DEF WindowInv, WindowTypes
    <2>6. \A d \in Creators : reservation'[d] = IF d = c THEN "RESERVED" ELSE reservation[d]
      BY <2>1 DEF WindowInv, WindowTypes
    <2>7. Responded \subseteq Creators
      BY RespondedOrder DEF WindowInv
    <2>8. ResponsesReserved' /\ SpentIsWinners'
      BY <1>1, <1>2, <2>3, <2>6, <2>7 DEF WindowInv, ResponsesReserved, SpentIsWinners
    <2>9. TodoResponded'
      BY <1>1, <2>3, <2>4 DEF WindowInv, TodoResponded
    <2>10. PickedUnbeaten' /\ MarksWinner'
      BY <1>1, <1>2, <2>4 DEF WindowInv, PickedUnbeaten, MarksWinner, Picked, Marking
    <2>11. ChosenUnbeaten' /\ ChosenOnce'
      BY <1>2 DEF WindowInv, ChosenUnbeaten, ChosenOnce
    <2>12. WinnerGetsMarked'
      BY <1>1, <1>2, <1>4, <2>4, <2>6 DEF WindowInv, WinnerGetsMarked
    <2> QED
      BY <2>3, <2>5, <2>8, <2>9, <2>10, <2>11, <2>12 DEF WindowInv
  <1> QED
    BY <1>3, <1>4

\* The sweep debits whom the sort has first, or takes him off its list.
LEMMA DebitKeepsWindow ==
    ASSUME WindowInv, NEW k \in Calls, DebitBest(k)
    PROVE  WindowInv'
  <1> DEFINE todo == call[k].todo  c == Ranked(todo)
  <1>1. /\ Job[k].op = "close" /\ call[k].pc = "ranked" /\ todo # {}
        /\ UNCHANGED <<status, creator, responses, reservation, chosen, torn>>
    BY DEF DebitBest, At, request, window, history
  <1>2. call[k] \in Locals /\ todo \subseteq Responded
    BY DEF WindowInv, WindowTypes, TodoResponded
  <1>3. First(c, todo)
    BY <1>1, <1>2, RankedIsFirst DEF WindowInv
  <1>4. c \in todo /\ c \in Creators /\ \A d \in todo \ {c} : ~Outscores(d, c)
    BY <1>2, <1>3, BeforeOrder, RespondedOrder DEF WindowInv, First
  <1>5. CASE DebitFails(c) /\ call' = [call EXCEPT ![k].todo = @ \ {c}]
    <2> DEFINE l == [call[k] EXCEPT !.todo = @ \ {c}]
    <2>1. call' = [call EXCEPT ![k] = l]
      BY <1>5 DEF WindowInv, WindowTypes
    <2>2. l \in Locals /\ l.todo \subseteq Responded /\ l.pc = "ranked"
      BY <1>1, <1>2 DEF Locals
    <2>3. Beside(k)
      BY <1>1, <2>1, <2>2 DEF Beside, Moves, Picked, WindowInv, WindowTypes
    <2> QED
      BY <2>3, BesideKeepsWindow
  <1>6. CASE call' = [call EXCEPT ![k].pc = "debited", ![k].saw = c]
    <2> DEFINE l == [call[k] EXCEPT !.pc = "debited", !.saw = c]
    <2>1. call' = [call EXCEPT ![k] = l]
      BY <1>6 DEF WindowInv, WindowTypes
    <2>2. l \in Locals /\ l.todo = todo /\ l.saw = c /\ l.pc = "debited"
      BY <1>2, <1>4 DEF Locals, Places
    <2>3. Moves(k, l)
      BY <2>1, <2>2 DEF Moves
    <2>4. /\ call' \in [Calls -> Locals] /\ call'[k] = l
          /\ \A j \in Calls \ {k} : call'[j] = call[j]
      BY <2>3, OnlyOneMoves DEF WindowInv, WindowTypes
    <2>5. WellPicked(l)
      BY <1>4, <2>2 DEF WellPicked
    <2> HIDE DEF l
    <2>6. Responded' = Responded
      BY <1>1 DEF Responded
    <2>7. RespondOnce' /\ WindowTypes'
      BY <1>1, <2>4 DEF WindowInv, RespondOnce, WindowTypes
    <2>8. ResponsesReserved' /\ TodoResponded'
      BY <1>1, <1>2, <2>2, <2>4, <2>6 DEF WindowInv, ResponsesReserved, TodoResponded
    <2>9. PickedUnbeaten'
      BY <2>4, <2>5 DEF WindowInv, PickedUnbeaten
    <2>10. MarksWinner'
      BY <1>1, <2>2, <2>4 DEF WindowInv, MarksWinner, Marking
    <2>11. ChosenUnbeaten' /\ ChosenOnce' /\ SpentIsWinners'
      BY <1>1 DEF WindowInv, ChosenUnbeaten, ChosenOnce, SpentIsWinners
    <2>12. WinnerGetsMarked'
      BY <1>1, <2>4 DEF WindowInv, WinnerGetsMarked
    <2> QED
      BY <2>7, <2>8, <2>9, <2>10, <2>11, <2>12 DEF WindowInv
  <1> QED
    BY <1>5, <1>6 DEF DebitBest

\* Whom a sweep has picked is a creator who responded.
LEMMA PickedResponded ==
    ASSUME WindowInv, NEW k \in Calls, Picked(k, call[k])
    PROVE  /\ WellPicked(call[k]) /\ call[k].saw \in call[k].todo
           /\ call[k].todo \subseteq Responded /\ call[k].saw \in Creators
           /\ call[k].saw # Nobody
  <1>1. Responded \subseteq Creators
    BY RespondedOrder DEF WindowInv
  <1> QED
    BY <1>1, SearchAssumption DEF WindowInv, PickedUnbeaten, WellPicked, TodoResponded

LEMMA AssignKeepsWindow ==
    ASSUME WindowInv, NEW k \in Calls, Assign(k)
    PROVE  WindowInv'
  <1> DEFINE c == call[k].saw
             l == [call[k] EXCEPT !.pc = IF status = "MATCHING_WINDOW" THEN "won" ELSE "lost"]
  <1>1. /\ Job[k].op = "close" /\ call[k].pc = "debited" /\ Picked(k, call[k])
        /\ UNCHANGED <<responses, reservation, torn>>
    BY DEF Assign, At, Picked, history
  <1>2. /\ WellPicked(call[k]) /\ c \in call[k].todo /\ call[k].todo \subseteq Responded
        /\ c \in Creators /\ c # Nobody
    BY <1>1, PickedResponded
  <1>3. call[k] \in Locals
    BY DEF WindowInv, WindowTypes
  <1>4. call' = [call EXCEPT ![k] = l]
    BY DEF Assign, To, TakeRow, WindowInv, WindowTypes
  <1>5. l \in Locals /\ l.todo = call[k].todo /\ l.saw = c
        /\ l.pc = IF status = "MATCHING_WINDOW" THEN "won" ELSE "lost"
    BY <1>3 DEF Locals, Places
  <1>6. Moves(k, l) /\ WellPicked(l)
    BY <1>2, <1>4, <1>5 DEF Moves, WellPicked
  <1>7. /\ call' \in [Calls -> Locals] /\ call'[k] = l
        /\ \A j \in Calls \ {k} : call'[j] = call[j]
    BY <1>6, OnlyOneMoves DEF WindowInv, WindowTypes
  <1> HIDE DEF l
  <1>8. Responded' = Responded
    BY <1>1 DEF Responded
  <1>9. RespondOnce' /\ ResponsesReserved' /\ TodoResponded'
    BY <1>1, <1>2, <1>5, <1>7, <1>8 DEF WindowInv, RespondOnce, ResponsesReserved, TodoResponded
  <1>10. PickedUnbeaten'
    BY <1>6, <1>7 DEF WindowInv, PickedUnbeaten
  <1>11. CASE status = "MATCHING_WINDOW"
    <2>1. /\ status' = "CREATOR_ASSIGNED" /\ creator' = c
          /\ chosen' = [winner |-> c, over |-> call[k].todo \ {c}]
      BY <1>11 DEF Assign, TakeRow
    <2>2. chosen.winner = Nobody
      BY <1>11 DEF WindowInv, ChosenOnce
    <2>3. Responded \subseteq Creators
      BY RespondedOrder DEF WindowInv
    <2>4. WindowTypes'
      BY <1>1, <1>2, <1>7, <2>1, <2>3 DEF WindowInv, WindowTypes
    <2>5. ChosenUnbeaten' /\ ChosenOnce'
      BY <1>2, <2>1 DEF ChosenUnbeaten, ChosenOnce, WellPicked
    <2>6. \A j \in Calls : ~Marking(j, call[j])
      <3> SUFFICES ASSUME NEW j \in Calls, Marking(j, call[j])
                   PROVE  FALSE
        OBVIOUS
      <3>1. Picked(j, call[j])
        BY DEF Marking, Picked
      <3>2. call[j].saw # Nobody
        BY <3>1, PickedResponded
      <3> QED
        BY <2>2, <3>2 DEF WindowInv, MarksWinner
    <2>7. MarksWinner'
      BY <1>5, <1>7, <2>1, <2>6 DEF MarksWinner
    <2>8. SpentIsWinners'
      BY <1>1, <2>2, SearchAssumption DEF WindowInv, SpentIsWinners
    <2>9. WinnerGetsMarked'
      BY <1>1, <1>5, <1>7, <1>11 DEF WinnerGetsMarked
    <2> QED
      BY <1>9, <1>10, <2>4, <2>5, <2>7, <2>8, <2>9 DEF WindowInv
  <1>12. CASE status # "MATCHING_WINDOW"
    <2>1. UNCHANGED <<status, creator, chosen>>
      BY <1>12 DEF Assign, TakeRow, request
    <2>2. WindowTypes'
      BY <1>1, <1>7, <2>1 DEF WindowInv, WindowTypes
    <2>3. ChosenUnbeaten' /\ ChosenOnce' /\ SpentIsWinners'
      BY <1>1, <2>1 DEF WindowInv, ChosenUnbeaten, ChosenOnce, SpentIsWinners
    <2>4. MarksWinner'
      BY <1>5, <1>7, <1>12, <2>1 DEF WindowInv, MarksWinner, Marking
    <2>5. WinnerGetsMarked'
      BY <1>1, <1>7, <2>1 DEF WindowInv, WinnerGetsMarked
    <2> QED
      BY <1>9, <1>10, <2>2, <2>3, <2>4, <2>5 DEF WindowInv
  <1> QED
    BY <1>11, <1>12

LEMMA MarkKeepsWindow ==
    ASSUME WindowInv, NEW k \in Calls, MarkSpent(k)
    PROVE  WindowInv'
  <1> DEFINE c == call[k].saw  l == [call[k] EXCEPT !.pc = "spent"]
  <1>1. /\ Job[k].op = "close" /\ call[k].pc = "won" /\ Picked(k, call[k]) /\ Marking(k, call[k])
        /\ UNCHANGED <<status, creator, responses, chosen, torn>>
        /\ reservation' = [reservation EXCEPT ![c] = "SPENT"]
    BY DEF MarkSpent, At, Picked, Marking, request, history
  <1>2. /\ WellPicked(call[k]) /\ call[k].todo \subseteq Responded /\ c \in Creators
    BY <1>1, PickedResponded
  <1>3. call[k] \in Locals
    BY DEF WindowInv, WindowTypes
  <1>4. call' = [call EXCEPT ![k] = l]
    BY DEF MarkSpent, To, WindowInv, WindowTypes
  <1>5. l \in Locals /\ l.todo = call[k].todo /\ l.saw = c /\ l.pc = "spent"
    BY <1>3 DEF Locals, Places
  <1>6. Moves(k, l) /\ WellPicked(l)
    BY <1>2, <1>4, <1>5 DEF Moves, WellPicked
  <1>7. /\ call' \in [Calls -> Locals] /\ call'[k] = l
        /\ \A j \in Calls \ {k} : call'[j] = call[j]
    BY <1>6, OnlyOneMoves DEF WindowInv, WindowTypes
  <1> HIDE DEF l
  <1>8. chosen.winner = c
    BY <1>1 DEF WindowInv, MarksWinner
  <1>9. \A d \in Creators : reservation'[d] = IF d = c THEN "SPENT" ELSE reservation[d]
    BY <1>1 DEF WindowInv, WindowTypes
  <1>10. Responded' = Responded /\ Responded \subseteq Creators
    BY <1>1, RespondedOrder DEF Responded, WindowInv
  <1>11. RespondOnce' /\ ResponsesReserved' /\ TodoResponded'
    BY <1>1, <1>2, <1>5, <1>7, <1>9, <1>10
       DEF WindowInv, RespondOnce, ResponsesReserved, TodoResponded
  <1>12. WindowTypes'
    BY <1>1, <1>7 DEF WindowInv, WindowTypes
  <1>13. PickedUnbeaten'
    BY <1>6, <1>7 DEF WindowInv, PickedUnbeaten
  <1>14. ChosenUnbeaten' /\ ChosenOnce'
    BY <1>1 DEF WindowInv, ChosenUnbeaten, ChosenOnce
  <1>15. MarksWinner'
    BY <1>1, <1>5, <1>7, <1>8 DEF WindowInv, MarksWinner
  <1>16. SpentIsWinners' /\ WinnerGetsMarked'
    BY <1>1, <1>8, <1>9 DEF WindowInv, SpentIsWinners, WinnerGetsMarked
  <1> QED
    BY <1>11, <1>12, <1>13, <1>14, <1>15, <1>16 DEF WindowInv

LEMMA ReleaseKeepsWindow ==
    ASSUME WindowInv, NEW k \in Calls, ReleaseOthers(k)
    PROVE  WindowInv'
  <1> DEFINE c == call[k].saw  l == [Start EXCEPT !.pc = "done"]
  <1>1. /\ Job[k].op = "close" /\ call[k].pc = "spent" /\ Marking(k, call[k])
        /\ UNCHANGED <<status, creator, responses, chosen, torn>>
        /\ \A d \in Creators : \/ reservation'[d] = reservation[d]
                               \/ reservation'[d] = "RELEASED" /\ d # c
        /\ reservation' \in [Creators -> {"none", "RESERVED", "SPENT", "RELEASED"}]
    BY DEF ReleaseOthers, At, Marking, request, history, WindowInv, WindowTypes
  <1>2. Moves(k, l) /\ l.todo = {} /\ l.pc = "done"
    BY DEF ReleaseOthers, Finish, Moves, Start, Locals, Places
  <1>3. /\ call' \in [Calls -> Locals] /\ call'[k] = l
        /\ \A j \in Calls \ {k} : call'[j] = call[j]
    BY <1>2, OnlyOneMoves DEF WindowInv, WindowTypes
  <1> HIDE DEF l
  <1>4. chosen.winner = c
    BY <1>1 DEF WindowInv, MarksWinner
  <1>5. Responded' = Responded /\ Responded \subseteq Creators
    BY <1>1, RespondedOrder DEF Responded, WindowInv
  <1>6. RespondOnce' /\ ResponsesReserved' /\ TodoResponded'
    BY <1>1, <1>2, <1>3, <1>5
       DEF WindowInv, RespondOnce, ResponsesReserved, TodoResponded
  <1>7. WindowTypes'
    BY <1>1, <1>3 DEF WindowInv, WindowTypes
  <1>8. PickedUnbeaten' /\ MarksWinner'
    BY <1>1, <1>2, <1>3 DEF WindowInv, PickedUnbeaten, MarksWinner, Picked, Marking
  <1>9. ChosenUnbeaten' /\ ChosenOnce'
    BY <1>1 DEF WindowInv, ChosenUnbeaten, ChosenOnce
  <1>10. SpentIsWinners' /\ WinnerGetsMarked'
    BY <1>1, <1>3, <1>4 DEF WindowInv, SpentIsWinners, WinnerGetsMarked
  <1> QED
    BY <1>6, <1>7, <1>8, <1>9, <1>10 DEF WindowInv

-----------------------------------------------------------------------------
(* The calls that are beside the window.                                   *)

\* Where a call may go that does not pick: anywhere, if it is no sweep.
Elsewhere(k, where) ==
    where \in Places /\ (Job[k].op # "close" \/ where \notin {"debited", "lost", "won", "spent"})

\* A call moves, and the rest of what the window knows stays.
LEMMA ToBeside ==
    ASSUME WindowInv, NEW k \in Calls, NEW where, Elsewhere(k, where), To(k, where),
           UNCHANGED <<responses, reservation, chosen, torn>>,
           creator' \in Creators \cup {Nobody},
           status' = "MATCHING_WINDOW" => status = "MATCHING_WINDOW",
           ~(Job[k].op = "close" /\ call[k].pc = "won")
    PROVE  Beside(k)
  <1> DEFINE l == [call[k] EXCEPT !.pc = where]
  <1>1. call[k] \in Locals /\ call[k].todo \subseteq Responded
    BY DEF WindowInv, WindowTypes, TodoResponded
  <1>2. l \in Locals /\ l.todo = call[k].todo /\ l.pc = where
    BY <1>1 DEF Locals, Elsewhere
  <1>3. call' = [call EXCEPT ![k] = l]
    BY DEF To
  <1> QED
    BY <1>1, <1>2, <1>3 DEF Beside, Moves, Picked, Elsewhere

LEMMA FinishBeside ==
    ASSUME WindowInv, NEW k \in Calls, Finish(k),
           UNCHANGED <<responses, reservation, chosen>>,
           creator' \in Creators \cup {Nobody},
           status' = "MATCHING_WINDOW" => status = "MATCHING_WINDOW",
           torn \/ (Job[k].op = "close" /\ call[k].pc = "won") => torn'
    PROVE  Beside(k)
  <1> DEFINE l == [Start EXCEPT !.pc = "done"]
  <1>1. l \in Locals /\ l.todo = {} /\ l.pc = "done"
    BY DEF Locals, Start, Places
  <1>2. call' = [call EXCEPT ![k] = l]
    BY DEF Finish
  <1> QED
    BY <1>1, <1>2 DEF Beside, Moves, Picked

\* Loading, and the calls that end without a write of their own.
LEMMA LoadsBeside ==
    ASSUME WindowInv, NEW k \in Calls,
           \/ LoadRespond(k) \/ FindDue(k) \/ LoadWindow(k) \/ LoadAccept(k) \/ LoadCancel(k)
           \/ LoadOpenRequest(k) \/ LoadThread(k)
    PROVE  Beside(k)
  <1>1. UNCHANGED <<status, creator, responses, reservation, chosen, torn>>
    BY DEF LoadRespond, FindDue, LoadWindow, LoadAccept, LoadCancel, LoadOpenRequest, LoadThread,
           request, window, history
  <1>2. \E where \in {"loaded", "due", "done"} : To(k, where)
    BY DEF LoadRespond, FindDue, LoadWindow, LoadAccept, LoadCancel, LoadOpenRequest, LoadThread
  <1>3. \A where \in {"loaded", "due", "done"} : Elsewhere(k, where)
    BY DEF Elsewhere, Places
  <1>4. call[k].pc # "won"
    BY DEF LoadRespond, FindDue, LoadWindow, LoadAccept, LoadCancel, LoadOpenRequest, LoadThread,
           MayStart, At
  <1>5. creator' \in Creators \cup {Nobody}
    BY <1>1 DEF WindowInv, WindowTypes
  <1> QED
    BY <1>1, <1>2, <1>3, <1>4, <1>5, ToBeside

LEMMA ReadBeside ==
    ASSUME WindowInv, NEW k \in Calls, ReadResponses(k) \/ FindExpired(k)
    PROVE  Beside(k)
  <1>1. /\ UNCHANGED <<status, creator, responses, reservation, chosen, torn>>
        /\ call[k].pc # "won" /\ creator \in Creators \cup {Nobody}
    BY DEF ReadResponses, FindExpired, At, MayStart, request, window, history, WindowInv, WindowTypes
  <1>2. call[k] \in Locals /\ call[k].todo \subseteq Responded /\ Responded \subseteq Creators
    BY RespondedOrder DEF WindowInv, WindowTypes, TodoResponded
  <1>3. CASE ReadResponses(k)
    <2> DEFINE l == [call[k] EXCEPT !.pc = "ranked", !.read = Responded, !.todo = Responded]
    <2>1. call' = [call EXCEPT ![k] = l]
      BY <1>3 DEF ReadResponses, Responded, WindowInv, WindowTypes
    <2>2. l \in Locals /\ l.todo = Responded /\ l.pc = "ranked"
      BY <1>2 DEF Locals, Places
    <2> QED
      BY <1>1, <2>1, <2>2 DEF Beside, Moves, Picked
  <1>4. CASE FindExpired(k)
    <2> DEFINE l == [call[k] EXCEPT !.pc = "loaded", !.saw = creator]
    <2>1. call' = [call EXCEPT ![k] = l]
      BY <1>4 DEF FindExpired, WindowInv, WindowTypes
    <2>2. l \in Locals /\ l.todo = call[k].todo /\ l.pc = "loaded"
      BY <1>1, <1>2 DEF Locals, Places
    <2> QED
      BY <1>1, <1>2, <2>1, <2>2 DEF Beside, Moves, Picked
  <1> QED
    BY <1>3, <1>4

LEMMA WindowEndsBeside ==
    ASSUME WindowInv, NEW k \in Calls,
           RefundLoser(k) \/ FallbackToFirstAccepted(k) \/ Cancel(k) \/ Cut(k)
    PROVE  Beside(k)
  <1>1. Finish(k) /\ UNCHANGED <<creator, responses, reservation, chosen>>
    BY DEF RefundLoser, FallbackToFirstAccepted, Cancel, Cut, request, window
  <1>2. status' = "MATCHING_WINDOW" => status = "MATCHING_WINDOW"
    BY DEF RefundLoser, FallbackToFirstAccepted, Cancel, Cut, request
  <1>3. torn \/ (Job[k].op = "close" /\ call[k].pc = "won") => torn'
    BY DEF RefundLoser, FallbackToFirstAccepted, Cancel, Cut, history, At
  <1>4. creator' \in Creators \cup {Nobody}
    BY <1>1 DEF WindowInv, WindowTypes
  <1> QED
    BY <1>1, <1>2, <1>3, <1>4, FinishBeside

LEMMA AcceptBeside ==
    ASSUME WindowInv, NEW k \in Calls,
           Take(k) \/ Pay(k) \/ Rollback(k) \/ CloseThreads(k) \/ SpendElsewhere(k)
    PROVE  Beside(k)
  <1>1. /\ Job[k].op # "close" /\ UNCHANGED <<responses, reservation, chosen>> /\ (torn => torn')
        /\ status' = "MATCHING_WINDOW" => status = "MATCHING_WINDOW"
    <2>1. Job[k].op # "close" /\ UNCHANGED <<responses, reservation, chosen>>
      BY DEF Take, Pay, Rollback, CloseThreads, SpendElsewhere, At, MayStart, window
    <2>2. status' = "MATCHING_WINDOW" => status = "MATCHING_WINDOW"
      BY DEF Take, Pay, Rollback, CloseThreads, SpendElsewhere, request
    <2>3. torn => torn'
      BY Zenon DEF Take, Pay, Rollback, CloseThreads, SpendElsewhere, history
    <2> QED
      BY <2>1, <2>2, <2>3
  <1>2. creator' \in Creators \cup {Nobody}
    BY SearchCallsAssumption
       DEF Take, Pay, Rollback, CloseThreads, SpendElsewhere, request, WindowInv, WindowTypes
  <1>3. Finish(k) \/ (UNCHANGED torn /\ \E where \in {"taken", "paid", "refused"} : To(k, where))
    BY DEF Take, Pay, Rollback, CloseThreads, SpendElsewhere, history
  <1>4. \A where \in {"taken", "paid", "refused"} : Elsewhere(k, where)
    BY <1>1 DEF Elsewhere, Places
  <1> QED
    BY <1>1, <1>2, <1>3, <1>4, ToBeside, FinishBeside

LEMMA TimerBeside ==
    ASSUME WindowInv, NEW k \in Calls, Republish(k) \/ RecordAbandonment(k) \/ BarAbandoner(k)
    PROVE  Beside(k)
  <1>1. /\ Job[k].op # "close" /\ UNCHANGED <<responses, reservation, chosen, torn>>
        /\ status' = "MATCHING_WINDOW" => status = "MATCHING_WINDOW"
    BY DEF Republish, RecordAbandonment, BarAbandoner, At, request, window, history
  <1>2. creator' \in Creators \cup {Nobody}
    BY DEF Republish, RecordAbandonment, BarAbandoner, request, WindowInv, WindowTypes
  <1>3. Finish(k) \/ \E where \in {"won", "recorded"} : To(k, where)
    BY DEF Republish, RecordAbandonment, BarAbandoner
  <1>4. \A where \in {"won", "recorded"} : Elsewhere(k, where)
    BY <1>1 DEF Elsewhere, Places
  <1> QED
    BY <1>1, <1>2, <1>3, <1>4, ToBeside, FinishBeside

LEMMA QuestionsBeside ==
    ASSUME WindowInv, NEW k \in Calls,
           \/ FindOrCreateThread(k) \/ AddMessage(k) \/ FlagForReview(k)
           \/ IncrementExchangeCount(k) \/ Decline(k)
    PROVE  Beside(k)
  <1>1. /\ Job[k].op # "close" /\ UNCHANGED <<status, creator, responses, reservation, chosen, torn>>
    BY DEF FindOrCreateThread, AddMessage, FlagForReview, IncrementExchangeCount, Decline, At,
           request, window, history
  <1>2. creator' \in Creators \cup {Nobody}
    BY <1>1 DEF WindowInv, WindowTypes
  <1>3. Finish(k) \/ \E where \in {"open", "done", "asked", "blocked"} : To(k, where)
    BY DEF FindOrCreateThread, AddMessage, FlagForReview, IncrementExchangeCount, Decline
  <1>4. \A where \in {"open", "done", "asked", "blocked"} : Elsewhere(k, where)
    BY <1>1 DEF Elsewhere, Places
  <1> QED
    BY <1>1, <1>2, <1>3, <1>4, ToBeside, FinishBeside

LEMMA WindowStep == WindowInv /\ [Next]_vars => WindowInv'
  <1> SUFFICES ASSUME WindowInv, [Next]_vars
               PROVE  WindowInv'
    OBVIOUS
  <1>1. CASE Lapse \/ UNCHANGED vars
    <2>1. UNCHANGED <<status, creator, responses, reservation, chosen, torn, call>>
      BY <1>1 DEF Lapse, vars, window, history
    <2>2. Responded' = Responded
      BY <2>1 DEF Responded
    <2>3. RespondOnce' /\ WindowTypes' /\ ResponsesReserved' /\ TodoResponded'
      BY <2>1, <2>2 DEF WindowInv, RespondOnce, WindowTypes, ResponsesReserved, TodoResponded
    <2>4. PickedUnbeaten' /\ ChosenUnbeaten' /\ ChosenOnce'
      BY <2>1 DEF WindowInv, PickedUnbeaten, Picked, ChosenUnbeaten, ChosenOnce
    <2>5. MarksWinner' /\ SpentIsWinners' /\ WinnerGetsMarked'
      BY <2>1 DEF WindowInv, MarksWinner, Marking, SpentIsWinners, WinnerGetsMarked
    <2> QED
      BY <2>3, <2>4, <2>5 DEF WindowInv
  <1>2. ASSUME NEW k \in Calls, Step(k)
        PROVE  WindowInv'
    <2>1. CASE Respond(k) \/ DebitBest(k) \/ Assign(k) \/ MarkSpent(k) \/ ReleaseOthers(k)
      BY <2>1, RespondKeepsWindow, DebitKeepsWindow, AssignKeepsWindow, MarkKeepsWindow,
         ReleaseKeepsWindow
    <2>2. CASE ~(Respond(k) \/ DebitBest(k) \/ Assign(k) \/ MarkSpent(k) \/ ReleaseOthers(k))
      <3>1. Beside(k)
        BY <1>2, <2>2, LoadsBeside, ReadBeside, WindowEndsBeside, AcceptBeside, TimerBeside,
           QuestionsBeside DEF Step
      <3> QED
        BY <3>1, BesideKeepsWindow
    <2> QED
      BY <2>1, <2>2
  <1> QED
    BY <1>1, <1>2 DEF Next

LEMMA WindowInit == Init => WindowInv
  <1> SUFFICES ASSUME Init
               PROVE  WindowInv
    OBVIOUS
  <1>1. Responded = {} /\ RespondOnce
    BY DEF Init, Responded, RespondOnce
  <1>2. \A k \in Calls : call[k].todo = {} /\ call[k].pc = "idle"
    BY DEF Init, Start
  <1>3. WindowTypes
    <2>1. Start \in Locals
      BY DEF Start, Locals, Places
    <2> QED
      BY <2>1 DEF Init, WindowTypes
  <1>4. ResponsesReserved /\ TodoResponded /\ PickedUnbeaten /\ MarksWinner
    BY <1>1, <1>2 DEF ResponsesReserved, TodoResponded, PickedUnbeaten, Picked, MarksWinner, Marking
  <1>5. ChosenUnbeaten /\ ChosenOnce /\ SpentIsWinners /\ WinnerGetsMarked
    BY SearchAssumption DEF Init, ChosenUnbeaten, ChosenOnce, SpentIsWinners, WinnerGetsMarked
  <1> QED
    BY <1>1, <1>3, <1>4, <1>5 DEF WindowInv

\* The invariant of the window, through overlapping sweeps, late responses and
\* Connects spent elsewhere (matchingWindowService.closeWindow).
THEOREM WindowInvariance == Spec => []WindowInv
  <1> QED
    BY WindowInit, WindowStep, PTL DEF Spec

\* Whoever wins a window is not outscored by any respondent the sweep could
\* still have taken, hence by none with a better average of as many ratings, and
\* no single rating beats three that average 4.5
\* (matchingWindowService.closeWindow, bayesianScore).
THEOREM WindowWonByTheBest == Spec => []BestWins
  <1>1. WindowInv => BestWins
    <2> SUFFICES ASSUME WindowInv, NEW d \in chosen.over
                 PROVE  ~BetterByRatings(chosen.winner, d) /\ ~ManyAgainstOne(chosen.winner, d)
      BY DEF BestWins, BetterByRatings, ManyAgainstOne
    <2>1. d \in Creators /\ chosen.winner \in Creators /\ ~Outscores(d, chosen.winner)
      BY DEF WindowInv, WindowTypes, ChosenUnbeaten
    <2> QED
      BY <2>1, AverageDecides, OneRatingIsOutscored
  <1> QED
    BY <1>1, WindowInvariance, PTL

-----------------------------------------------------------------------------
(* The Connects: what has been paid is what is assigned, with the debits   *)
(* of sweeps that have not assigned yet and less the debits that accepted  *)
(* calls still owe.                                                        *)

AccountTypes ==
    /\ paid \in [Creators -> Int] /\ assigned \in [Creators -> Int]
    /\ connects \in [Creators -> Nat]

HoldsFor(k, l, c) == Job[k].op = "close" /\ l.pc \in {"debited", "lost"} /\ l.saw = c
OwesFor(k, l, c) == Job[k].op = "accept" /\ l.pc \in {"taken", "refused"} /\ Job[k].creator = c
Holding(c) == {k \in Calls : HoldsFor(k, call[k], c)}
Owing(c) == {k \in Calls : OwesFor(k, call[k], c)}

DueFrom(c) == assigned[c] + Cardinality(Holding(c)) - Cardinality(Owing(c))

PaidIsDue == ~torn => \A c \in Creators : paid[c] = Cost * DueFrom(c)

AccountInv == AccountTypes /\ PaidIsDue

One(holds) == IF holds THEN 1 ELSE 0

\* Two sets of calls that differ in one call at most.
LEMMA OneCallCounts ==
    ASSUME NEW A \in SUBSET Calls, NEW B \in SUBSET Calls, NEW k \in Calls,
           \A j \in Calls \ {k} : j \in A <=> j \in B
    PROVE  /\ Cardinality(A) \in Nat /\ Cardinality(B) \in Nat
           /\ Cardinality(B) = Cardinality(A) + One(k \in B) - One(k \in A)
  <1>1. IsFiniteSet(A) /\ IsFiniteSet(B) /\ Cardinality(A) \in Nat /\ Cardinality(B) \in Nat
    BY SearchCallsAssumption, FS_Subset, FS_CardinalityType
  <1>2. CASE k \in A <=> k \in B
    <2>1. A = B
      BY <1>2
    <2> QED
      BY <1>1, <1>2, <2>1 DEF One
  <1>3. CASE k \in A /\ k \notin B
    <2>1. B = A \ {k}
      BY <1>3
    <2>2. Cardinality(B) = Cardinality(A) - 1
      BY <1>1, <1>3, <2>1, FS_RemoveElement
    <2> QED
      BY <1>1, <1>3, <2>2 DEF One
  <1>4. CASE k \notin A /\ k \in B
    <2>1. B = A \cup {k}
      BY <1>4
    <2>2. Cardinality(B) = Cardinality(A) + 1
      BY <1>1, <1>4, <2>1, FS_AddElement
    <2> QED
      BY <1>1, <1>4, <2>2 DEF One
  <1> QED
    BY <1>2, <1>3, <1>4

\* How much more is due from c when k moves on to l.
Change(k, l, c) ==
    (assigned'[c] - assigned[c])
        + (One(HoldsFor(k, l, c)) - One(HoldsFor(k, call[k], c)))
        - (One(OwesFor(k, l, c)) - One(OwesFor(k, call[k], c)))

LEMMA DueMoves ==
    ASSUME call \in [Calls -> Locals], AccountTypes, AccountTypes',
           NEW k \in Calls, NEW l, Moves(k, l), NEW c \in Creators
    PROVE  DueFrom(c) \in Int /\ DueFrom(c)' = DueFrom(c) + Change(k, l, c)
  <1>1. call'[k] = l /\ \A j \in Calls \ {k} : call'[j] = call[j]
    BY OnlyOneMoves
  <1>2. /\ Cardinality(Holding(c)) \in Nat /\ Cardinality(Holding(c)') \in Nat
        /\ Cardinality(Holding(c)')
             = Cardinality(Holding(c)) + One(HoldsFor(k, l, c)) - One(HoldsFor(k, call[k], c))
    <2>1. Holding(c) \in SUBSET Calls /\ Holding(c)' \in SUBSET Calls
      BY DEF Holding
    <2>2. \A j \in Calls \ {k} : j \in Holding(c) <=> j \in Holding(c)'
      BY <1>1 DEF Holding, HoldsFor
    <2>3. (k \in Holding(c) <=> HoldsFor(k, call[k], c)) /\ (k \in Holding(c)' <=> HoldsFor(k, l, c))
      BY <1>1 DEF Holding, HoldsFor
    <2> HIDE DEF Holding, HoldsFor
    <2>4. /\ Cardinality(Holding(c)) \in Nat /\ Cardinality(Holding(c)') \in Nat
          /\ Cardinality(Holding(c)')
               = Cardinality(Holding(c)) + One(k \in Holding(c)') - One(k \in Holding(c))
      BY <2>1, <2>2, OneCallCounts
    <2> QED
      BY <2>3, <2>4 DEF One
  <1>3. /\ Cardinality(Owing(c)) \in Nat /\ Cardinality(Owing(c)') \in Nat
        /\ Cardinality(Owing(c)')
             = Cardinality(Owing(c)) + One(OwesFor(k, l, c)) - One(OwesFor(k, call[k], c))
    <2>1. Owing(c) \in SUBSET Calls /\ Owing(c)' \in SUBSET Calls
      BY DEF Owing
    <2>2. \A j \in Calls \ {k} : j \in Owing(c) <=> j \in Owing(c)'
      BY <1>1 DEF Owing, OwesFor
    <2>3. (k \in Owing(c) <=> OwesFor(k, call[k], c)) /\ (k \in Owing(c)' <=> OwesFor(k, l, c))
      BY <1>1 DEF Owing, OwesFor
    <2>4. /\ Cardinality(Owing(c)) \in Nat /\ Cardinality(Owing(c)') \in Nat
          /\ Cardinality(Owing(c)')
               = Cardinality(Owing(c)) + One(k \in Owing(c)') - One(k \in Owing(c))
      BY <2>1, <2>2, OneCallCounts
    <2> QED
      BY <2>3, <2>4 DEF One
  <1>4. assigned[c] \in Int /\ assigned'[c] \in Int
    BY DEF AccountTypes
  <1>5. DueFrom(c)' = assigned'[c] + Cardinality(Holding(c)') - Cardinality(Owing(c)')
    BY DEF DueFrom
  <1>6. \A b \in BOOLEAN : One(b) \in Int
    BY DEF One
  <1>7. /\ HoldsFor(k, l, c) \in BOOLEAN /\ HoldsFor(k, call[k], c) \in BOOLEAN
        /\ OwesFor(k, l, c) \in BOOLEAN /\ OwesFor(k, call[k], c) \in BOOLEAN
    BY DEF HoldsFor, OwesFor
  <1>8. /\ One(HoldsFor(k, l, c)) \in Int /\ One(HoldsFor(k, call[k], c)) \in Int
        /\ One(OwesFor(k, l, c)) \in Int /\ One(OwesFor(k, call[k], c)) \in Int
    BY <1>6, <1>7
  <1> QED
    BY <1>2, <1>3, <1>4, <1>5, <1>8 DEF DueFrom, Change

\* A step pays as many Connects as more are due, or leaves the balance torn.
PaysChange(k, l) ==
    ~torn' => ~torn /\ \A c \in Creators :
        \/ paid'[c] = paid[c] /\ Change(k, l, c) = 0
        \/ paid'[c] = paid[c] + Cost /\ Change(k, l, c) = 1
        \/ paid'[c] = paid[c] - Cost /\ Change(k, l, c) = -1

LEMMA ChangeKeepsAccounts ==
    ASSUME WindowInv, AccountInv, AccountTypes',
           NEW k \in Calls, NEW l, Moves(k, l), PaysChange(k, l)
    PROVE  AccountInv'
  <1> SUFFICES ASSUME ~torn', NEW c \in Creators
               PROVE  paid'[c] = Cost * DueFrom(c)'
    BY DEF AccountInv, PaidIsDue
  <1>1. DueFrom(c) \in Int /\ DueFrom(c)' = DueFrom(c) + Change(k, l, c)
    BY DueMoves DEF WindowInv, WindowTypes, AccountInv
  <1>2. paid[c] = Cost * DueFrom(c) /\ Cost \in Int
    BY SearchAssumption DEF PaysChange, AccountInv, PaidIsDue
  <1>3. \A n \in Int : Cost * (n + 1) = Cost * n + Cost /\ Cost * (n + (-1)) = Cost * n - Cost
    BY <1>2
  <1>4. CASE paid'[c] = paid[c] /\ Change(k, l, c) = 0
    BY <1>1, <1>2, <1>4
  <1>5. CASE paid'[c] = paid[c] + Cost /\ Change(k, l, c) = 1
    BY <1>1, <1>2, <1>3, <1>5
  <1>6. CASE paid'[c] = paid[c] - Cost /\ Change(k, l, c) = -1
    BY <1>1, <1>2, <1>3, <1>6
  <1> QED
    BY <1>4, <1>5, <1>6 DEF PaysChange

-----------------------------------------------------------------------------
(* Its steps.                                                              *)

Involved(k, l) ==
    \/ Job[k].op = "close" /\ l.pc \in {"debited", "lost"}
    \/ Job[k].op = "accept" /\ l.pc \in {"taken", "refused"}

\* A step of a call that neither holds nor owes a Connect, before or after.
Uninvolved(k) ==
    /\ UNCHANGED <<paid, assigned>> /\ connects' \in [Creators -> Nat]
    /\ torn => torn'
    /\ \E l : Moves(k, l) /\ (~torn' => ~Involved(k, call[k]) /\ ~Involved(k, l))

LEMMA UninvolvedKeepsAccounts ==
    ASSUME WindowInv, AccountInv, NEW k \in Calls, Uninvolved(k)
    PROVE  AccountInv'
  <1>1. PICK l : Moves(k, l) /\ (~torn' => ~Involved(k, call[k]) /\ ~Involved(k, l))
    BY DEF Uninvolved
  <1>2. AccountTypes'
    BY DEF Uninvolved, AccountInv, AccountTypes
  <1>3. ASSUME ~torn', NEW c \in Creators
        PROVE  paid'[c] = paid[c] /\ Change(k, l, c) = 0
    <2>1. /\ ~HoldsFor(k, l, c) /\ ~HoldsFor(k, call[k], c)
          /\ ~OwesFor(k, l, c) /\ ~OwesFor(k, call[k], c)
      BY <1>1, <1>3 DEF HoldsFor, OwesFor, Involved
    <2>2. assigned'[c] = assigned[c] /\ assigned[c] \in Int /\ paid'[c] = paid[c]
      BY DEF Uninvolved, AccountInv, AccountTypes
    <2> QED
      BY <2>1, <2>2 DEF Change, One
  <1>4. PaysChange(k, l)
    BY <1>3 DEF PaysChange, Uninvolved
  <1> QED
    BY <1>1, <1>2, <1>4, ChangeKeepsAccounts

\* What a debit does to the accounts of every creator.
LEMMA DebitEffect ==
    ASSUME AccountTypes, NEW c \in Creators, CanPay(c), Debit(c)
    PROVE  /\ paid' \in [Creators -> Int] /\ connects' \in [Creators -> Nat]
           /\ \A d \in Creators : paid'[d] = IF d = c THEN paid[d] + Cost ELSE paid[d]
  <1>1. Cost \in Nat /\ connects[c] \in Nat /\ connects[c] >= Cost
    BY SearchAssumption DEF CanPay, AccountTypes
  <1>2. connects[c] - Cost \in Nat
    BY <1>1
  <1> QED
    BY <1>1, <1>2 DEF Debit, AccountTypes

LEMMA DebitFailsEffect ==
    ASSUME AccountTypes, NEW c \in Creators, DebitFails(c)
    PROVE  paid' = paid /\ connects' \in [Creators -> Nat]
  <1>1. CASE UNCHANGED connects
    BY <1>1 DEF DebitFails, AccountTypes
  <1>2. CASE CanPay(c) /\ connects' = [connects EXCEPT ![c] = @ - Cost]
    <2>1. connects[c] - Cost \in Nat
      BY <1>2, SearchAssumption DEF CanPay, AccountTypes
    <2> QED
      BY <1>2, <2>1 DEF DebitFails, AccountTypes
  <1> QED
    BY <1>1, <1>2 DEF DebitFails

LEMMA DebitKeepsAccounts ==
    ASSUME WindowInv, AccountInv, NEW k \in Calls, DebitBest(k)
    PROVE  AccountInv'
  <1> DEFINE todo == call[k].todo  c == Ranked(todo)
  <1>1. Job[k].op = "close" /\ call[k].pc = "ranked" /\ UNCHANGED <<assigned, torn>>
    BY DEF DebitBest, At, history
  <1>2. c \in Creators /\ call[k] \in Locals
    <2>1. Responded \subseteq Creators /\ todo \subseteq Responded /\ todo # {} /\ call[k] \in Locals
      BY RespondedOrder DEF WindowInv, WindowTypes, TodoResponded, DebitBest
    <2>2. First(c, todo)
      BY <2>1, RankedIsFirst DEF WindowInv
    <2> QED
      BY <2>1, <2>2 DEF First
  <1>3. CASE DebitFails(c) /\ call' = [call EXCEPT ![k].todo = @ \ {c}]
    <2> DEFINE l == [call[k] EXCEPT !.todo = @ \ {c}]
    <2>1. call' = [call EXCEPT ![k] = l] /\ paid' = paid /\ connects' \in [Creators -> Nat]
      BY <1>2, <1>3, DebitFailsEffect DEF WindowInv, WindowTypes, AccountInv
    <2>2. l \in Locals /\ l.pc = "ranked"
      BY <1>1, <1>2 DEF Locals
    <2>3. Uninvolved(k)
      BY <1>1, <2>1, <2>2 DEF Uninvolved, Moves, Involved, AccountInv, AccountTypes
    <2> QED
      BY <2>3, UninvolvedKeepsAccounts
  <1>4. CASE CanPay(c) /\ Debit(c) /\ call' = [call EXCEPT ![k].pc = "debited", ![k].saw = c]
    <2> DEFINE l == [call[k] EXCEPT !.pc = "debited", !.saw = c]
    <2>1. call' = [call EXCEPT ![k] = l] /\ Debit(c)
      BY <1>4 DEF WindowInv, WindowTypes
    <2>2. l \in Locals /\ l.pc = "debited" /\ l.saw = c
      BY <1>2 DEF Locals, Places
    <2>3. /\ paid' \in [Creators -> Int] /\ connects' \in [Creators -> Nat]
          /\ \A d \in Creators : paid'[d] = IF d = c THEN paid[d] + Cost ELSE paid[d]
      BY <1>2, <1>4, <2>1, DebitEffect DEF AccountInv
    <2>4. AccountTypes' /\ Moves(k, l)
      BY <1>1, <2>1, <2>2, <2>3 DEF AccountInv, AccountTypes, Moves
    <2>5. ASSUME NEW d \in Creators
          PROVE  Change(k, l, d) = IF d = c THEN 1 ELSE 0
      <3>1. /\ HoldsFor(k, l, d) <=> d = c
            /\ ~HoldsFor(k, call[k], d) /\ ~OwesFor(k, l, d) /\ ~OwesFor(k, call[k], d)
        BY <1>1, <2>2 DEF HoldsFor, OwesFor
      <3>2. assigned'[d] = assigned[d] /\ assigned[d] \in Int
        BY <1>1 DEF AccountInv, AccountTypes
      <3> QED
        BY <3>1, <3>2 DEF Change, One
    <2> HIDE DEF l
    <2>6. PaysChange(k, l)
      BY <1>1, <2>3, <2>5 DEF PaysChange
    <2> QED
      BY <2>4, <2>6, ChangeKeepsAccounts
  <1> QED
    BY <1>3, <1>4 DEF DebitBest

LEMMA AssignKeepsAccounts ==
    ASSUME WindowInv, AccountInv, NEW k \in Calls, Assign(k)
    PROVE  AccountInv'
  <1> DEFINE c == call[k].saw
             l == [call[k] EXCEPT !.pc = IF status = "MATCHING_WINDOW" THEN "won" ELSE "lost"]
  <1>1. /\ Job[k].op = "close" /\ call[k].pc = "debited" /\ Picked(k, call[k])
        /\ UNCHANGED <<connects, paid, torn>>
    BY DEF Assign, At, Picked, balances, history
  <1>2. c \in Creators /\ call[k] \in Locals
    BY <1>1, PickedResponded DEF WindowInv, WindowTypes
  <1>3. call' = [call EXCEPT ![k] = l]
    BY DEF Assign, To, TakeRow, WindowInv, WindowTypes
  <1>4. l \in Locals /\ l.saw = c /\ l.pc = IF status = "MATCHING_WINDOW" THEN "won" ELSE "lost"
    BY <1>2 DEF Locals, Places
  <1>5. assigned' = IF status = "MATCHING_WINDOW" THEN [assigned EXCEPT ![c] = @ + 1] ELSE assigned
    BY DEF Assign, TakeRow
  <1>6. /\ assigned' \in [Creators -> Int]
        /\ \A d \in Creators : /\ assigned[d] \in Int
                               /\ assigned'[d] = IF status = "MATCHING_WINDOW" /\ d = c
                                                 THEN assigned[d] + 1 ELSE assigned[d]
    BY <1>2, <1>5 DEF AccountInv, AccountTypes
  <1>7. AccountTypes' /\ Moves(k, l)
    BY <1>1, <1>3, <1>4, <1>6 DEF AccountInv, AccountTypes, Moves
  <1>8. ASSUME NEW d \in Creators
        PROVE  Change(k, l, d) = 0
    <2>1. /\ HoldsFor(k, l, d) <=> (status # "MATCHING_WINDOW" /\ d = c)
          /\ HoldsFor(k, call[k], d) <=> d = c
          /\ ~OwesFor(k, l, d) /\ ~OwesFor(k, call[k], d)
      BY <1>1, <1>4 DEF HoldsFor, OwesFor
    <2> QED
      BY <1>6, <2>1 DEF Change, One
  <1> HIDE DEF l
  <1>9. PaysChange(k, l)
    BY <1>1, <1>8 DEF PaysChange
  <1> QED
    BY <1>7, <1>9, ChangeKeepsAccounts

LEMMA RefundKeepsAccounts ==
    ASSUME WindowInv, AccountInv, NEW k \in Calls, RefundLoser(k)
    PROVE  AccountInv'
  <1> DEFINE c == call[k].saw  l == [Start EXCEPT !.pc = "done"]
  <1>1. Job[k].op = "close" /\ call[k].pc = "lost" /\ Picked(k, call[k]) /\ UNCHANGED assigned
    BY DEF RefundLoser, At, Picked
  <1>2. c \in Creators
    BY <1>1, PickedResponded
  <1>3. Moves(k, l) /\ l.pc = "done"
    BY DEF RefundLoser, Finish, Moves, Start, Locals, Places
  <1>4. Cost \in Nat /\ paid[c] \in Int /\ connects[c] \in Nat
    BY <1>2, SearchAssumption DEF AccountInv, AccountTypes
  <1>5. \/ /\ connects' = [connects EXCEPT ![c] = @ + Cost]
           /\ paid' = [paid EXCEPT ![c] = @ - Cost] /\ torn' = torn
        \/ torn' = TRUE /\ UNCHANGED <<connects, paid>>
    BY DEF RefundLoser
  <1>6. AccountTypes'
    BY <1>1, <1>4, <1>5 DEF AccountInv, AccountTypes
  <1>7. ASSUME NEW d \in Creators
        PROVE  Change(k, l, d) = IF d = c THEN -1 ELSE 0
    <2>1. /\ HoldsFor(k, call[k], d) <=> d = c
          /\ ~HoldsFor(k, l, d) /\ ~OwesFor(k, l, d) /\ ~OwesFor(k, call[k], d)
      BY <1>1, <1>3 DEF HoldsFor, OwesFor
    <2>2. assigned'[d] = assigned[d] /\ assigned[d] \in Int
      BY <1>1 DEF AccountInv, AccountTypes
    <2> QED
      BY <2>1, <2>2 DEF Change, One
  <1> HIDE DEF l
  <1>8. ASSUME ~torn'
        PROVE  ~torn /\ \A d \in Creators : paid'[d] = IF d = c THEN paid[d] - Cost ELSE paid[d]
    BY <1>5, <1>8 DEF AccountInv, AccountTypes
  <1>9. PaysChange(k, l)
    BY <1>7, <1>8 DEF PaysChange
  <1> QED
    BY <1>3, <1>6, <1>9, ChangeKeepsAccounts

LEMMA TakeKeepsAccounts ==
    ASSUME WindowInv, AccountInv, NEW k \in Calls, Take(k)
    PROVE  AccountInv'
  <1> DEFINE c == Job[k].creator
  <1>1. /\ Job[k].op = "accept" /\ call[k].pc = "loaded" /\ UNCHANGED <<connects, paid, torn>>
        /\ c \in Creators /\ call[k] \in Locals
    BY SearchCallsAssumption DEF Take, At, balances, history, WindowInv, WindowTypes
  <1>2. CASE status # "PUBLISHED"
    <2> DEFINE l == [Start EXCEPT !.pc = "done"]
    <2>1. Moves(k, l) /\ l.pc = "done" /\ UNCHANGED assigned
      BY <1>2 DEF Take, Finish, Moves, Start, Locals, Places
    <2>2. Uninvolved(k)
      BY <1>1, <2>1 DEF Uninvolved, Involved, AccountInv, AccountTypes
    <2> QED
      BY <2>2, UninvolvedKeepsAccounts
  <1>3. CASE status = "PUBLISHED"
    <2> DEFINE l == [call[k] EXCEPT !.pc = "taken"]
    <2>1. call' = [call EXCEPT ![k] = l] /\ assigned' = [assigned EXCEPT ![c] = @ + 1]
      BY <1>3 DEF Take, To
    <2>2. l \in Locals /\ l.pc = "taken"
      BY <1>1 DEF Locals, Places
    <2>3. /\ assigned' \in [Creators -> Int]
          /\ \A d \in Creators : /\ assigned[d] \in Int
                                 /\ assigned'[d] = IF d = c THEN assigned[d] + 1 ELSE assigned[d]
      BY <1>1, <2>1 DEF AccountInv, AccountTypes
    <2>4. AccountTypes' /\ Moves(k, l)
      BY <1>1, <2>1, <2>2, <2>3 DEF AccountInv, AccountTypes, Moves
    <2>5. ASSUME NEW d \in Creators
          PROVE  Change(k, l, d) = 0
      <3>1. /\ OwesFor(k, l, d) <=> d = c
            /\ ~OwesFor(k, call[k], d) /\ ~HoldsFor(k, l, d) /\ ~HoldsFor(k, call[k], d)
        BY <1>1, <2>2 DEF HoldsFor, OwesFor
      <3> QED
        BY <2>3, <3>1 DEF Change, One
    <2> HIDE DEF l
    <2>6. PaysChange(k, l)
      BY <1>1, <2>5 DEF PaysChange
    <2> QED
      BY <2>4, <2>6, ChangeKeepsAccounts
  <1> QED
    BY <1>2, <1>3

LEMMA PayKeepsAccounts ==
    ASSUME WindowInv, AccountInv, NEW k \in Calls, Pay(k)
    PROVE  AccountInv'
  <1>0. PICK pays \in BOOLEAN :
            IF pays THEN CanPay(Job[k].creator) /\ Debit(Job[k].creator) /\ To(k, "paid")
            ELSE DebitFails(Job[k].creator) /\ To(k, "refused")
    BY DEF Pay
  <1> DEFINE c == Job[k].creator
             l == [call[k] EXCEPT !.pc = IF pays THEN "paid" ELSE "refused"]
  <1>1. /\ Job[k].op = "accept" /\ call[k].pc = "taken" /\ UNCHANGED <<assigned, torn>>
        /\ c \in Creators /\ call[k] \in Locals
    BY SearchCallsAssumption DEF Pay, At, history, WindowInv, WindowTypes
  <1>2. call' = [call EXCEPT ![k] = l]
    BY <1>0 DEF To
  <1>3. l \in Locals /\ l.pc = IF pays THEN "paid" ELSE "refused"
    BY <1>1 DEF Locals, Places
  <1>4. /\ paid' \in [Creators -> Int] /\ connects' \in [Creators -> Nat]
        /\ \A d \in Creators : paid'[d] = IF pays /\ d = c THEN paid[d] + Cost ELSE paid[d]
    <2>1. CASE pays
      BY <1>0, <1>1, <2>1, DebitEffect DEF AccountInv
    <2>2. CASE ~pays
      BY <1>0, <1>1, <2>2, DebitFailsEffect DEF AccountInv, AccountTypes
    <2> QED
      BY <2>1, <2>2
  <1>5. AccountTypes' /\ Moves(k, l)
    BY <1>1, <1>2, <1>3, <1>4 DEF AccountInv, AccountTypes, Moves
  <1>6. ASSUME NEW d \in Creators
        PROVE  Change(k, l, d) = IF pays /\ d = c THEN 1 ELSE 0
    <2>1. /\ OwesFor(k, l, d) <=> (~pays /\ d = c)
          /\ OwesFor(k, call[k], d) <=> d = c
          /\ ~HoldsFor(k, l, d) /\ ~HoldsFor(k, call[k], d)
      BY <1>1, <1>3 DEF HoldsFor, OwesFor
    <2>2. assigned'[d] = assigned[d] /\ assigned[d] \in Int
      BY <1>1 DEF AccountInv, AccountTypes
    <2> QED
      BY <2>1, <2>2 DEF Change, One
  <1> HIDE DEF l
  <1>7. PaysChange(k, l)
    BY <1>1, <1>4, <1>6 DEF PaysChange
  <1> QED
    BY <1>5, <1>7, ChangeKeepsAccounts

\* The call that was refused its Connect no longer owes it: the assignment is
\* its own and is taken back, or the balance is torn.
LEMMA RollbackKeepsAccounts ==
    ASSUME WindowInv, AccountInv, NEW k \in Calls, Rollback(k)
    PROVE  AccountInv'
  <1> DEFINE c == Job[k].creator  l == [Start EXCEPT !.pc = "done"]
             own == status = "CREATOR_ASSIGNED" /\ creator = c
  <1>1. /\ Job[k].op = "accept" /\ call[k].pc = "refused" /\ UNCHANGED <<connects, paid>>
        /\ c \in Creators
    BY SearchCallsAssumption DEF Rollback, At, balances
  <1>2. Moves(k, l) /\ l.pc = "done"
    BY DEF Rollback, Finish, Moves, Start, Locals, Places
  <1>3. torn \/ ~own => torn'
    BY Zenon DEF Rollback
  <1>4. CASE ~own
    <2>1. UNCHANGED assigned /\ torn'
      BY <1>3, <1>4 DEF Rollback
    <2>2. Uninvolved(k)
      BY <1>1, <1>2, <2>1 DEF Uninvolved, AccountInv, AccountTypes
    <2> QED
      BY <2>2, UninvolvedKeepsAccounts
  <1>5. CASE own
    <2>1. assigned' = [assigned EXCEPT ![c] = @ - 1]
      BY <1>5 DEF Rollback
    <2>2. /\ assigned' \in [Creators -> Int]
          /\ \A d \in Creators : /\ assigned[d] \in Int
                                 /\ assigned'[d] = IF d = c THEN assigned[d] - 1 ELSE assigned[d]
      BY <1>1, <2>1 DEF AccountInv, AccountTypes
    <2>3. AccountTypes'
      BY <1>1, <2>2 DEF AccountInv, AccountTypes
    <2>4. ASSUME NEW d \in Creators
          PROVE  Change(k, l, d) = 0
      <3>1. /\ OwesFor(k, call[k], d) <=> d = c
            /\ ~OwesFor(k, l, d) /\ ~HoldsFor(k, l, d) /\ ~HoldsFor(k, call[k], d)
        BY <1>1, <1>2 DEF HoldsFor, OwesFor
      <3> QED
        BY <2>2, <3>1 DEF Change, One
    <2> HIDE DEF l
    <2>5. PaysChange(k, l)
      BY <1>1, <1>3, <2>4 DEF PaysChange
    <2> QED
      BY <1>2, <2>3, <2>5, ChangeKeepsAccounts
  <1> QED
    BY <1>4, <1>5

LEMMA FinishUninvolved ==
    ASSUME WindowInv, AccountInv, NEW k \in Calls, Finish(k),
           UNCHANGED <<paid, assigned>>, connects' \in [Creators -> Nat], torn => torn',
           ~torn' => ~Involved(k, call[k])
    PROVE  Uninvolved(k)
  <1> DEFINE l == [Start EXCEPT !.pc = "done"]
  <1>1. Moves(k, l) /\ l.pc = "done"
    BY DEF Finish, Moves, Start, Locals, Places
  <1> QED
    BY <1>1 DEF Uninvolved, Involved

LEMMA ToUninvolved ==
    ASSUME WindowInv, AccountInv, NEW k \in Calls,
           NEW where \in Places \ {"debited", "lost", "taken", "refused"}, To(k, where),
           UNCHANGED <<purse, torn>>, ~Involved(k, call[k])
    PROVE  Uninvolved(k)
  <1> DEFINE l == [call[k] EXCEPT !.pc = where]
  <1>1. call[k] \in Locals
    BY DEF WindowInv, WindowTypes
  <1>2. l \in Locals /\ l.pc = where
    BY <1>1 DEF Locals
  <1>3. Moves(k, l)
    BY <1>2 DEF To, Moves
  <1> QED
    BY <1>2, <1>3 DEF Uninvolved, Involved, purse, balances, AccountInv, AccountTypes

LEMMA CutKeepsAccounts ==
    ASSUME WindowInv, AccountInv, NEW k \in Calls, Cut(k)
    PROVE  Uninvolved(k)
  <1>1. Finish(k) /\ UNCHANGED <<paid, assigned, connects>>
    BY DEF Cut, purse, balances
  <1>2. torn => torn'
    BY Zenon DEF Cut
  <1>3. call[k].pc \in {"debited", "lost", "taken", "refused"} => torn'
    BY Zenon DEF Cut
  <1>4. ~torn' => ~Involved(k, call[k])
    BY <1>3 DEF Involved
  <1>5. connects' \in [Creators -> Nat]
    BY <1>1 DEF AccountInv, AccountTypes
  <1> QED
    BY <1>1, <1>2, <1>4, <1>5, FinishUninvolved

LEMMA SpendUninvolved ==
    ASSUME WindowInv, AccountInv, NEW k \in Calls, SpendElsewhere(k)
    PROVE  Uninvolved(k)
  <1> DEFINE c == Job[k].creator
  <1>1. /\ c \in Creators /\ CanPay(c) /\ Finish(k) /\ UNCHANGED <<paid, assigned, torn>>
        /\ connects' = [connects EXCEPT ![c] = @ - Cost] /\ call[k].pc = "idle"
    BY SearchCallsAssumption DEF SpendElsewhere, MayStart, history
  <1>2. connects' \in [Creators -> Nat]
    <2>1. connects[c] - Cost \in Nat
      BY <1>1, SearchAssumption DEF CanPay, AccountInv, AccountTypes
    <2> QED
      BY <1>1, <2>1 DEF AccountInv, AccountTypes
  <1>3. ~Involved(k, call[k])
    BY <1>1 DEF Involved
  <1> QED
    BY <1>1, <1>2, <1>3, FinishUninvolved

LEMMA LoadsUninvolved ==
    ASSUME WindowInv, AccountInv, NEW k \in Calls,
           \/ LoadRespond(k) \/ FindDue(k) \/ LoadWindow(k) \/ LoadAccept(k) \/ LoadCancel(k)
           \/ LoadOpenRequest(k) \/ LoadThread(k)
    PROVE  Uninvolved(k)
  <1>1. UNCHANGED <<purse, torn>>
    BY DEF LoadRespond, FindDue, LoadWindow, LoadAccept, LoadCancel, LoadOpenRequest, LoadThread,
           history
  <1>2. \E where \in {"loaded", "due", "done"} : To(k, where)
    BY DEF LoadRespond, FindDue, LoadWindow, LoadAccept, LoadCancel, LoadOpenRequest, LoadThread
  <1>3. ~Involved(k, call[k])
    BY DEF LoadRespond, FindDue, LoadWindow, LoadAccept, LoadCancel, LoadOpenRequest, LoadThread,
           MayStart, At, Involved
  <1>4. {"loaded", "due", "done"} \subseteq Places \ {"debited", "lost", "taken", "refused"}
    BY DEF Places
  <1> QED
    BY <1>1, <1>2, <1>3, <1>4, ToUninvolved

LEMMA ReadUninvolved ==
    ASSUME WindowInv, AccountInv, NEW k \in Calls, ReadResponses(k) \/ FindExpired(k)
    PROVE  Uninvolved(k)
  <1>1. /\ UNCHANGED <<paid, assigned, torn>> /\ connects' \in [Creators -> Nat]
        /\ call[k].pc \in {"loaded", "idle"} /\ creator \in Creators \cup {Nobody}
    BY DEF ReadResponses, FindExpired, At, MayStart, purse, balances, history, WindowInv, WindowTypes,
           AccountInv, AccountTypes
  <1>2. call[k] \in Locals /\ Responded \subseteq Creators /\ ~Involved(k, call[k])
    BY <1>1, RespondedOrder DEF WindowInv, WindowTypes, Involved
  <1>3. CASE ReadResponses(k)
    <2> DEFINE l == [call[k] EXCEPT !.pc = "ranked", !.read = Responded, !.todo = Responded]
    <2>1. call' = [call EXCEPT ![k] = l]
      BY <1>3 DEF ReadResponses, Responded, WindowInv, WindowTypes
    <2>2. l \in Locals /\ l.pc = "ranked"
      BY <1>2 DEF Locals, Places
    <2> QED
      BY <1>1, <1>2, <2>1, <2>2 DEF Uninvolved, Moves, Involved
  <1>4. CASE FindExpired(k)
    <2> DEFINE l == [call[k] EXCEPT !.pc = "loaded", !.saw = creator]
    <2>1. call' = [call EXCEPT ![k] = l]
      BY <1>4 DEF FindExpired, WindowInv, WindowTypes
    <2>2. l \in Locals /\ l.pc = "loaded"
      BY <1>1, <1>2 DEF Locals, Places
    <2> QED
      BY <1>1, <1>2, <2>1, <2>2 DEF Uninvolved, Moves, Involved
  <1> QED
    BY <1>3, <1>4

\* The steps that move the request, the rows or the threads, and no Connect.
LEMMA OthersUninvolved ==
    ASSUME WindowInv, AccountInv, NEW k \in Calls,
           \/ Respond(k) \/ MarkSpent(k) \/ ReleaseOthers(k) \/ FallbackToFirstAccepted(k)
           \/ CloseThreads(k) \/ Cancel(k)
           \/ Republish(k) \/ RecordAbandonment(k) \/ BarAbandoner(k)
           \/ FindOrCreateThread(k) \/ AddMessage(k) \/ FlagForReview(k)
           \/ IncrementExchangeCount(k) \/ Decline(k)
    PROVE  Uninvolved(k)
  <1>1. UNCHANGED <<purse, torn>>
    BY DEF Respond, MarkSpent, ReleaseOthers, FallbackToFirstAccepted, CloseThreads, Cancel,
           Republish, RecordAbandonment, BarAbandoner, FindOrCreateThread, AddMessage,
           FlagForReview, IncrementExchangeCount, Decline, history
  <1>2. ~Involved(k, call[k])
    BY DEF Respond, MarkSpent, ReleaseOthers, FallbackToFirstAccepted, CloseThreads, Cancel,
           Republish, RecordAbandonment, BarAbandoner, FindOrCreateThread, AddMessage,
           FlagForReview, IncrementExchangeCount, Decline, At, Involved
  <1>3. Finish(k) \/ \E where \in {"spent", "won", "recorded", "open", "done", "asked", "blocked"} :
                         To(k, where)
    BY DEF Respond, MarkSpent, ReleaseOthers, FallbackToFirstAccepted, CloseThreads, Cancel,
           Republish, RecordAbandonment, BarAbandoner, FindOrCreateThread, AddMessage,
           FlagForReview, IncrementExchangeCount, Decline
  <1>4. {"spent", "won", "recorded", "open", "done", "asked", "blocked"}
            \subseteq Places \ {"debited", "lost", "taken", "refused"}
    BY DEF Places
  <1>5. UNCHANGED <<paid, assigned>> /\ connects' \in [Creators -> Nat] /\ (torn => torn')
    BY <1>1 DEF purse, balances, AccountInv, AccountTypes
  <1> QED
    BY <1>1, <1>2, <1>3, <1>4, <1>5, ToUninvolved, FinishUninvolved

LEMMA AccountStep == WindowInv /\ AccountInv /\ [Next]_vars => AccountInv'
  <1> SUFFICES ASSUME WindowInv, AccountInv, [Next]_vars
               PROVE  AccountInv'
    OBVIOUS
  <1>1. CASE Lapse \/ UNCHANGED vars
    <2>1. UNCHANGED <<connects, paid, assigned, torn, call>>
      BY <1>1 DEF Lapse, vars, purse, balances, history
    <2>2. \A c \in Creators : DueFrom(c)' = DueFrom(c)
      BY <2>1 DEF DueFrom, Holding, Owing, HoldsFor, OwesFor
    <2> QED
      BY <2>1, <2>2 DEF AccountInv, AccountTypes, PaidIsDue
  <1>2. ASSUME NEW k \in Calls, Step(k)
        PROVE  AccountInv'
    <2>1. CASE \/ DebitBest(k) \/ Assign(k) \/ RefundLoser(k)
               \/ Take(k) \/ Pay(k) \/ Rollback(k)
      BY <2>1, DebitKeepsAccounts, AssignKeepsAccounts, RefundKeepsAccounts, TakeKeepsAccounts,
         PayKeepsAccounts, RollbackKeepsAccounts
    <2>2. CASE ~ \/ DebitBest(k) \/ Assign(k) \/ RefundLoser(k)
                 \/ Take(k) \/ Pay(k) \/ Rollback(k)
      <3>1. Uninvolved(k)
        BY <1>2, <2>2, LoadsUninvolved, ReadUninvolved, OthersUninvolved, SpendUninvolved,
           CutKeepsAccounts DEF Step
      <3> QED
        BY <3>1, UninvolvedKeepsAccounts
    <2> QED
      BY <2>1, <2>2
  <1> QED
    BY <1>1, <1>2 DEF Next

LEMMA AccountInit == Init => AccountInv
  <1> SUFFICES ASSUME Init, NEW c \in Creators
               PROVE  paid[c] = Cost * DueFrom(c) /\ AccountTypes
    BY SearchAssumption DEF Init, AccountInv, AccountTypes, PaidIsDue
  <1>1. AccountTypes /\ paid[c] = 0 /\ assigned[c] = 0
    BY SearchAssumption DEF Init, AccountTypes
  <1>2. \A k \in Calls : call[k].pc = "idle"
    BY DEF Init, Start
  <1>3. Holding(c) = {} /\ Owing(c) = {}
    BY <1>2 DEF Holding, Owing, HoldsFor, OwesFor
  <1>4. DueFrom(c) = 0
    BY <1>1, <1>3, FS_EmptySet DEF DueFrom
  <1> QED
    BY <1>1, <1>4, SearchAssumption

\* Every Connect is accounted for: it is still there, charged for this request,
\* spent on another, or was taken by a debit that then threw.
Gone(c) == paid[c] + mislaid[c] + elsewhere[c]

Conserved ==
    /\ mislaid \in [Creators -> Int] /\ elsewhere \in [Creators -> Int]
    /\ \A c \in Creators : connects[c] + Gone(c) = Opening[c]

\* A creator's Connects go from one of these places to another.
Shifts(c, n) ==
    /\ connects' = [connects EXCEPT ![c] = @ - n]
    /\ \/ paid' = [paid EXCEPT ![c] = @ + n] /\ UNCHANGED <<mislaid, elsewhere>>
       \/ mislaid' = [mislaid EXCEPT ![c] = @ + n] /\ UNCHANGED <<paid, elsewhere>>
       \/ elsewhere' = [elsewhere EXCEPT ![c] = @ + n] /\ UNCHANGED <<paid, mislaid>>

LEMMA ShiftConserves ==
    ASSUME AccountTypes, Conserved, NEW c \in Creators, NEW n \in Int, Shifts(c, n)
    PROVE  Conserved'
  <1>1. connects \in [Creators -> Int] /\ paid \in [Creators -> Int] /\ Opening \in [Creators -> Int]
    BY SearchAssumption DEF AccountTypes
  <1>2. ASSUME NEW d \in Creators
        PROVE  connects'[d] + Gone(d)' = Opening[d]
    <2>1. connects[d] + Gone(d) = Opening[d]
      BY DEF Conserved
    <2>2. CASE d = c
      BY <1>1, <2>1, <2>2 DEF Shifts, Gone, Conserved
    <2>3. CASE d # c
      BY <1>1, <2>1, <2>3 DEF Shifts, Gone, Conserved
    <2> QED
      BY <2>2, <2>3
  <1> QED
    BY <1>1, <1>2 DEF Shifts, Conserved

LEMMA ConservedStep == WindowInv /\ AccountInv /\ Conserved /\ [Next]_vars => Conserved'
  <1> SUFFICES ASSUME WindowInv, AccountInv, Conserved, [Next]_vars
               PROVE  Conserved'
    OBVIOUS
  <1>1. ASSUME UNCHANGED balances
        PROVE  Conserved'
    BY <1>1 DEF balances, Conserved, Gone
  <1>2. CASE Lapse \/ UNCHANGED vars
    BY <1>1, <1>2 DEF Lapse, vars, purse, balances
  <1>3. ASSUME NEW k \in Calls, Step(k)
        PROVE  Conserved'
    <2>1. ASSUME NEW c \in Creators, Debit(c) \/ DebitFails(c)
          PROVE  Conserved'
      <3>1. UNCHANGED balances \/ Shifts(c, Cost)
        BY <2>1 DEF Debit, DebitFails, Shifts, balances
      <3> QED
        BY <1>1, <3>1, ShiftConserves, SearchAssumption DEF AccountInv
    <2>2. CASE DebitBest(k)
      <3>1. call[k].todo \subseteq Responded /\ call[k].todo # {} /\ Responded \subseteq Creators
        BY <2>2, RespondedOrder DEF WindowInv, TodoResponded, DebitBest
      <3>2. Ranked(call[k].todo) \in Creators
        BY <3>1, RankedIsFirst DEF WindowInv, First
      <3> QED
        BY <2>1, <2>2, <3>2 DEF DebitBest
    <2>3. CASE Pay(k)
      BY <2>1, <2>3, SearchCallsAssumption DEF Pay
    <2>4. CASE RefundLoser(k)
      <3> DEFINE c == call[k].saw
      <3>1. c \in Creators
        BY <2>4, PickedResponded DEF RefundLoser, At, Picked
      <3>2. c \in DOMAIN connects /\ connects[c] \in Int /\ paid[c] \in Int /\ Cost \in Int
        BY <3>1, SearchAssumption DEF AccountInv, AccountTypes
      <3>3. connects[c] + Cost = connects[c] - (-Cost) /\ paid[c] - Cost = paid[c] + (-Cost)
        BY <3>2
      <3>4. UNCHANGED balances \/ Shifts(c, -Cost)
        BY <2>4, <3>3 DEF RefundLoser, Shifts, balances
      <3> QED
        BY <1>1, <3>1, <3>2, <3>4, ShiftConserves DEF AccountInv
    <2>5. CASE SpendElsewhere(k)
      <3>1. Shifts(Job[k].creator, Cost) /\ Job[k].creator \in Creators /\ Cost \in Int
        BY <2>5, SearchAssumption, SearchCallsAssumption DEF SpendElsewhere, Shifts
      <3> QED
        BY <3>1, ShiftConserves DEF AccountInv
    <2>6. CASE ~(DebitBest(k) \/ Pay(k) \/ RefundLoser(k) \/ SpendElsewhere(k))
      BY <1>1, <1>3, <2>6
      DEF Step, LoadRespond, Respond, FindDue, LoadWindow, ReadResponses, Assign, MarkSpent,
          ReleaseOthers, FallbackToFirstAccepted, LoadAccept, Take, Rollback, CloseThreads,
          LoadCancel, Cancel, FindExpired, Republish, RecordAbandonment, BarAbandoner,
          LoadOpenRequest, FindOrCreateThread, AddMessage, FlagForReview, IncrementExchangeCount,
          LoadThread, Decline, Cut, purse
    <2> QED
      BY <2>2, <2>3, <2>4, <2>5, <2>6
  <1> QED
    BY <1>2, <1>3 DEF Next

LEMMA ConservedInit == Init => Conserved
  BY SearchAssumption DEF Init, Conserved, Gone

\* The Connects of every creator, step by step: what it paid for the request is
\* what its assignments cost, with the debits of sweeps that have yet to assign
\* or refund and without what an accept has taken and not yet paid
\* (closeWindow's debit, assign and refund; accept's take, debit and rollback);
\* and every Connect that is gone is charged, spent elsewhere or was taken by a
\* debit that threw.
THEOREM AccountInvariance == Spec => [](WindowInv /\ AccountInv /\ Conserved)
  <1>1. Spec => []AccountInv
    BY WindowInvariance, AccountInit, AccountStep, PTL DEF Spec
  <1>2. Spec => []Conserved
    BY <1>1, WindowInvariance, ConservedInit, ConservedStep, PTL DEF Spec
  <1> QED
    BY <1>1, <1>2, WindowInvariance, PTL

\* When no call is under way and none was cut, every creator is charged one
\* Connect for each assignment it kept, its balance is short of that, of what
\* it spent elsewhere and of what a debit took before it threw alone, the response marked SPENT is the window
\* winner's alone, and no balance is negative, for any number of overlapping
\* sweeps and accepts (matchingWindowService.closeWindow, requestService.accept).
THEOREM WinnerPaysForEach == Spec => []WinnerPaysOnce
  <1>1. WindowInv /\ AccountInv /\ Conserved => WinnerPaysOnce
    <2> SUFFICES ASSUME WindowInv, AccountInv, Conserved, Quiet, ~torn, NEW c \in Creators
                 PROVE  /\ paid[c] = Cost * assigned[c]
                        /\ connects[c] = Opening[c] - Cost * assigned[c] - elsewhere[c] - mislaid[c]
                        /\ reservation[c] = "SPENT" <=> chosen.winner = c
                        /\ connects[c] >= 0
      BY DEF WinnerPaysOnce
    <2>1. \A k \in Calls : call[k].pc \in {"idle", "done"}
      BY DEF Quiet, Running
    <2>2. Holding(c) = {} /\ Owing(c) = {}
      BY <2>1 DEF Holding, Owing, HoldsFor, OwesFor
    <2>3. assigned[c] \in Int /\ connects[c] \in Nat
      BY DEF AccountInv, AccountTypes
    <2>4. DueFrom(c) = assigned[c]
      BY <2>2, <2>3, FS_EmptySet DEF DueFrom
    <2>5. paid[c] = Cost * assigned[c]
      BY <2>4 DEF AccountInv, PaidIsDue
    <2>6. reservation[c] = "SPENT" => chosen.winner = c
      BY DEF WindowInv, SpentIsWinners
    <2>7. chosen.winner = c => reservation[c] = "SPENT"
      BY <2>1 DEF WindowInv, WinnerGetsMarked
    <2>8. connects[c] = Opening[c] - paid[c] - elsewhere[c] - mislaid[c]
      <3>1. connects[c] + (paid[c] + mislaid[c] + elsewhere[c]) = Opening[c]
        BY DEF Conserved, Gone
      <3>2. /\ connects[c] \in Int /\ paid[c] \in Int /\ mislaid[c] \in Int /\ elsewhere[c] \in Int
            /\ Opening[c] \in Int
        BY SearchAssumption DEF Conserved, AccountInv, AccountTypes
      <3> QED
        BY <3>1, <3>2
    <2> QED
      BY <2>3, <2>5, <2>6, <2>7, <2>8
  <1> QED
    BY <1>1, AccountInvariance, PTL

-----------------------------------------------------------------------------
(* The question threads: an open one means the search goes on, or an       *)
(* accept is on its way to close it.                                       *)

ClosesThreads(k) == Job[k].op = "accept" /\ call[k].pc \in {"taken", "refused", "paid"}
SomeOpen == \E c \in Creators : thread[c] = "OPEN"

OpenWhileSearching ==
    SomeOpen /\ ~late /\ ~torn =>
        /\ status # "MATCHING_WINDOW"
        /\ status = "CREATOR_ASSIGNED" => \E k \in Calls : ClosesThreads(k)

ThreadTypes ==
    thread \in [Creators -> {"none", "OPEN", "CLOSED_ACCEPTED", "CLOSED_DECLINED"}]

ThreadInv == ThreadTypes /\ OpenWhileSearching

\* A step that opens no thread and ends neither the search nor a call that is
\* to close them.
LeavesOpen(k) ==
    /\ ThreadTypes' /\ (SomeOpen' => SomeOpen)
    /\ (late => late') /\ (torn => torn')
    /\ status' = "MATCHING_WINDOW" => status = "MATCHING_WINDOW"
    /\ status' = "CREATOR_ASSIGNED" => status = "CREATOR_ASSIGNED"
    /\ \A j \in Calls \ {k} : call'[j] = call[j]
    /\ ~torn' => ~ClosesThreads(k)

LEMMA LeavesOpenKeepsThreads ==
    ASSUME ThreadInv, NEW k \in Calls, LeavesOpen(k)
    PROVE  ThreadInv'
  <1> SUFFICES ASSUME SomeOpen', ~late', ~torn'
               PROVE  /\ status' # "MATCHING_WINDOW"
                      /\ status' = "CREATOR_ASSIGNED" => \E j \in Calls : ClosesThreads(j)'
    BY DEF ThreadInv, OpenWhileSearching, LeavesOpen
  <1>1. SomeOpen /\ ~late /\ ~torn
    BY DEF LeavesOpen
  <1>2. status' # "MATCHING_WINDOW"
    BY <1>1 DEF ThreadInv, OpenWhileSearching, LeavesOpen
  <1>3. ASSUME status' = "CREATOR_ASSIGNED"
        PROVE  \E j \in Calls : ClosesThreads(j)'
    <2>1. PICK j \in Calls : ClosesThreads(j)
      BY <1>1, <1>3 DEF ThreadInv, OpenWhileSearching, LeavesOpen
    <2>2. j # k /\ call'[j] = call[j]
      BY <2>1 DEF LeavesOpen
    <2> QED
      BY <2>1, <2>2 DEF ClosesThreads
  <1> QED
    BY <1>2, <1>3

LEMMA MovesAlone ==
    ASSUME WindowInv, NEW k \in Calls, Step(k)
    PROVE  \A j \in Calls \ {k} : call'[j] = call[j]
  <1>1. call \in [Calls -> Locals]
    BY DEF WindowInv, WindowTypes
  <1>2. (\E l : call' = [call EXCEPT ![k] = l])
    BY DEF Step, LoadRespond, Respond, FindDue, LoadWindow, ReadResponses, DebitBest, Assign,
           RefundLoser, MarkSpent, ReleaseOthers, FallbackToFirstAccepted, LoadAccept, Take, Pay,
           Rollback, CloseThreads, SpendElsewhere, LoadCancel, Cancel, FindExpired, Republish,
           RecordAbandonment, BarAbandoner, LoadOpenRequest, FindOrCreateThread, AddMessage,
           FlagForReview, IncrementExchangeCount, LoadThread, Decline, Cut, To, Finish
  <1> QED
    BY <1>1, <1>2

\* The sweeps, the timer and the calls that end: none of them opens a thread,
\* and an accept that is cut tears.
LEMMA SearchLeavesOpen ==
    ASSUME WindowInv, ThreadInv, NEW k \in Calls, Step(k),
           \/ LoadRespond(k) \/ Respond(k) \/ FindDue(k) \/ LoadWindow(k) \/ ReadResponses(k)
           \/ DebitBest(k) \/ RefundLoser(k) \/ MarkSpent(k) \/ ReleaseOthers(k)
           \/ FallbackToFirstAccepted(k) \/ LoadAccept(k) \/ SpendElsewhere(k) \/ LoadCancel(k)
           \/ Cancel(k) \/ FindExpired(k) \/ Republish(k) \/ RecordAbandonment(k) \/ BarAbandoner(k)
           \/ LoadOpenRequest(k) \/ AddMessage(k) \/ FlagForReview(k)
           \/ IncrementExchangeCount(k) \/ LoadThread(k) \/ Cut(k)
    PROVE  LeavesOpen(k)
  <1>1. UNCHANGED <<thread, late>>
    BY DEF LoadRespond, Respond, FindDue, LoadWindow, ReadResponses, DebitBest, RefundLoser,
           MarkSpent, ReleaseOthers, FallbackToFirstAccepted, LoadAccept, SpendElsewhere, LoadCancel,
           Cancel, FindExpired, Republish, RecordAbandonment, BarAbandoner, LoadOpenRequest,
           AddMessage, FlagForReview, IncrementExchangeCount, LoadThread, Cut, threads, history
  <1>2. /\ status' = "MATCHING_WINDOW" => status = "MATCHING_WINDOW"
        /\ status' = "CREATOR_ASSIGNED" => status = "CREATOR_ASSIGNED"
    BY DEF LoadRespond, Respond, FindDue, LoadWindow, ReadResponses, DebitBest, RefundLoser,
           MarkSpent, ReleaseOthers, FallbackToFirstAccepted, LoadAccept, SpendElsewhere, LoadCancel,
           Cancel, FindExpired, Republish, RecordAbandonment, BarAbandoner, LoadOpenRequest,
           AddMessage, FlagForReview, IncrementExchangeCount, LoadThread, Cut, request
  <1>3. torn => torn'
    BY Zenon
       DEF LoadRespond, Respond, FindDue, LoadWindow, ReadResponses, DebitBest, RefundLoser,
           MarkSpent, ReleaseOthers, FallbackToFirstAccepted, LoadAccept, SpendElsewhere, LoadCancel,
           Cancel, FindExpired, Republish, RecordAbandonment, BarAbandoner, LoadOpenRequest,
           AddMessage, FlagForReview, IncrementExchangeCount, LoadThread, Cut, history
  <1>4. ~torn' => ~ClosesThreads(k)
    <2>1. CASE Cut(k)
      <3>1. call[k].pc \in {"taken", "refused", "paid"} => torn'
        BY Zenon, <2>1 DEF Cut
      <3> QED
        BY <3>1 DEF ClosesThreads
    <2>2. CASE ~Cut(k)
      BY <2>2 DEF LoadRespond, Respond, FindDue, LoadWindow, ReadResponses, DebitBest, RefundLoser,
           MarkSpent, ReleaseOthers, FallbackToFirstAccepted, LoadAccept, SpendElsewhere, LoadCancel,
           Cancel, FindExpired, Republish, RecordAbandonment, BarAbandoner, LoadOpenRequest,
           AddMessage, FlagForReview, IncrementExchangeCount, LoadThread, At, MayStart, ClosesThreads
    <2> QED
      BY <2>1, <2>2
  <1> QED
    BY <1>1, <1>2, <1>3, <1>4, MovesAlone DEF LeavesOpen, ThreadInv, ThreadTypes, SomeOpen

\* A decline closes its thread, and a question opens one only while the request
\* is still published, or is remembered as late.
LEMMA QuestionsKeepThreads ==
    ASSUME WindowInv, ThreadInv, NEW k \in Calls, Step(k), FindOrCreateThread(k) \/ Decline(k)
    PROVE  ThreadInv'
  <1> DEFINE c == Job[k].creator
  <1>1. c \in Creators /\ UNCHANGED <<status, torn>> /\ ~ClosesThreads(k)
    BY SearchCallsAssumption DEF FindOrCreateThread, Decline, request, history, At, ClosesThreads
  <1>2. late => late'
    BY Zenon DEF FindOrCreateThread, Decline, history
  <1>3. ThreadTypes'
    BY <1>1 DEF FindOrCreateThread, Decline, ThreadInv, ThreadTypes
  <1>4. CASE SomeOpen' => SomeOpen
    <2>1. LeavesOpen(k)
      BY <1>1, <1>2, <1>3, <1>4, MovesAlone DEF LeavesOpen
    <2> QED
      BY <2>1, LeavesOpenKeepsThreads
  <1>5. CASE SomeOpen' /\ ~SomeOpen
    <2>1. FindOrCreateThread(k) /\ thread[c] = "none"
      <3>1. PICK d \in Creators : thread'[d] = "OPEN" /\ thread[d] # "OPEN"
        BY <1>5 DEF SomeOpen
      <3> QED
        BY <1>1, <3>1 DEF FindOrCreateThread, Decline, ThreadInv, ThreadTypes
    <2>2. status # "PUBLISHED" => late'
      BY Zenon, <2>1 DEF FindOrCreateThread
    <2> QED
      BY <1>1, <1>3, <2>2 DEF ThreadInv, OpenWhileSearching
  <1> QED
    BY <1>4, <1>5

\* A window assigns from MATCHING_WINDOW, when nobody may ask; an accept that
\* takes the request goes on to close the threads, or puts it back.
LEMMA AcceptKeepsThreads ==
    ASSUME WindowInv, ThreadInv, NEW k \in Calls, Step(k),
           Assign(k) \/ Take(k) \/ Pay(k) \/ Rollback(k) \/ CloseThreads(k)
    PROVE  ThreadInv'
  <1>1. late' = late
    BY DEF Assign, Take, Pay, Rollback, CloseThreads, history
  <1>2. torn => torn'
    BY Zenon DEF Assign, Take, Pay, Rollback, CloseThreads, history
  <1>3. ThreadTypes'
    BY DEF Assign, Take, Pay, Rollback, CloseThreads, threads, CloseAll, ThreadInv, ThreadTypes
  <1>4. SomeOpen' => SomeOpen
    BY DEF Assign, Take, Pay, Rollback, CloseThreads, threads, CloseAll, SomeOpen
  <1>5. call[k] \in Locals /\ call \in [Calls -> Locals]
    BY DEF WindowInv, WindowTypes
  <1>6. \A j \in Calls \ {k} : call'[j] = call[j]
    BY MovesAlone
  <1> SUFFICES ASSUME SomeOpen', ~late', ~torn'
               PROVE  /\ status' # "MATCHING_WINDOW"
                      /\ status' = "CREATOR_ASSIGNED" => \E j \in Calls : ClosesThreads(j)'
    BY <1>3 DEF ThreadInv, OpenWhileSearching
  <1>7. /\ status # "MATCHING_WINDOW"
        /\ status = "CREATOR_ASSIGNED" => \E j \in Calls : ClosesThreads(j)
    BY <1>1, <1>2, <1>4 DEF ThreadInv, OpenWhileSearching
  <1>8. status' # "MATCHING_WINDOW"
    BY <1>7 DEF Assign, Take, Pay, Rollback, CloseThreads, request
  <1>9. CASE Assign(k)
    <2>1. status' = status /\ ~ClosesThreads(k)
      BY <1>7, <1>9 DEF Assign, TakeRow, request, At, ClosesThreads
    <2> QED
      BY <1>6, <1>7, <1>8, <2>1 DEF ClosesThreads
  <1>10. CASE Take(k)
    <2>1. CASE status = "PUBLISHED"
      <3>1. Job[k].op = "accept" /\ call' = [call EXCEPT ![k].pc = "taken"]
        BY <1>10, <2>1 DEF Take, At, To
      <3>2. call'[k].pc = "taken"
        BY <1>5, <3>1 DEF Locals
      <3> QED
        BY <1>8, <3>1, <3>2 DEF ClosesThreads
    <2>2. CASE status # "PUBLISHED"
      <3>1. status' = status /\ ~ClosesThreads(k)
        BY <1>10, <2>2 DEF Take, At, ClosesThreads
      <3> QED
        BY <1>6, <1>7, <1>8, <3>1 DEF ClosesThreads
    <2> QED
      BY <2>1, <2>2
  <1>11. CASE Pay(k)
    <2>1. Job[k].op = "accept" /\ \E where \in {"paid", "refused"} : call' = [call EXCEPT ![k].pc = where]
      BY <1>11 DEF Pay, At, To
    <2>2. call'[k].pc \in {"paid", "refused"}
      BY <1>5, <2>1 DEF Locals
    <2> QED
      BY <1>8, <2>1, <2>2 DEF ClosesThreads
  <1>12. CASE Rollback(k)
    <2>1. status' # "CREATOR_ASSIGNED"
      BY <1>12 DEF Rollback
    <2> QED
      BY <1>8, <2>1
  <1>13. CASE CloseThreads(k)
    <2>1. ~SomeOpen'
      BY <1>13 DEF CloseThreads, CloseAll, SomeOpen
    <2> QED
      BY <2>1
  <1> QED
    BY <1>9, <1>10, <1>11, <1>12, <1>13

LEMMA ThreadStep == WindowInv /\ ThreadInv /\ [Next]_vars => ThreadInv'
  <1> SUFFICES ASSUME WindowInv, ThreadInv, [Next]_vars
               PROVE  ThreadInv'
    OBVIOUS
  <1>1. CASE Lapse \/ UNCHANGED vars
    <2>1. UNCHANGED <<status, thread, late, torn, call>>
      BY <1>1 DEF Lapse, vars, threads, history
    <2> QED
      BY <2>1 DEF ThreadInv, ThreadTypes, OpenWhileSearching, SomeOpen, ClosesThreads
  <1>2. ASSUME NEW k \in Calls, Step(k)
        PROVE  ThreadInv'
    <2>1. CASE \/ Assign(k) \/ Take(k) \/ Pay(k) \/ Rollback(k) \/ CloseThreads(k)
               \/ FindOrCreateThread(k) \/ Decline(k)
      BY <1>2, <2>1, QuestionsKeepThreads, AcceptKeepsThreads
    <2>2. CASE ~ \/ Assign(k) \/ Take(k) \/ Pay(k) \/ Rollback(k) \/ CloseThreads(k)
                 \/ FindOrCreateThread(k) \/ Decline(k)
      <3>1. LeavesOpen(k)
        BY <1>2, <2>2, SearchLeavesOpen DEF Step
      <3> QED
        BY <3>1, LeavesOpenKeepsThreads
    <2> QED
      BY <2>1, <2>2
  <1> QED
    BY <1>1, <1>2 DEF Next

LEMMA ThreadInit == Init => ThreadInv
  BY DEF Init, ThreadInv, ThreadTypes, OpenWhileSearching, SomeOpen

\* Once a creator is assigned and every call has ended, no question thread is
\* open, unless a question was late or a call was cut
\* (requestService.accept, queryService.closeAllForRequest).
THEOREM AcceptClosesThreads == Spec => []ThreadsCloseOnAccept
  <1>1. Spec => []ThreadInv
    BY WindowInvariance, ThreadInit, ThreadStep, PTL DEF Spec
  <1>2. ThreadInv => ThreadsCloseOnAccept
    <2> SUFFICES ASSUME ThreadInv, Quiet, ~late, ~torn, status = "CREATOR_ASSIGNED", SomeOpen
                 PROVE  FALSE
      BY DEF ThreadsCloseOnAccept, SomeOpen
    <2>1. PICK k \in Calls : ClosesThreads(k)
      BY DEF ThreadInv, OpenWhileSearching
    <2> QED
      BY <2>1 DEF Quiet, Running, ClosesThreads
  <1> QED
    BY <1>1, <1>2, PTL
=============================================================================

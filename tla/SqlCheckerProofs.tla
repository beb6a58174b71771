-------------------------- MODULE SqlCheckerProofs --------------------------
(***************************************************************************)
(* Proofs about SqlChecker: its types, which statements without WHERE do   *)
(* not pass, that the cut at every semicolon never lets half a quotation   *)
(* through, and what the merge of ALTER statements keeps, for texts of any *)
(* length and any rules.                                                   *)
(***************************************************************************)
EXTENDS SqlChecker, FiniteSetTheorems, WellFoundedInduction, TLAPS

-----------------------------------------------------------------------------
(***************************************************************************)
(* Numbers.                                                                *)
(***************************************************************************)

\* A set of numbers has a least one.
LEMMA LeastNumber ==
    ASSUME NEW T \in SUBSET Nat, T # {}
    PROVE  \E n \in T : \A m \in T : ~(m < n)
<1> DEFINE R == {p \in Nat \X Nat : p[1] < p[2]}
<1>1. IsWellFoundedOn(R, Nat)
  <2>1. SUFFICES ASSUME NEW f \in [Nat -> Nat], \A n \in Nat : <<f[n + 1], f[n]>> \in R
                 PROVE  FALSE
    BY DEF IsWellFoundedOn
  <2> QED
    BY <2>1, NatLessThanWellFounded DEF IsWellFoundedOn, OpToRel
<1>2. PICK n \in T : \A m \in T : <<m, n>> \notin R
  <2> HIDE DEF R
  <2> QED
    BY <1>1, WFMin
<1> QED
  BY <1>2

\* Min and Max of a set of numbers that has a bound.
LEMMA MinIsLeast ==
    ASSUME NEW S \in SUBSET Nat, S # {}
    PROVE  Min(S) \in S /\ \A x \in S : Min(S) <= x
<1>1. PICK n \in S : \A m \in S : ~(m < n)
  BY LeastNumber
<1>2. \A m \in S : n <= m
  BY <1>1
<1> QED
  BY <1>2 DEF Min

LEMMA MaxIsGreatest ==
    ASSUME NEW b \in Nat, NEW S \in SUBSET (0 .. b), S # {}
    PROVE  Max(S) \in S /\ \A x \in S : x <= Max(S)
<1> DEFINE T == {b - x : x \in S}
<1>1. T \in SUBSET Nat /\ T # {}
  <2>1. \A x \in S : b - x \in Nat
    OBVIOUS
  <2> QED
    BY <2>1
<1>2. PICK n \in T : \A m \in T : ~(m < n)
  <2> HIDE DEF T
  <2> QED
    BY <1>1, LeastNumber
<1>3. PICK x \in S : n = b - x
  BY <1>2
<1>4. ASSUME NEW y \in S
      PROVE  x >= y
  <2>1. b - y \in T
    OBVIOUS
  <2>2. ~(b - y < n)
    BY <2>1, <1>2
  <2> QED
    BY <2>2, <1>3
<1> QED
  BY <1>4 DEF Max

-----------------------------------------------------------------------------
(***************************************************************************)
(* Places in a text.                                                       *)
(***************************************************************************)

\* Something is at the places of a text and nothing is at any other.
LEMMA AtIs ==
    ASSUME NEW s \in Seq(Tokens), NEW i
    PROVE  /\ At(s, i) = IF i \in 1 .. Len(s) THEN s[i] ELSE ""
           /\ At(s, i) = "" <=> i \notin 1 .. Len(s)
<1>1. DOMAIN s = 1 .. Len(s)
  OBVIOUS
<1>2. At(s, i) = IF i \in 1 .. Len(s) THEN s[i] ELSE ""
  BY <1>1, Zenon DEF At
<1>3. \A t \in Tokens : t # ""
  BY TextAssumption
<1>4. i \in 1 .. Len(s) => s[i] \in Tokens
  OBVIOUS
<1> QED
  BY <1>2, <1>3, <1>4

\* What is after a place is the next thing that is not blank, or the end.
LEMMA AfterIs ==
    ASSUME NEW s \in Seq(Tokens), NEW i \in 0 .. Len(s)
    PROVE  /\ After(s, i) \in i + 1 .. Len(s) + 1
           /\ At(s, After(s, i)) \notin Blanks
           /\ \A k \in i + 1 .. After(s, i) - 1 : s[k] \in Blanks
           /\ \A j \in i + 1 .. Len(s) + 1 :
                 At(s, j) \notin Blanks /\ (\A k \in i + 1 .. j - 1 : s[k] \in Blanks)
                    => After(s, i) = j
<1> DEFINE N       == Len(s)
           Solid(j) == At(s, j) \notin Blanks /\ \A k \in i + 1 .. j - 1 : s[k] \in Blanks
           Places   == {j \in i + 1 .. N + 1 : At(s, j) \notin Blanks}
<1>1. N \in Nat /\ DOMAIN s = 1 .. N
  OBVIOUS
<1>2. Places \in SUBSET Nat /\ N + 1 \in Places
  <2>1. N + 1 \notin 1 .. N /\ "" \notin Blanks
    BY <1>1 DEF Blanks
  <2>2. At(s, N + 1) \notin Blanks
    BY <2>1, AtIs
  <2> QED
    BY <1>1, <2>2
<1>3. PICK n \in Places : \A m \in Places : ~(m < n)
  <2> HIDE DEF Places
  <2> QED
    BY <1>2, LeastNumber
<1>4. \A k \in i + 1 .. n - 1 : s[k] \in Blanks
  <2>1. ASSUME NEW k \in i + 1 .. n - 1
        PROVE  At(s, k) \in Blanks /\ k \in 1 .. N
    BY <1>1, <1>3
  <2> QED
    BY <2>1, AtIs
<1>5. n \in i + 1 .. N + 1 /\ Solid(n)
  BY <1>3, <1>4
<1>6. ASSUME NEW j \in i + 1 .. N + 1, Solid(j)
      PROVE  j = n
  <2>1. ~(j < n)
    BY <1>3, <1>6
  <2>2. ~(n < j)
    <3>1. n < j => n \in 1 .. N /\ s[n] \in Blanks /\ At(s, n) \notin Blanks
      BY <1>1, <1>5, <1>6
    <3> QED
      BY <3>1, AtIs
  <2> QED
    BY <2>1, <2>2, <1>1, <1>5
<1>7. After(s, i) = CHOOSE j \in i + 1 .. N + 1 : Solid(j)
  BY DEF After
<1> HIDE DEF Solid, N
<1>8. After(s, i) = n
  BY <1>5, <1>6, <1>7
<1> QED
  BY <1>5, <1>6, <1>8 DEF Solid, N

\* Blanks are taken off both ends of a text.
LEMMA TrimIs ==
    ASSUME NEW s \in Seq(Tokens)
    PROVE  /\ Trim(s) \in Seq(Tokens)
           /\ IF \A i \in 1 .. Len(s) : s[i] \in Blanks
              THEN Trim(s) = <<>>
              ELSE \E a, b \in 1 .. Len(s) :
                      /\ Trim(s) = SubSeq(s, a, b) /\ a <= b
                      /\ \A i \in 1 .. Len(s) : s[i] \notin Blanks => a <= i /\ i <= b
<1> DEFINE ink == {i \in DOMAIN s : s[i] \notin Blanks}
<1>1. Len(s) \in Nat /\ DOMAIN s = 1 .. Len(s)
  OBVIOUS
<1>2. CASE ink = {}
  <2>1. Trim(s) = <<>>
    BY <1>2 DEF Trim
  <2> QED
    BY <1>1, <1>2, <2>1
<1>3. CASE ink # {}
  <2>1. Trim(s) = SubSeq(s, Min(ink), Max(ink))
    BY <1>3 DEF Trim
  <2>2. ink \in SUBSET Nat /\ ink \in SUBSET (0 .. Len(s)) /\ ink \subseteq 1 .. Len(s)
    BY <1>1
  <2>3. \A i \in 1 .. Len(s) : s[i] \notin Blanks <=> i \in ink
    BY <1>1
  <2> DEFINE a == Min(ink)
             b == Max(ink)
  <2> HIDE DEF ink
  <2>4. a \in ink /\ b \in ink /\ \A i \in ink : a <= i /\ i <= b
    BY <1>1, <1>3, <2>2, MinIsLeast, MaxIsGreatest
  <2>5. Trim(s) = SubSeq(s, a, b)
    BY <2>1
  <2> HIDE DEF a, b
  <2>6. a \in 1 .. Len(s) /\ b \in 1 .. Len(s) /\ a <= b
    BY <2>2, <2>4
  <2>7. SubSeq(s, a, b) \in Seq(Tokens)
    BY <2>6
  <2>8. ~ \A i \in 1 .. Len(s) : s[i] \in Blanks
    BY <1>3, <2>2, <2>3
  <2> QED
    BY <2>3, <2>4, <2>5, <2>6, <2>7, <2>8
<1> QED
  BY <1>2, <1>3

-----------------------------------------------------------------------------
(***************************************************************************)
(* The statements of a text.                                               *)
(***************************************************************************)

\* A piece ends before the next cut, or with the text.
LEMMA PieceIs ==
    ASSUME NEW s \in Seq(Tokens), NEW cuts \in SUBSET (1 .. Len(s)),
           NEW c \in {0} \union cuts
    PROVE  \E e \in cuts \union {Len(s) + 1} :
              /\ c < e /\ \A d \in cuts : c < d => e <= d
              /\ SubSeq(s, c + 1, e - 1) \in Seq(Tokens)
              /\ Piece(s, cuts, c) = Trim(SubSeq(s, c + 1, e - 1))
<1> DEFINE ends == {d \in cuts \union {Len(s) + 1} : d > c}
           e    == Min(ends)
<1>1. Len(s) \in Nat /\ c \in 0 .. Len(s)
  OBVIOUS
<1>2. ends \in SUBSET Nat /\ Len(s) + 1 \in ends
  <2>1. \A d \in cuts : d \in Nat
    OBVIOUS
  <2>2. Len(s) + 1 \in Nat /\ Len(s) + 1 > c
    BY <1>1
  <2> QED
    BY <2>1, <2>2
<1>3. e \in ends /\ \A d \in ends : e <= d
  <2> HIDE DEF ends
  <2> QED
    BY <1>2, MinIsLeast
<1>4. Piece(s, cuts, c) = Trim(SubSeq(s, c + 1, e - 1))
  BY DEF Piece
<1> HIDE DEF e
<1>5. e \in cuts \union {Len(s) + 1} /\ c < e /\ \A d \in cuts : c < d => e <= d
  BY <1>1, <1>3
<1>6. SubSeq(s, c + 1, e - 1) \in Seq(Tokens)
  BY <1>1, <1>5
<1> QED
  BY <1>4, <1>5, <1>6

\* A text with something added at its end.
LEMMA AppendIs ==
    ASSUME NEW s \in Seq(Tokens), NEW t \in Tokens
    PROVE  /\ Append(s, t) \in Seq(Tokens)
           /\ Len(Append(s, t)) = Len(s) + 1
           /\ \A i \in 1 .. Len(s) + 1 : Append(s, t)[i] = IF i <= Len(s) THEN s[i] ELSE t
  OBVIOUS

\* The cuts are places of the text.
LEMMA CutsInside ==
    ASSUME NEW s \in Seq(Tokens), NEW quotes
    PROVE  Cuts(s, quotes) \in SUBSET (1 .. Len(s))
<1>1. \A c \in Cuts(s, quotes) : c \in DOMAIN s
  BY DEF Cuts
<1>2. DOMAIN s = 1 .. Len(s)
  OBVIOUS
<1> QED
  BY <1>1, <1>2

\* A statement is a text, and not an empty one.
LEMMA StatementIsText ==
    ASSUME NEW s \in Seq(Tokens), NEW quotes, NEW c \in DOMAIN Statements(s, quotes)
    PROVE  /\ c \in {0} \union Cuts(s, quotes)
           /\ Statements(s, quotes)[c] = Piece(s, Cuts(s, quotes), c)
           /\ Statements(s, quotes)[c] \in Seq(Tokens) \ {<<>>}
<1> DEFINE cuts == Cuts(s, quotes)
<1>1. /\ c \in {0} \union cuts /\ Piece(s, cuts, c) # <<>>
      /\ Statements(s, quotes)[c] = Piece(s, cuts, c)
  BY DEF Statements
<1>2. Piece(s, cuts, c) \in Seq(Tokens)
  <2>1. PICK e : /\ SubSeq(s, c + 1, e - 1) \in Seq(Tokens)
                 /\ Piece(s, cuts, c) = Trim(SubSeq(s, c + 1, e - 1))
    <3>1. cuts \in SUBSET (1 .. Len(s)) /\ c \in {0} \union cuts
      BY <1>1, CutsInside
    <3> HIDE DEF cuts
    <3>2. \E e \in cuts \union {Len(s) + 1} :
              /\ c < e /\ \A d \in cuts : c < d => e <= d
              /\ SubSeq(s, c + 1, e - 1) \in Seq(Tokens)
              /\ Piece(s, cuts, c) = Trim(SubSeq(s, c + 1, e - 1))
      BY <3>1, PieceIs, Zenon
    <3> QED
      BY <3>2
  <2> QED
    BY <2>1, TrimIs
<1> QED
  BY <1>1, <1>2

\* What the checker is given is such a statement with a semicolon.
LEMMA PassedIs ==
    ASSUME text \in Seq(Tokens), NEW r \in Passed
    PROVE  /\ r.sql \in Seq(Tokens)
           /\ r.errors = {} /\ r.errors = validateSQL(r.sql, CheckDataSourceRule)
<1>1. FetchSQLTest # None /\ r \in ToSet(FetchSQLTest) /\ r.errors = {}
  BY DEF Passed
<1>2. FetchSQLTest = Check(text, CheckDataSourceRule)
  BY <1>1 DEF FetchSQLTest
<1>3. PICK c \in DOMAIN Statements(text, {}) :
         r = [sql    |-> Append(Statements(text, {})[c], ";"),
              errors |-> validateSQL(Append(Statements(text, {})[c], ";"), CheckDataSourceRule)]
  BY <1>1, <1>2 DEF ToSet, Check, splitSQL
<1>4. Append(Statements(text, {})[c], ";") \in Seq(Tokens)
  <2>1. Statements(text, {})[c] \in Seq(Tokens)
    BY StatementIsText
  <2>2. ";" \in Tokens
    BY TextAssumption
  <2> QED
    BY <2>1, <2>2, AppendIs
<1> QED
  BY <1>1, <1>3, <1>4

-----------------------------------------------------------------------------
(***************************************************************************)
(* UPDATE and DELETE without WHERE.                                        *)
(***************************************************************************)

\* The expression for UPDATE finds one that is on one line.
LEMMA RegexFindsUpdate ==
    ASSUME NEW s \in Seq(Tokens), OneLine(s), UpdatesWord(s)
    PROVE  updateRegex(s)
<1> DEFINE N == Len(s)
<1>1. N \in Nat
  OBVIOUS
<1>2. /\ At(s, 1) = "update" /\ At(s, 5) = "set" /\ IsWord(At(s, 3))
      /\ At(s, 2) = " " /\ At(s, 4) = " " /\ At(s, 6) = " "
  BY DEF UpdatesWord
<1>3. At(s, 3) \notin Blanks /\ At(s, 3) # ""
  BY <1>2 DEF IsWord
<1>4. /\ 1 \in 1 .. N /\ 2 \in 1 .. N /\ 3 \in 1 .. N /\ 4 \in 1 .. N /\ 5 \in 1 .. N
      /\ 6 \in 1 .. N
  <2>1. \A i \in {1, 2, 4, 5, 6} : At(s, i) # ""
    BY <1>2
  <2> QED
    BY <1>3, <2>1, AtIs
<1>5. s[1] = "update" /\ s[2] \in Blanks /\ s[4] \in Blanks
  BY <1>2, <1>4, AtIs DEF Blanks
<1>6. At(s, 5) \notin Blanks /\ At(s, 6) \in Blanks
  BY <1>2 DEF Blanks
<1>7. After(s, 1) = 3
  <2>1. 1 \in 0 .. N /\ 3 \in 1 + 1 .. N + 1 /\ \A k \in 1 + 1 .. 3 - 1 : k = 2
    BY <1>1, <1>4
  <2> QED
    BY <2>1, <1>3, <1>5, AfterIs
<1>8. After(s, 3) = 5
  <2>1. 3 \in 0 .. N /\ 5 \in 3 + 1 .. N + 1 /\ \A k \in 3 + 1 .. 5 - 1 : k = 4
    BY <1>1, <1>4
  <2> QED
    BY <2>1, <1>5, <1>6, AfterIs
<1> DEFINE from == After(s, 5)
<1>9. from \in 6 .. N + 1 /\ from # 6
  <2>1. 5 \in 0 .. N /\ 5 + 1 = 6
    BY <1>1, <1>4
  <2>2. from \in 5 + 1 .. N + 1 /\ At(s, from) \notin Blanks
    BY <2>1, AfterIs
  <2> QED
    BY <1>6, <2>1, <2>2
<1>10. At(s, N + 1) = ""
  <2>1. N + 1 \notin 1 .. N
    BY <1>1
  <2> QED
    BY <2>1, AtIs
<1> HIDE DEF from
<1>11. N + 1 \in from .. N + 1 /\ \A k \in from .. (N + 1) - 1 : s[k] # "\n"
  <2>1. \A k \in 1 .. N : s[k] # "\n"
    BY DEF OneLine
  <2> QED
    BY <1>1, <1>9, <2>1
<1>12. 1 \in DOMAIN s /\ from > 5 + 1
  BY <1>1, <1>4, <1>9
<1> HIDE DEF N
<1>13. \E q \in from .. N + 1 : At(s, q) \in {"where", ""} /\ \A k \in from .. q - 1 : s[k] # "\n"
  BY <1>10, <1>11
<1> QED
  BY <1>2, <1>5, <1>7, <1>8, <1>12, <1>13 DEF updateRegex, from, N

\* A statement that starts with UPDATE or DELETE is one for the rule to judge.
LEMMA ChangeIsChecked ==
    ASSUME NEW s \in Seq(Tokens), NEW rule, NEW change \in {"update", "delete"},
           Starts(s, {change}), "DMLWhere" \in rule, ~Has(s, "where")
    PROVE  "where" \in validateSQL(s, rule)
<1>1. At(s, 1) = change /\ At(s, 2) = " " /\ change # ""
  BY DEF Starts
<1>2. s[1] = change /\ s[2] = " "
  <2>1. At(s, 1) # "" /\ At(s, 2) # ""
    BY <1>1
  <2> QED
    BY <1>1, <2>1, AtIs
<1>3. Has(s, change)
  <2> DEFINE w == <<change, " ">>
  <2>1. Len(w) = 2 /\ w[1] = change /\ w[2] = " "
    OBVIOUS
  <2>2. \A k \in DOMAIN w : k = 1 \/ k = 2
    OBVIOUS
  <2> HIDE DEF w
  <2>3. 0 \in 0 .. Len(s) - Len(w)
    <3> DEFINE N == Len(s)
    <3>1. At(s, 2) # ""
      BY <1>1
    <3>2. 2 \in 1 .. N
      BY <3>1, AtIs
    <3>3. N \in Nat
      OBVIOUS
    <3> HIDE DEF N
    <3>4. 0 \in 0 .. N - 2
      BY <3>2, <3>3
    <3> QED
      BY <2>1, <3>4 DEF N
  <2>4. \A k \in DOMAIN w : s[0 + k] = w[k]
    <3>1. 0 + 1 = 1 /\ 0 + 2 = 2
      OBVIOUS
    <3> QED
      BY <1>2, <2>1, <2>2, <3>1
  <2>5. Holds(s, w)
    BY <2>3, <2>4 DEF Holds
  <2> QED
    BY <2>5 DEF Has, w
<1>4. "where" \in checkDML(s, rule)
  BY <1>3 DEF checkDML
<1>5. isDML(s)
  BY <1>1 DEF isDML, Starts
<1> QED
  BY <1>4, <1>5 DEF validateSQL

\* A text that is made of tokens is enough for the statements that pass to name WHERE.
LEMMA WhereIsNamed == text \in Seq(Tokens) => UpdateNamesWhere
<1> SUFFICES ASSUME text \in Seq(Tokens), NEW r \in Passed
             PROVE  /\ "DMLWhere" \in CheckDataSourceRule /\ Starts(r.sql, {"update", "delete"})
                          => Has(r.sql, "where")
                    /\ OneLine(r.sql) /\ UpdatesWord(r.sql) => Has(r.sql, "where")
  BY DEF UpdateNamesWhere
<1> DEFINE s    == r.sql
           rule == CheckDataSourceRule
<1>1. s \in Seq(Tokens) /\ validateSQL(s, rule) = {}
  BY PassedIs
<1> HIDE DEF s, rule
<1>2. OneLine(s) /\ UpdatesWord(s) => Has(s, "where")
  <2>1. SUFFICES ASSUME OneLine(s), UpdatesWord(s), ~Has(s, "where")
                 PROVE  FALSE
    OBVIOUS
  <2>2. updateRegex(s)
    BY <1>1, <2>1, RegexFindsUpdate
  <2>3. "update all" \in checkDangerousOperations(s)
    BY <2>1, <2>2 DEF checkDangerousOperations
  <2> QED
    BY <1>1, <2>3 DEF validateSQL
<1>3. "DMLWhere" \in rule /\ Starts(s, {"update", "delete"}) => Has(s, "where")
  <2>1. SUFFICES ASSUME "DMLWhere" \in rule, Starts(s, {"update", "delete"}), ~Has(s, "where")
                 PROVE  FALSE
    OBVIOUS
  <2>2. PICK change \in {"update", "delete"} : Starts(s, {change})
    BY <2>1 DEF Starts
  <2>3. "where" \in validateSQL(s, rule)
    BY <1>1, <2>1, <2>2, ChangeIsChecked
  <2> QED
    BY <1>1, <2>3
<1> QED
  BY <1>2, <1>3 DEF s, rule

\* A part of a text.
LEMMA PartIs ==
    ASSUME NEW s \in Seq(Tokens), NEW a \in 1 .. Len(s) + 1, NEW b \in 0 .. Len(s), a <= b + 1
    PROVE  /\ SubSeq(s, a, b) \in Seq(Tokens)
           /\ Len(SubSeq(s, a, b)) = (b - a) + 1
           /\ \A i \in 1 .. (b - a) + 1 : SubSeq(s, a, b)[i] = s[(a + i) - 1]
<1>1. Len(s) \in Nat
  OBVIOUS
<1>2. \A i \in a .. b : s[i] \in Tokens
  BY <1>1
<1>3. SubSeq(s, a, b) = [i \in 1 .. (b - a) + 1 |-> s[(a + i) - 1]]
  OBVIOUS
<1>4. (b - a) + 1 \in Nat
  BY <1>1
<1>5. \A i \in 1 .. (b - a) + 1 : (a + i) - 1 \in a .. b
  BY <1>1
<1> DEFINE n == (b - a) + 1
<1> HIDE DEF n
<1>6. n \in Nat /\ \A i \in 1 .. n : s[(a + i) - 1] \in Tokens
  BY <1>2, <1>4, <1>5 DEF n
<1>7. /\ [i \in 1 .. n |-> s[(a + i) - 1]] \in Seq(Tokens)
      /\ Len([i \in 1 .. n |-> s[(a + i) - 1]]) = n
  BY <1>6
<1> QED
  BY <1>3, <1>7 DEF n

\* A piece is the text between two cuts without the blanks at its ends.
IsPart(s, cuts, c, e) ==
    /\ c < e /\ \A d \in cuts : c < d => e <= d
    /\ IF \A i \in c + 1 .. e - 1 : s[i] \in Blanks
       THEN Piece(s, cuts, c) = <<>>
       ELSE \E a, b \in c + 1 .. e - 1 :
               /\ a <= b /\ Piece(s, cuts, c) = SubSeq(s, a, b)
               /\ \A i \in c + 1 .. e - 1 : s[i] \notin Blanks => a <= i /\ i <= b

\* Every cut, and the start of the text, has such a part after it.
LEMMA PieceIsPart ==
    ASSUME NEW s \in Seq(Tokens), NEW cuts \in SUBSET (1 .. Len(s)),
           NEW c \in {0} \union cuts
    PROVE  \E e \in cuts \union {Len(s) + 1} : IsPart(s, cuts, c, e)
<1>1. PICK e \in cuts \union {Len(s) + 1} :
              /\ c < e /\ \A d \in cuts : c < d => e <= d
              /\ SubSeq(s, c + 1, e - 1) \in Seq(Tokens)
              /\ Piece(s, cuts, c) = Trim(SubSeq(s, c + 1, e - 1))
  BY PieceIs
<1> DEFINE p == SubSeq(s, c + 1, e - 1)
           n == (e - 1) - c
<1>2. /\ Len(s) \in Nat /\ c \in 0 .. Len(s) /\ e \in 1 .. Len(s) + 1 /\ c < e
      /\ n \in Nat /\ n = ((e - 1) - (c + 1)) + 1
  BY <1>1
<1>3. p \in Seq(Tokens) /\ Len(p) = n /\ \A i \in 1 .. n : p[i] = s[((c + 1) + i) - 1]
  BY <1>2, PartIs
<1>4. \A i \in 1 .. n : p[i] = s[c + i] /\ c + i \in c + 1 .. e - 1
  BY <1>2, <1>3
<1>5. \A j \in c + 1 .. e - 1 : j - c \in 1 .. n /\ p[j - c] = s[j]
  BY <1>2, <1>4
<1>6. Piece(s, cuts, c) = Trim(p)
  BY <1>1
<1> HIDE DEF p
<1>7. CASE \A i \in c + 1 .. e - 1 : s[i] \in Blanks
  <2>1. \A i \in 1 .. Len(p) : p[i] \in Blanks
    BY <1>3, <1>4, <1>7
  <2> QED
    <3>1. Piece(s, cuts, c) = <<>>
      BY <1>3, <1>6, <2>1, TrimIs
    <3> QED
      BY <1>1, <1>7, <3>1 DEF IsPart
<1>8. CASE ~ \A i \in c + 1 .. e - 1 : s[i] \in Blanks
  <2>1. ~ \A i \in 1 .. Len(p) : p[i] \in Blanks
    BY <1>3, <1>5, <1>8
  <2>2. PICK x, y \in 1 .. Len(p) :
           /\ Trim(p) = SubSeq(p, x, y) /\ x <= y
           /\ \A i \in 1 .. Len(p) : p[i] \notin Blanks => x <= i /\ i <= y
    BY <1>3, <2>1, TrimIs
  <2> DEFINE a == c + x
             b == c + y
  <2>3. /\ x \in 1 .. n /\ y \in 1 .. n /\ x <= y
        /\ x \in 1 .. Len(p) + 1 /\ y \in 0 .. Len(p) /\ x <= y + 1
    BY <1>2, <1>3, <2>2
  <2>4. a \in c + 1 .. e - 1 /\ b \in c + 1 .. e - 1 /\ a <= b
    BY <1>2, <2>3
  <2>5. \A i \in c + 1 .. e - 1 : s[i] \notin Blanks => a <= i /\ i <= b
    <3>1. ASSUME NEW i \in c + 1 .. e - 1, s[i] \notin Blanks
          PROVE  a <= i /\ i <= b
      <4>1. i - c \in 1 .. Len(p) /\ p[i - c] = s[i]
        BY <1>3, <1>5
      <4>2. x <= i - c /\ i - c <= y
        BY <2>2, <3>1, <4>1
      <4> QED
        BY <1>2, <2>3, <4>2
    <3> QED
      BY <3>1
  <2>6. SubSeq(p, x, y) = SubSeq(s, a, b)
    <3>1. /\ SubSeq(p, x, y) \in Seq(Tokens) /\ Len(SubSeq(p, x, y)) = (y - x) + 1
          /\ \A i \in 1 .. (y - x) + 1 : SubSeq(p, x, y)[i] = p[(x + i) - 1]
      BY <1>3, <2>3, PartIs
    <3>2. /\ a \in 1 .. Len(s) + 1 /\ b \in 0 .. Len(s) /\ a <= b + 1 /\ b - a = y - x
      BY <1>2, <2>3, <2>4
    <3> HIDE DEF a, b
    <3>3. /\ SubSeq(s, a, b) \in Seq(Tokens) /\ Len(SubSeq(s, a, b)) = (b - a) + 1
          /\ \A i \in 1 .. (b - a) + 1 : SubSeq(s, a, b)[i] = s[(a + i) - 1]
      BY <3>2, PartIs
    <3>4. ASSUME NEW i \in 1 .. (y - x) + 1
          PROVE  p[(x + i) - 1] = s[(a + i) - 1]
      <4>1. (x + i) - 1 \in 1 .. n /\ c + ((x + i) - 1) = (a + i) - 1
        BY <1>2, <2>3 DEF a
      <4>2. p[(x + i) - 1] = s[c + ((x + i) - 1)]
        BY <1>4, <4>1
      <4> QED
        BY <4>1, <4>2
    <3> DEFINE u == SubSeq(p, x, y)
               v == SubSeq(s, a, b)
               m == (y - x) + 1
    <3>5. /\ u \in Seq(Tokens) /\ v \in Seq(Tokens) /\ Len(u) = m /\ Len(v) = m
          /\ \A i \in 1 .. m : u[i] = v[i]
      BY <3>1, <3>2, <3>3, <3>4
    <3> HIDE DEF u, v, m
    <3>6. u = v
      BY <3>5
    <3> QED
      BY <3>6 DEF u, v
  <2> HIDE DEF a, b
  <2>7. Piece(s, cuts, c) = SubSeq(s, a, b)
    BY <1>6, <2>2, <2>6
  <2> QED
    BY <1>1, <1>8, <2>4, <2>5, <2>7 DEF IsPart
<1>9. \E f \in cuts \union {Len(s) + 1} : IsPart(s, cuts, c, f)
  BY <1>7, <1>8
<1> QED
  BY <1>9

\* What a statement is made of is in the text.
LEMMA StatementOnOneLine ==
    ASSUME NEW s \in Seq(Tokens), OneLine(s), NEW c \in DOMAIN Statements(s, {})
    PROVE  OneLine(Statements(s, {})[c])
<1> DEFINE cuts == Cuts(s, {})
           p    == Statements(s, {})[c]
<1>1. cuts \in SUBSET (1 .. Len(s)) /\ c \in {0} \union cuts /\ p = Piece(s, cuts, c) /\ p # <<>>
  BY CutsInside, StatementIsText
<1> HIDE DEF cuts, p
<1>2. PICK e \in cuts \union {Len(s) + 1} : IsPart(s, cuts, c, e)
  BY <1>1, PieceIsPart, Zenon
<1>3. PICK a, b \in c + 1 .. e - 1 : a <= b /\ p = SubSeq(s, a, b)
  BY <1>1, <1>2 DEF IsPart
<1>4. /\ Len(s) \in Nat /\ a \in 1 .. Len(s) + 1 /\ b \in 0 .. Len(s) /\ a <= b + 1
      /\ a \in 1 .. Len(s) /\ b \in 1 .. Len(s)
  <2>1. Len(s) \in Nat
    OBVIOUS
  <2>2. c \in 0 .. Len(s) /\ e \in 1 .. Len(s) + 1
    <3>1. cuts \subseteq 1 .. Len(s) /\ c \in {0} \union cuts
      BY <1>1
    <3> QED
      BY <2>1, <3>1
  <2> QED
    BY <2>1, <2>2, <1>3
<1>5. /\ p \in Seq(Tokens) /\ Len(p) = (b - a) + 1
      /\ \A i \in 1 .. (b - a) + 1 : p[i] = s[(a + i) - 1]
  BY <1>3, <1>4, PartIs
<1>6. \A i \in 1 .. (b - a) + 1 : (a + i) - 1 \in 1 .. Len(s)
  BY <1>4
<1>7. DOMAIN s = 1 .. Len(s) /\ DOMAIN p = 1 .. (b - a) + 1
  BY <1>5
<1>8. \A i \in DOMAIN p : \E j \in DOMAIN s : p[i] = s[j]
  BY <1>5, <1>6, <1>7
<1>9. OneLine(p)
  BY <1>8 DEF OneLine
<1> QED
  BY <1>9 DEF p

-----------------------------------------------------------------------------
(***************************************************************************)
(* Quotations.  When a text has one kind of quotes, a place is inside a    *)
(* quotation if and only if the number of quotes up to it is odd.          *)
(***************************************************************************)

\* Where a thing is, up to a place.
Before(s, k, n) == {i \in 1 .. n : s[i] = k}

\* Even and odd numbers.
LEMMA EvenNumbers ==
    ASSUME NEW x \in Nat, NEW y \in Nat
    PROVE  /\ 0 % 2 = 0
           /\ x % 2 = 0 <=> ~((x + 1) % 2 = 0)
           /\ x % 2 = 0 /\ y % 2 = 0 => (x + y) % 2 = 0
  OBVIOUS

\* The places before and after each other.
LEMMA PlacesOf ==
    ASSUME NEW N \in Nat
    PROVE  /\ 0 \in 0 .. N
           /\ \A i \in 0 .. N : i = 0 \/ (i \in 1 .. N /\ i - 1 \in 0 .. N)
           /\ \A i \in 1 .. N : /\ i \in 0 .. N /\ i # 0 /\ i - 1 \in 0 .. N
                              /\ i - 1 \in Nat /\ (i - 1) + 1 = i
  OBVIOUS

\* The places of a sequence.
LEMMA LengthIs ==
    ASSUME NEW S, NEW s \in Seq(S)
    PROVE  /\ Len(s) \in Nat /\ DOMAIN s = 1 .. Len(s)
           /\ \A i \in 1 .. Len(s) : s[i] \in S
  OBVIOUS

\* How many times something occurs up to a place.
LEMMA BeforeCounts ==
    ASSUME NEW s, NEW k, NEW n \in Nat
    PROVE  /\ IsFiniteSet(Before(s, k, n)) /\ Cardinality(Before(s, k, n)) \in Nat
           /\ Cardinality(Before(s, k, 0)) = 0
           /\ Cardinality(Before(s, k, n + 1))
                 = IF s[n + 1] = k THEN Cardinality(Before(s, k, n)) + 1 ELSE Cardinality(Before(s, k, n))
<1>1. IsFiniteSet(1 .. n) /\ Before(s, k, n) \in SUBSET (1 .. n)
  BY FS_Interval DEF Before
<1>2. IsFiniteSet(Before(s, k, n)) /\ Cardinality(Before(s, k, n)) \in Nat
  BY <1>1, FS_Subset, FS_CardinalityType
<1>3. Before(s, k, 0) = {}
  BY DEF Before
<1>4. n + 1 \notin Before(s, k, n)
  BY DEF Before
<1>5. CASE s[n + 1] = k
  <2>1. Before(s, k, n + 1) = Before(s, k, n) \union {n + 1}
    BY <1>5 DEF Before
  <2>2. /\ IsFiniteSet(Before(s, k, n) \union {n + 1})
        /\ Cardinality(Before(s, k, n) \union {n + 1}) = Cardinality(Before(s, k, n)) + 1
    BY <1>2, <1>4, FS_AddElement
  <2> QED
    BY <1>2, <1>3, <1>5, <2>1, <2>2, FS_EmptySet
<1>6. CASE s[n + 1] # k
  <2>1. Before(s, k, n + 1) = Before(s, k, n)
    BY <1>6 DEF Before
  <2> QED
    BY <1>2, <1>3, <1>6, <2>1, FS_EmptySet
<1> QED
  BY <1>5, <1>6

\* The parity changes at each of them.
LEMMA EvenBefore ==
    ASSUME NEW s, NEW k, NEW n \in Nat
    PROVE  /\ Cardinality(Before(s, k, 0)) % 2 = 0
           /\ s[n + 1] = k => (Cardinality(Before(s, k, n + 1)) % 2 = 0 <=> ~(Cardinality(Before(s, k, n)) % 2 = 0))
<1> DEFINE c == Cardinality(Before(s, k, n))
           d == Cardinality(Before(s, k, n + 1))
           z == Cardinality(Before(s, k, 0))
<1>1. c \in Nat /\ z = 0 /\ d = IF s[n + 1] = k THEN c + 1 ELSE c
  BY BeforeCounts
<1> HIDE DEF c, d, z
<1>2. z % 2 = 0 /\ (c % 2 = 0 <=> ~((c + 1) % 2 = 0))
  BY <1>1, EvenNumbers
<1>3. s[n + 1] = k => (d % 2 = 0 <=> ~(c % 2 = 0))
  BY <1>1, <1>2
<1> QED
  BY <1>2, <1>3, Zenon DEF c, d, z

\* Anything else leaves the count as it is.
LEMMA SameBefore ==
    ASSUME NEW s, NEW k, NEW n \in Nat, s[n + 1] # k
    PROVE  Cardinality(Before(s, k, n + 1)) = Cardinality(Before(s, k, n))
  BY BeforeCounts

\* What holds at the start and goes on from each number to the next holds to the end.
LEMMA UpTo ==
    ASSUME NEW N \in Nat, NEW good, 0 \in good, \A n \in 1 .. N : n - 1 \in good => n \in good
    PROVE  0 .. N \subseteq good
<1> DEFINE Bad == {n \in 0 .. N : n \notin good}
<1>1. SUFFICES ASSUME Bad # {}
               PROVE  FALSE
  OBVIOUS
<1>2. PICK n \in Bad : \A m \in Bad : ~(m < n)
  <2>1. Bad \in SUBSET Nat
    OBVIOUS
  <2> HIDE DEF Bad
  <2> QED
    BY <1>1, <2>1, LeastNumber
<1>3. n \in 1 .. N /\ n - 1 \in 0 .. N /\ n - 1 < n
  BY <1>2
<1>4. n - 1 \notin Bad
  BY <1>2, <1>3
<1> QED
  BY <1>2, <1>3, <1>4

\* What a loop that starts with e and takes the steps of G has computed.
Iterates(f, n, e, G) == f[0] = e /\ \A i \in 1 .. n : f[i] = G[<<i, f[i - 1]>>]

\* Each value follows from the one before it: there is a function of such values.
LEMMA FiniteRecursion ==
    ASSUME NEW N \in Nat, NEW V, NEW e \in V, NEW G \in [(1 .. N) \X V -> V]
    PROVE  \E f \in [0 .. N -> V] : Iterates(f, N, e, G)
<1> DEFINE Run(f, n) == f[0] = e /\ \A i \in 1 .. n : f[i] = G[<<i, f[i - 1]>>]
           good == {n \in 0 .. N : \E f \in [0 .. n -> V] : Run(f, n)}
<1>1. 0 \in good
  <2> DEFINE g == [i \in 0 .. 0 |-> e]
  <2>1. g \in [0 .. 0 -> V] /\ g[0] = e
    OBVIOUS
  <2> HIDE DEF g
  <2>2. \E f \in [0 .. 0 -> V] : Run(f, 0)
    <3>1. Run(g, 0)
      BY <2>1
    <3> HIDE DEF Run
    <3> QED
      BY <2>1, <3>1
  <2>3. 0 \in 0 .. N
    OBVIOUS
  <2> HIDE DEF Run
  <2> QED
    BY <2>2, <2>3
<1>2. ASSUME NEW n \in 1 .. N, n - 1 \in good
      PROVE  n \in good
  <2>1. PICK f \in [0 .. n - 1 -> V] : Run(f, n - 1)
    BY <1>2
  <2> DEFINE g == [i \in 0 .. n |-> IF i = n THEN G[<<n, f[n - 1]>>] ELSE f[i]]
  <2>2. n - 1 \in 0 .. n - 1 /\ G[<<n, f[n - 1]>>] \in V
    BY <1>2, <2>1
  <2>3. g \in [0 .. n -> V] /\ g[0] = e
    BY <1>2, <2>1, <2>2
  <2>4. ASSUME NEW i \in 1 .. n
        PROVE  g[i] = G[<<i, g[i - 1]>>]
    <3>1. i - 1 \in 0 .. n /\ i - 1 # n /\ g[i - 1] = f[i - 1]
      OBVIOUS
    <3>2. CASE i = n
      BY <3>1, <3>2
    <3>3. CASE i # n
      <4>1. i \in 1 .. n - 1
        BY <3>3
      <4> QED
        BY <3>1, <3>3, <4>1, <2>1
    <3> QED
      BY <3>2, <3>3
  <2> HIDE DEF g
  <2>5. n \in 0 .. N
    OBVIOUS
  <2> QED
    BY <2>3, <2>4, <2>5
<1>3. N \in good
  <2> HIDE DEF good
  <2>1. N \in 0 .. N
    OBVIOUS
  <2> QED
    BY <1>1, <1>2, <2>1, UpTo
<1>4. PICK f \in [0 .. N -> V] : Run(f, N)
  BY <1>3
<1>5. Iterates(f, N, e, G)
  BY <1>4 DEF Iterates
<1> QED
  BY <1>5

\* Quotation is what its equations say.
LEMMA QuotationIs ==
    ASSUME NEW s \in Seq(Tokens), NEW quotes
    PROVE  /\ Quotation(s, quotes)[0] = ""
           /\ \A n \in 1 .. Len(s) :
                 Quotation(s, quotes)[n] =
                    IF s[n] \notin quotes \/ Quotation(s, quotes)[n - 1] \notin {"", s[n]}
                    THEN Quotation(s, quotes)[n - 1]
                    ELSE IF Quotation(s, quotes)[n - 1] = "" THEN s[n] ELSE ""
<1> DEFINE N        == Len(s)
           V        == Tokens \union {""}
           Go(q, i) == IF s[i] \notin quotes \/ q \notin {"", s[i]} THEN q
                       ELSE IF q = "" THEN s[i] ELSE ""
           G        == [x \in (1 .. N) \X V |-> Go(x[2], x[1])]
<1>1. N \in Nat /\ \A i \in 1 .. N : s[i] \in Tokens
  BY LengthIs
<1> HIDE DEF N
<1>2. \A i \in 1 .. N, q \in V : Go(q, i) \in V
  BY <1>1, Zenon
<1> HIDE DEF Go
<1>3. G \in [(1 .. N) \X V -> V] /\ \A i \in 1 .. N, q \in V : G[<<i, q>>] = Go(q, i)
  <2> HIDE DEF V
  <2> QED
    BY <1>2
<1> HIDE DEF G
<1> DEFINE none == ""
<1>4. PICK f \in [0 .. N -> V] : Iterates(f, N, none, G)
  <2>1. none \in V
    OBVIOUS
  <2>2. N \in Nat
    BY <1>1
  <2>3. G \in [(1 .. N) \X V -> V]
    BY <1>3
  <2> HIDE DEF V, none
  <2> QED
    BY <2>1, <2>2, <2>3, FiniteRecursion, Zenon
<1>5. /\ 0 \in 0 .. N
      /\ \A i \in 0 .. N : i = 0 \/ (i \in 1 .. N /\ i - 1 \in 0 .. N)
      /\ \A i \in 1 .. N : i \in 0 .. N /\ i # 0
  BY <1>1, PlacesOf, Zenon
<1> DEFINE Loop(g) == g = [n \in 0 .. Len(s) |->
                        IF n = 0 THEN ""
                        ELSE IF s[n] \notin quotes \/ g[n - 1] \notin {"", s[n]} THEN g[n - 1]
                        ELSE IF g[n - 1] = "" THEN s[n] ELSE ""]
           open == CHOOSE g : Loop(g)
<1>6. Loop(f)
  <2> HIDE DEF V
  <2>1. \A i \in 1 .. N : f[i] = Go(f[i - 1], i)
    <3> TAKE i \in 1 .. N
    <3>1. i - 1 \in 0 .. N
      BY <1>1, PlacesOf, Zenon
    <3>2. f[i - 1] \in V
      BY <3>1, Zenon
    <3> QED
      BY <1>3, <1>4, <3>2, Zenon DEF Iterates
  <2>2. \A i \in 0 .. N : f[i] = IF i = 0 THEN "" ELSE Go(f[i - 1], i)
    BY <1>4, <1>5, <2>1, Zenon DEF Iterates
  <2>3. f = [i \in 0 .. N |-> f[i]]
    BY Zenon
  <2>4. f = [i \in 0 .. N |-> IF i = 0 THEN "" ELSE Go(f[i - 1], i)]
    BY <2>2, <2>3, Zenon
  <2> QED
    BY <2>4, Zenon DEF Go, N
<1>7. Loop(open)
  BY <1>6, Zenon
<1>8. Quotation(s, quotes) = open
  BY DEF Quotation
<1> HIDE DEF open
<1>9. open[0] = "" /\ \A i \in 1 .. N : open[i] = Go(open[i - 1], i)
  <2>1. open = [i \in 0 .. N |-> IF i = 0 THEN "" ELSE Go(open[i - 1], i)]
    BY <1>7, Zenon DEF Go, N
  <2>2. \A i \in 0 .. N : open[i] = IF i = 0 THEN "" ELSE Go(open[i - 1], i)
    BY <2>1, Zenon
  <2> QED
    BY <1>5, <2>2, Zenon
<1> QED
  BY <1>8, <1>9, Zenon DEF Go, N

\* Without quotes nothing is quoted, and the cuts are the semicolons.
LEMMA AllCuts ==
    ASSUME NEW s \in Seq(Tokens)
    PROVE  Cuts(s, {}) = {c \in 1 .. Len(s) : s[c] = ";"}
<1> DEFINE N    == Len(s)
           q    == Quotation(s, {})
           good == {n \in 0 .. N : q[n] = ""}
<1>1. N \in Nat /\ DOMAIN s = 1 .. N
  OBVIOUS
<1>2. q[0] = "" /\ \A n \in 1 .. N : q[n] = q[n - 1]
  <2>1. /\ q[0] = ""
        /\ \A n \in 1 .. N : q[n] = IF s[n] \notin {} \/ q[n - 1] \notin {"", s[n]} THEN q[n - 1]
                                    ELSE IF q[n - 1] = "" THEN s[n] ELSE ""
    BY QuotationIs, Zenon
  <2> HIDE DEF q, N
  <2> QED
    BY <2>1, Zenon
<1> HIDE DEF q, N
<1>3. /\ 0 \in 0 .. N
      /\ \A n \in 1 .. N : n \in 0 .. N /\ n - 1 \in 0 .. N
  BY <1>1
<1>4. 0 .. N \subseteq good
  <2>1. 0 \in good /\ \A n \in 1 .. N : n - 1 \in good => n \in good
    BY <1>2, <1>3, Zenon
  <2> HIDE DEF good
  <2> QED
    BY <1>1, <2>1, UpTo
<1>5. Cuts(s, {}) = {c \in DOMAIN s : s[c] = ";" /\ q[c - 1] = ""}
  BY DEF Cuts, q
<1>6. \A c \in 1 .. N : q[c - 1] = ""
  BY <1>3, <1>4, Zenon
<1> QED
  BY <1>1, <1>5, <1>6, Zenon DEF N

\* No other quotes than k are in the text.
OnlyKind(s, quotes, k) == \A i \in 1 .. Len(s) : s[i] \in quotes => s[i] = k

\* One kind of quotes opens and closes in turn.
LEMMA OneKindOfQuotes ==
    ASSUME NEW s \in Seq(Tokens), NEW quotes, NEW k \in quotes, k # "", OnlyKind(s, quotes, k),
           NEW place \in 0 .. Len(s), Cardinality(Before(s, k, place)) % 2 = 0
    PROVE  Quotation(s, quotes)[place] = ""
<1> DEFINE N        == Len(s)
           q        == Quotation(s, quotes)
           C(n)     == Cardinality(Before(s, k, n))
           Even(n)  == C(n) % 2 = 0
           Right(n) == q[n] = IF Even(n) THEN "" ELSE k
           good     == {n \in 0 .. N : Right(n)}
<1>1. N \in Nat
  BY LengthIs, Zenon
<1>2. /\ q[0] = ""
      /\ \A n \in 1 .. N : q[n] = IF s[n] \notin quotes \/ q[n - 1] \notin {"", s[n]} THEN q[n - 1]
                                  ELSE IF q[n - 1] = "" THEN s[n] ELSE ""
  BY QuotationIs, Zenon
<1>3. \A i \in 1 .. N : s[i] \in quotes <=> s[i] = k
  BY Zenon DEF OnlyKind
<1> HIDE DEF q, N
<1>4. /\ 0 \in 0 .. N
      /\ \A n \in 1 .. N : n \in 0 .. N /\ n - 1 \in 0 .. N /\ n - 1 \in Nat /\ (n - 1) + 1 = n
  BY <1>1, PlacesOf, Zenon
<1>5. Even(0) /\ \A n \in 1 .. N : Even(n) <=> IF s[n] = k THEN ~Even(n - 1) ELSE Even(n - 1)
  <2>1. 0 \in Nat /\ Even(0)
    <3>1. 0 \in Nat
      BY Zenon
    <3> QED
      BY <3>1, EvenBefore, Zenon
  <2>2. ASSUME NEW n \in 1 .. N
        PROVE  Even(n) <=> IF s[n] = k THEN ~Even(n - 1) ELSE Even(n - 1)
    <3>1. n - 1 \in Nat /\ (n - 1) + 1 = n
      BY <1>4, Zenon
    <3>2. /\ s[(n - 1) + 1] = k => (Even((n - 1) + 1) <=> ~Even(n - 1))
          /\ s[(n - 1) + 1] # k => (Even((n - 1) + 1) <=> Even(n - 1))
      <4>1. s[(n - 1) + 1] = k => (Even((n - 1) + 1) <=> ~Even(n - 1))
        BY <3>1, EvenBefore, Zenon
      <4>2. s[(n - 1) + 1] # k => (Even((n - 1) + 1) <=> Even(n - 1))
        <5>1. ASSUME s[(n - 1) + 1] # k
              PROVE  C((n - 1) + 1) = C(n - 1)
          BY <3>1, <5>1, SameBefore, Zenon
        <5> HIDE DEF C
        <5> QED
          BY <5>1, Zenon
      <4> QED
        BY <4>1, <4>2
    <3> HIDE DEF Even
    <3> QED
      BY <3>1, <3>2, Zenon
  <2> QED
    BY <2>1, <2>2, Zenon
<1> HIDE DEF Even
<1>6. 0 .. N \subseteq good
  <2>1. 0 \in good
    BY <1>2, <1>4, <1>5, Zenon
  <2>2. ASSUME NEW n \in 1 .. N, n - 1 \in good
        PROVE  n \in good
    <3>1. Right(n - 1)
      BY <2>2, Zenon
    <3>2. ASSUME s[n] = k
          PROVE  Right(n)
      <4>1. s[n] \in quotes /\ (Even(n) <=> ~Even(n - 1))
        BY <1>3, <1>5, <3>2, Zenon
      <4>2. CASE Even(n - 1)
        <5>1. q[n - 1] = "" /\ ~Even(n)
          BY <3>1, <4>1, <4>2, Zenon
        <5>2. q[n] = k
          BY <1>2, <3>2, <4>1, <5>1, Zenon
        <5> QED
          BY <5>1, <5>2, Zenon
      <4>3. CASE ~Even(n - 1)
        <5>1. q[n - 1] = k /\ Even(n)
          BY <3>1, <4>1, <4>3, Zenon
        <5>2. q[n] = ""
          BY <1>2, <3>2, <4>1, <5>1, Zenon
        <5> QED
          BY <5>1, <5>2, Zenon
      <4> QED
        BY <4>2, <4>3, Zenon
    <3>3. ASSUME s[n] # k
          PROVE  Right(n)
      <4>1. s[n] \notin quotes /\ (Even(n) <=> Even(n - 1))
        BY <1>3, <1>5, <3>3, Zenon
      <4>2. q[n] = q[n - 1]
        BY <1>2, <4>1, Zenon
      <4> QED
        BY <3>1, <4>1, <4>2, Zenon
    <3>4. Right(n)
      BY <3>2, <3>3, Zenon
    <3> QED
      BY <1>4, <3>4, Zenon
  <2> HIDE DEF good
  <2> QED
    BY <1>1, <2>1, <2>2, UpTo
<1>7. Right(place)
  BY <1>6, Zenon DEF N
<1> QED
  BY <1>7, Zenon DEF q, Even

\* A text has finitely many places.
LEMMA PlacesFinite ==
    ASSUME NEW S, NEW s \in Seq(S)
    PROVE  IsFiniteSet(1 .. Len(s))
<1> DEFINE N == Len(s)
<1>1. N \in Int /\ 1 \in Int
  OBVIOUS
<1> HIDE DEF N
<1>2. IsFiniteSet(1 .. N)
  BY <1>1, FS_Interval
<1> QED
  BY <1>2 DEF N

\* A part of a text, with something else at its end, has as many of a thing as the
\* text has between the same places.
LEMMA PartCounts ==
    ASSUME NEW s \in Seq(Tokens), NEW a \in 1 .. Len(s), NEW b \in 1 .. Len(s), a <= b,
           NEW t \in Tokens, NEW k, k # t
    PROVE  Count(Append(SubSeq(s, a, b), t), k) = Cardinality({i \in a .. b : s[i] = k})
<1> DEFINE p == SubSeq(s, a, b)
           u == Append(p, t)
           n == (b - a) + 1
           I == {i \in DOMAIN u : u[i] = k}
           J == {i \in a .. b : s[i] = k}
           f == [i \in I |-> (a + i) - 1]
<1>1. Len(s) \in Nat /\ a \in 1 .. Len(s) + 1 /\ b \in 0 .. Len(s) /\ a <= b + 1 /\ n \in Nat
  OBVIOUS
<1>2. p \in Seq(Tokens) /\ Len(p) = n /\ \A i \in 1 .. n : p[i] = s[(a + i) - 1]
  BY <1>1, PartIs
<1> HIDE DEF p
<1>3. /\ u \in Seq(Tokens) /\ Len(u) = n + 1
      /\ \A i \in 1 .. n + 1 : u[i] = IF i <= n THEN s[(a + i) - 1] ELSE t
  <2>1. /\ Append(p, t) \in Seq(Tokens)
        /\ Len(Append(p, t)) = Len(p) + 1
        /\ \A i \in 1 .. Len(p) + 1 : Append(p, t)[i] = IF i <= Len(p) THEN p[i] ELSE t
    BY <1>2, AppendIs
  <2>2. \A i \in 1 .. n + 1 : i <= n => i \in 1 .. n
    BY <1>1
  <2> QED
    BY <1>2, <2>1, <2>2
<1>4. DOMAIN u = 1 .. n + 1
  BY <1>3
<1> HIDE DEF u
<1>5. \A i \in I : i \in 1 .. n /\ s[(a + i) - 1] = k
  <2> TAKE i \in I
  <2>1. i \in 1 .. n + 1 /\ u[i] = k
    BY <1>4
  <2>2. i <= n
    BY <1>3, <2>1
  <2> QED
    BY <1>1, <1>3, <2>1, <2>2
<1>6. \A j \in J : (j - a) + 1 \in I
  <2> TAKE j \in J
  <2> DEFINE i == (j - a) + 1
  <2>1. i \in 1 .. n /\ i \in 1 .. n + 1 /\ i <= n /\ (a + i) - 1 = j
    OBVIOUS
  <2> HIDE DEF i
  <2>2. u[i] = s[j]
    BY <1>3, <2>1
  <2> QED
    BY <1>4, <2>1, <2>2 DEF i
<1>7. IsFiniteSet(I) /\ I \subseteq 1 .. n
  <2>1. I \in SUBSET (1 .. n)
    BY <1>5
  <2>2. IsFiniteSet(1 .. n)
    BY <1>1, FS_Interval
  <2> QED
    BY <2>1, <2>2, FS_Subset
<1> HIDE DEF I, n
<1>8. f \in [I -> J]
  <2>1. \A i \in I : (a + i) - 1 \in J
    <3> TAKE i \in I
    <3>1. i \in 1 .. n /\ s[(a + i) - 1] = k
      BY <1>5
    <3>2. (a + i) - 1 \in a .. b
      BY <3>1 DEF n
    <3> QED
      BY <3>1, <3>2
  <2> HIDE DEF J
  <2> QED
    BY <2>1
<1>9. \A x, y \in I : f[x] = f[y] => x = y
  <2> TAKE x, y \in I
  <2>1. x \in 1 .. n /\ y \in 1 .. n /\ f[x] = (a + x) - 1 /\ f[y] = (a + y) - 1
    BY <1>5
  <2> HIDE DEF f
  <2> QED
    BY <1>1, <2>1
<1>10. \A j \in J : \E x \in I : f[x] = j
  <2> TAKE j \in J
  <2>1. (j - a) + 1 \in I /\ (a + ((j - a) + 1)) - 1 = j
    BY <1>6
  <2> QED
    BY <2>1
<1> HIDE DEF f, J
<1>11. f \in Bijection(I, J)
  BY <1>8, <1>9, <1>10 DEF Bijection, Injection, Surjection, IsInjective
<1>12. Cardinality(J) = Cardinality(I)
  BY <1>7, <1>11, FS_Bijection DEF ExistsBijection
<1> QED
  BY <1>12 DEF Count, u, p, I, J

\* What is counted up to a place and what is counted from there to the next.
LEMMA CountsAdd ==
    ASSUME NEW s, NEW k, NEW c \in Nat, NEW d \in Nat, c <= d
    PROVE  LET between == Cardinality({i \in c + 1 .. d : s[i] = k})
           IN  /\ between \in Nat
               /\ Cardinality(Before(s, k, d)) = Cardinality(Before(s, k, c)) + between
<1> DEFINE B == {i \in c + 1 .. d : s[i] = k}
           A == Before(s, k, c)
<1>1. IsFiniteSet(A) /\ Cardinality(A) \in Nat
  BY BeforeCounts
<1>2. IsFiniteSet(B) /\ Cardinality(B) \in Nat
  <2>1. IsFiniteSet(c + 1 .. d)
    <3>1. c + 1 \in Int /\ d \in Int
      OBVIOUS
    <3> QED
      BY <3>1, FS_Interval
  <2>2. B \in SUBSET (c + 1 .. d)
    OBVIOUS
  <2> QED
    BY <2>1, <2>2, FS_Subset, FS_CardinalityType
<1>3. Before(s, k, d) = A \union B /\ A \cap B = {}
  BY DEF Before
<1> HIDE DEF A, B
<1>4. Cardinality(A \union B) = Cardinality(A) + Cardinality(B)
  <2>1. Cardinality(A \union B) = Cardinality(A) + Cardinality(B) - Cardinality(A \cap B)
    BY <1>1, <1>2, FS_Union
  <2>2. Cardinality(A \cap B) = 0
    BY <1>3, FS_EmptySet
  <2> QED
    BY <1>1, <1>2, <2>1, <2>2
<1> QED
  BY <1>2, <1>3, <1>4 DEF A, B

\* When the quotes of a piece balance, the cuts at its two ends are alike.
LEMMA PieceIsEven ==
    ASSUME NEW s \in Seq(Tokens), NEW cuts \in SUBSET (1 .. Len(s)), NEW c \in {0} \union cuts,
           NEW t \in Tokens, NEW k, k # t, k \notin Blanks,
           Piece(s, cuts, c) # <<>> => Count(Append(Piece(s, cuts, c), t), k) % 2 = 0,
           Cardinality(Before(s, k, c)) % 2 = 0
    PROVE  \E e \in cuts \union {Len(s) + 1} :
              /\ c < e /\ \A d \in cuts : c < d => e <= d
              /\ Cardinality(Before(s, k, e - 1)) % 2 = 0
<1>1. PICK e \in cuts \union {Len(s) + 1} : IsPart(s, cuts, c, e)
  BY PieceIsPart, Zenon
<1> DEFINE J == {i \in c + 1 .. e - 1 : s[i] = k}
<1>2. Len(s) \in Nat /\ c \in 0 .. Len(s) /\ e \in 1 .. Len(s) + 1 /\ c \in Nat /\ e - 1 \in Nat /\ c <= e - 1
  <2>1. Len(s) \in Nat
    BY LengthIs, Zenon
  <2>2. c < e
    BY <1>1 DEF IsPart
  <2>3. cuts \subseteq 1 .. Len(s) /\ e \in cuts \union {Len(s) + 1} /\ c \in {0} \union cuts
    OBVIOUS
  <2> QED
    BY <2>1, <2>2, <2>3
<1>3. Cardinality(J) % 2 = 0
  <2>1. CASE \A i \in c + 1 .. e - 1 : s[i] \in Blanks
    <3>1. J = {}
      BY <2>1
    <3>2. Cardinality(J) = 0
      BY <3>1, FS_EmptySet
    <3> HIDE DEF J
    <3> QED
      BY <3>2, EvenNumbers
  <2>2. CASE ~ \A i \in c + 1 .. e - 1 : s[i] \in Blanks
    <3>1. PICK a, b \in c + 1 .. e - 1 :
             /\ a <= b /\ Piece(s, cuts, c) = SubSeq(s, a, b)
             /\ \A i \in c + 1 .. e - 1 : s[i] \notin Blanks => a <= i /\ i <= b
      BY <1>1, <2>2 DEF IsPart
    <3>2. a \in 1 .. Len(s) /\ b \in 1 .. Len(s) /\ a \in 1 .. Len(s) + 1 /\ b \in 0 .. Len(s) /\ a <= b + 1
      BY <1>2, <3>1
    <3>3. Piece(s, cuts, c) # <<>>
      <4>1. Len(SubSeq(s, a, b)) = (b - a) + 1
        BY <3>2, PartIs
      <4>2. Len(SubSeq(s, a, b)) # 0
        BY <3>1, <3>2, <4>1
      <4> QED
        BY <3>1, <4>2
    <3>4. J = {i \in a .. b : s[i] = k}
      <4>1. \A i \in J : i \in a .. b
        BY <1>2, <3>1, <3>2
      <4>2. \A i \in a .. b : i \in c + 1 .. e - 1
        BY <1>2, <3>1, <3>2
      <4> QED
        BY <4>1, <4>2
    <3>5. Count(Append(SubSeq(s, a, b), t), k) = Cardinality({i \in a .. b : s[i] = k})
      BY <3>1, <3>2, PartCounts
    <3>6. Count(Append(Piece(s, cuts, c), t), k) % 2 = 0
      BY <3>3
    <3> HIDE DEF J
    <3> QED
      BY <3>1, <3>4, <3>5, <3>6, Zenon
  <2> QED
    BY <2>1, <2>2
<1>4. /\ Cardinality(J) \in Nat
      /\ Cardinality(Before(s, k, e - 1)) = Cardinality(Before(s, k, c)) + Cardinality(J)
  <2> DEFINE d == e - 1
  <2>1. c \in Nat /\ d \in Nat /\ c <= d
    BY <1>2
  <2> HIDE DEF d
  <2>2. /\ Cardinality({i \in c + 1 .. d : s[i] = k}) \in Nat
        /\ Cardinality(Before(s, k, d)) = Cardinality(Before(s, k, c)) + Cardinality({i \in c + 1 .. d : s[i] = k})
    BY <2>1, CountsAdd
  <2> QED
    BY <2>2 DEF d
<1>5. Cardinality(Before(s, k, e - 1)) % 2 = 0
  <2> DEFINE x == Cardinality(Before(s, k, c))
             y == Cardinality(J)
  <2>1. x \in Nat /\ y \in Nat /\ x % 2 = 0 /\ y % 2 = 0
    BY <1>2, <1>3, <1>4, BeforeCounts
  <2> HIDE DEF x, y
  <2>2. (x + y) % 2 = 0
    BY <2>1, EvenNumbers
  <2> QED
    BY <1>4, <2>2 DEF x, y
<1> QED
  BY <1>1, <1>5 DEF IsPart

\* What holds at a cut holds at the next one.
GoesOn(N, cuts, good) ==
    \A c \in {0} \union cuts : c \in good =>
        \E e \in cuts \union {N + 1} :
            c < e /\ (\A d \in cuts : c < d => e <= d) /\ (e \in cuts => e \in good)

\* What holds at the start, and at each cut when at the one before it, holds at all of them.
LEMMA CutsInTurn ==
    ASSUME NEW N \in Nat, NEW cuts \in SUBSET (1 .. N), NEW good, 0 \in good,
           GoesOn(N, cuts, good)
    PROVE  cuts \subseteq good
<1> DEFINE Bad == {c \in cuts : c \notin good}
<1>1. SUFFICES ASSUME Bad # {}
               PROVE  FALSE
  OBVIOUS
<1>2. PICK n \in Bad : \A m \in Bad : ~(m < n)
  <2>1. Bad \in SUBSET Nat
    <3>1. \A x \in cuts : x \in 1 .. N
      OBVIOUS
    <3>2. \A x \in Bad : x \in Nat
      BY <3>1
    <3> HIDE DEF Bad
    <3> QED
      BY <3>2
  <2> HIDE DEF Bad
  <2> QED
    BY <1>1, <2>1, LeastNumber
<1> DEFINE Less == {x \in {0} \union cuts : x < n}
           c    == Max(Less)
<1>3. n \in cuts /\ n \in 1 .. N
  BY <1>2
<1>4. c \in Less /\ \A x \in Less : x <= c
  <2>1. Less \in SUBSET (0 .. N) /\ 0 \in Less
    <3>1. \A x \in {0} \union cuts : x \in 0 .. N
      OBVIOUS
    <3>2. \A x \in Less : x \in 0 .. N
      BY <3>1
    <3>3. 0 \in Less
      BY <1>3
    <3> HIDE DEF Less
    <3> QED
      BY <3>2, <3>3
  <2> HIDE DEF Less
  <2> QED
    BY <2>1, MaxIsGreatest
<1> HIDE DEF c
<1>5. c \in {0} \union cuts /\ c < n
  BY <1>4
<1>6. c \in good
  BY <1>2, <1>5
<1>7. PICK e \in cuts \union {N + 1} :
         c < e /\ (\A d \in cuts : c < d => e <= d) /\ (e \in cuts => e \in good)
  BY <1>5, <1>6 DEF GoesOn
<1>8. e <= n /\ e \in cuts
  BY <1>3, <1>5, <1>7
<1>9. ~(e < n)
  BY <1>4, <1>5, <1>7, <1>8
<1>10. e = n
  BY <1>3, <1>8, <1>9
<1> QED
  BY <1>2, <1>7, <1>8, <1>10

\* When the quotes of every piece balance, every cut has an even number of them before it.
LEMMA CutsAreEven ==
    ASSUME NEW s \in Seq(Tokens), NEW cuts \in SUBSET (1 .. Len(s)),
           NEW t \in Tokens, NEW k, k # t, k \notin Blanks,
           \A c \in cuts : s[c] # k,
           \A c \in {0} \union cuts :
              Piece(s, cuts, c) # <<>> => Count(Append(Piece(s, cuts, c), t), k) % 2 = 0,
           NEW cut \in cuts
    PROVE  Cardinality(Before(s, k, cut - 1)) % 2 = 0
<1> DEFINE Even(n) == Cardinality(Before(s, k, n)) % 2 = 0
           good    == {c \in {0} \union cuts : Even(c)}
<1>1. \A c \in cuts : c - 1 \in Nat /\ (c - 1) + 1 = c
  OBVIOUS
<1>2. \A c \in cuts : Even(c) <=> Even(c - 1)
  <2> TAKE c \in cuts
  <2> DEFINE m == c - 1
  <2>1. m \in Nat /\ m + 1 = c /\ s[m + 1] # k
    BY <1>1
  <2>2. Cardinality(Before(s, k, m + 1)) = Cardinality(Before(s, k, m))
    <3> HIDE DEF m
    <3> QED
      BY <2>1, SameBefore
  <2> HIDE DEF m
  <2>3. Cardinality(Before(s, k, c)) = Cardinality(Before(s, k, m))
    BY <2>1, <2>2
  <2> QED
    BY <2>3 DEF m
<1>3. Even(0)
  <2>1. Cardinality(Before(s, k, 0)) = 0
    <3>1. 0 \in Nat
      OBVIOUS
    <3> QED
      BY <3>1, BeforeCounts
  <2> QED
    BY <2>1, EvenNumbers
<1>4. ASSUME NEW c \in {0} \union cuts, Even(c)
      PROVE  \E e \in cuts \union {Len(s) + 1} :
                c < e /\ (\A d \in cuts : c < d => e <= d) /\ Even(e - 1)
  BY <1>4, PieceIsEven
<1> HIDE DEF Even
<1>5. cuts \subseteq good
  <2>1. 0 \in good
    BY <1>3, Zenon
  <2>2. ASSUME NEW c \in {0} \union cuts, c \in good
        PROVE  \E e \in cuts \union {Len(s) + 1} :
                  c < e /\ (\A d \in cuts : c < d => e <= d) /\ (e \in cuts => e \in good)
    <3>1. PICK e \in cuts \union {Len(s) + 1} :
             c < e /\ (\A d \in cuts : c < d => e <= d) /\ Even(e - 1)
      BY <1>4, <2>2, Zenon
    <3>2. e \in cuts => e \in good
      BY <1>2, <3>1, Zenon
    <3> QED
      BY <3>1, <3>2, Zenon
  <2>3. Len(s) \in Nat
    BY LengthIs, Zenon
  <2> HIDE DEF good
  <2>4. GoesOn(Len(s), cuts, good)
    BY <2>2, Zenon DEF GoesOn
  <2> QED
    BY <2>1, <2>3, <2>4, CutsInTurn, Zenon
<1>6. Even(cut)
  BY <1>5
<1> QED
  BY <1>2, <1>6 DEF Even

\* Statements depend on the quotes through the cuts alone.
LEMMA SameCuts ==
    ASSUME NEW s, NEW p, NEW q, Cuts(s, p) = Cuts(s, q)
    PROVE  Statements(s, p) = Statements(s, q)
  BY DEF Statements

\* What is added and taken away again.
LEMMA Difference ==
    ASSUME NEW x \in Nat, NEW y \in Nat
    PROVE  (x + y) - y = x
  OBVIOUS

LEMMA CountIsNat ==
    ASSUME NEW s \in Seq(Tokens), NEW t
    PROVE  Count(s, t) \in Nat
<1> DEFINE here == {i \in DOMAIN s : s[i] = t}
<1>1. IsFiniteSet(DOMAIN s)
  BY PlacesFinite, LengthIs
<1>2. here \in SUBSET DOMAIN s
  OBVIOUS
<1> HIDE DEF here
<1>3. Cardinality(here) \in Nat
  BY <1>1, <1>2, FS_Subset, FS_CardinalityType
<1> QED
  BY <1>3 DEF Count, here

\* The quotes of the statements that pass balance.
LEMMA PassingQuotes ==
    ASSUME text \in Seq(Tokens), FetchSQLTest # None, Passes(FetchSQLTest), NEW k \in Quotes,
           NEW c \in {0} \union Cuts(text, {}), Piece(text, Cuts(text, {}), c) # <<>>
    PROVE  Count(Append(Piece(text, Cuts(text, {}), c), ";"), k) % 2 = 0
<1> DEFINE cuts == Cuts(text, {})
           p    == Append(Piece(text, cuts, c), ";")
<1>1. c \in DOMAIN Statements(text, {}) /\ Statements(text, {})[c] = Piece(text, cuts, c)
  BY DEF Statements
<1>2. FetchSQLTest = Check(text, CheckDataSourceRule)
  BY DEF FetchSQLTest
<1>3. c \in DOMAIN splitSQL(text) /\ splitSQL(text)[c] = p
  BY <1>1 DEF splitSQL
<1>4. validateSQL(p, CheckDataSourceRule) = {}
  BY <1>2, <1>3 DEF Check, Passes
<1> HIDE DEF p
<1>5. isQuotesBalanced(p)
  <2>1. checkBasicSyntax(p) = {}
    BY <1>4 DEF validateSQL
  <2> QED
    BY <2>1 DEF checkBasicSyntax
<1>6. p \in Seq(Tokens)
  <2>1. Piece(text, cuts, c) \in Seq(Tokens) /\ ";" \in Tokens
    BY <1>1, StatementIsText, TextAssumption
  <2> QED
    BY <2>1, AppendIs DEF p
<1>7. /\ (AllOf(p, "'", "\\'") - Count(p, "\\'")) % 2 = 0
      /\ (AllOf(p, "\"", "\\\"") - Count(p, "\\\"")) % 2 = 0
      /\ Count(p, "backtick") % 2 = 0
  BY <1>5 DEF isQuotesBalanced
<1>8. ASSUME NEW q, NEW escaped
      PROVE  AllOf(p, q, escaped) - Count(p, escaped) = Count(p, q)
  BY <1>6, CountIsNat, Difference DEF AllOf
<1>9. Count(p, "'") % 2 = 0 /\ Count(p, "\"") % 2 = 0
  BY <1>7, <1>8, Zenon
<1> QED
  BY <1>7, <1>9, Zenon DEF p, Quotes

\* Then no semicolon is inside a quotation, and the two ways to cut are one.
LEMMA PassingIsWhole == text \in Seq(Tokens) => PassedIsNotCut
<1> SUFFICES ASSUME text \in Seq(Tokens), FetchSQLTest # None, Passes(FetchSQLTest),
                    \E k \in Quotes : \A o \in Quotes \ {k} : Count(text, o) = 0
             PROVE  Statements(text, {}) = Statements(text, Quotes)
  BY DEF PassedIsNotCut
<1>1. PICK k \in Quotes : \A o \in Quotes : o # k => Count(text, o) = 0
  BY Zenon
<1>2. k # "" /\ k # ";" /\ k \notin Blanks
  BY DEF Blanks, Quotes
<1>3. ";" \in Tokens
  BY TextAssumption
<1> DEFINE cuts == Cuts(text, {})
           semi == ";"
           none == ""
<1>4. cuts \in SUBSET (1 .. Len(text)) /\ \A c \in cuts : text[c] = semi
  BY AllCuts, CutsInside
<1>5. \A c \in {0} \union cuts :
         Piece(text, cuts, c) # <<>> => Count(Append(Piece(text, cuts, c), semi), k) % 2 = 0
  BY PassingQuotes, Zenon
<1>6. OnlyKind(text, Quotes, k)
  <2> SUFFICES ASSUME NEW i \in 1 .. Len(text), text[i] \in Quotes, text[i] # k
               PROVE  FALSE
    BY Zenon DEF OnlyKind
  <2> DEFINE o    == text[i]
             here == {j \in DOMAIN text : text[j] = o}
  <2>1. Cardinality(here) = 0
    BY <1>1, Zenon DEF Count
  <2>2. IsFiniteSet(here) /\ i \in here
    <3>1. Len(text) \in Nat /\ DOMAIN text = 1 .. Len(text)
      BY LengthIs, Zenon
    <3>2. IsFiniteSet(1 .. Len(text))
      BY PlacesFinite, Zenon
    <3>3. here \in SUBSET (1 .. Len(text))
      BY <3>1, Zenon
    <3>4. i \in here
      BY <3>1, Zenon
    <3> HIDE DEF here
    <3> QED
      BY <3>2, <3>3, <3>4, FS_Subset, Zenon
  <2> HIDE DEF here
  <2>3. here = {}
    BY <2>1, <2>2, FS_EmptySet
  <2> QED
    BY <2>2, <2>3
<1> HIDE DEF semi, none, cuts
<1>7. \A c \in cuts : Cardinality(Before(text, k, c - 1)) % 2 = 0
  <2>1. semi \in Tokens /\ k # semi /\ \A c \in cuts : text[c] # k
    BY <1>2, <1>3, <1>4, Zenon DEF semi
  <2> QED
    BY <1>2, <1>4, <1>5, <2>1, CutsAreEven
<1>8. \A c \in cuts : Quotation(text, Quotes)[c - 1] = none
  <2> TAKE c \in cuts
  <2>1. c - 1 \in 0 .. Len(text)
    <3>1. Len(text) \in Nat /\ c \in 1 .. Len(text)
      BY <1>4, LengthIs, Zenon
    <3> QED
      BY <3>1, PlacesOf, Zenon
  <2>2. Cardinality(Before(text, k, c - 1)) % 2 = 0
    BY <1>7, Zenon
  <2>3. Quotation(text, Quotes)[c - 1] = ""
    <3>1. k # ""
      BY <1>2, Zenon
    <3> QED
      BY <1>6, <2>1, <2>2, <3>1, OneKindOfQuotes, Zenon
  <2> QED
    BY <2>3, Zenon DEF none
<1>9. Cuts(text, Quotes) = cuts
  <2>1. Cuts(text, Quotes) = {c \in DOMAIN text : text[c] = semi /\ Quotation(text, Quotes)[c - 1] = none}
    BY DEF Cuts, semi, none
  <2>2. cuts = {c \in 1 .. Len(text) : text[c] = semi} /\ DOMAIN text = 1 .. Len(text)
    BY AllCuts, LengthIs, Zenon DEF cuts, semi
  <2>3. \A c : c \in Cuts(text, Quotes) <=> c \in cuts
    BY <1>8, <2>1, <2>2, Zenon
  <2> QED
    BY <2>3
<1> QED
  BY <1>9, SameCuts, Zenon DEF cuts

-----------------------------------------------------------------------------
(***************************************************************************)
(* The merge of ALTER statements.                                          *)
(***************************************************************************)

\* On one line the expression takes the action of a statement to its end.
LEMMA AlterOnOneLine ==
    ASSUME NEW s \in Seq(Tokens), OneLine(s)
    PROVE  Alter(s, FALSE) = Alter(s, TRUE)
<1> DEFINE N      == Len(s)
           table  == After(s, 0)
           second == After(s, table)
           name   == After(s, second)
           from   == After(s, name)
           Stops(q) == At(s, q) \in {"\n", ""} /\ \A k \in from .. q - 1 : s[k] # "\n"
           stop   == CHOOSE q \in from .. N + 1 : Stops(q)
           Alters == /\ At(s, table) = "alter" /\ At(s, second) = "table"
                     /\ IsWord(At(s, name)) /\ from > name + 1 /\ from <= N
<1>1. CASE ~Alters
  <2>1. /\ Alter(s, FALSE) = [table |-> "", action |-> s]
        /\ Alter(s, TRUE) = [table |-> "", action |-> s]
    BY <1>1 DEF Alter
  <2> QED
    BY <2>1
<1>2. CASE Alters
  <2>1. At(s, table) # "" /\ At(s, second) # "" /\ At(s, name) # ""
    BY <1>2 DEF IsWord
  <2>2. N \in Nat /\ table \in 1 .. N /\ second \in 1 .. N /\ name \in 1 .. N
    <3>1. N \in Nat
      OBVIOUS
    <3> HIDE DEF table, second, name
    <3> QED
      BY <2>1, <3>1, AtIs
  <2>3. from \in name + 1 .. N + 1
    <3> HIDE DEF second, name
    <3> QED
      BY <2>2, AfterIs
  <2>4. from \in 1 .. N
    <3>1. from <= N
      BY <1>2
    <3> HIDE DEF from, N
    <3> QED
      BY <2>2, <2>3, <3>1
  <2> HIDE DEF from, second, name, table
  <2>5. \A q \in 1 .. N : s[q] # "\n"
    BY DEF OneLine
  <2>6. Stops(N + 1) /\ N + 1 \in from .. N + 1
    <3>1. N + 1 \notin 1 .. N
      BY <2>2
    <3>2. At(s, N + 1) = ""
      BY <3>1, AtIs
    <3>3. \A k \in from .. (N + 1) - 1 : k \in 1 .. N
      BY <2>2, <2>4
    <3>4. N + 1 \in from .. N + 1
      BY <2>2, <2>4
    <3> HIDE DEF N
    <3> QED
      BY <2>5, <3>2, <3>3, <3>4
  <2>7. ASSUME NEW q \in from .. N + 1, Stops(q)
        PROVE  q = N + 1
    <3>1. q \in 1 .. N => At(s, q) = s[q] /\ At(s, q) # ""
      BY AtIs
    <3>2. q \notin 1 .. N
      BY <2>5, <2>7, <3>1
    <3> HIDE DEF Stops
    <3> QED
      BY <2>2, <2>4, <3>2
  <2>8. stop = N + 1
    <3> HIDE DEF Stops, N
    <3> QED
      BY <2>6, <2>7
  <2>9. Alter(s, FALSE) = [table |-> s[name], action |-> SubSeq(s, from, stop - 1)]
    BY <1>2 DEF Alter, from, second, name, table
  <2>10. Alter(s, TRUE) = [table |-> s[name], action |-> SubSeq(s, from, (Len(s) + 1) - 1)]
    BY <1>2 DEF Alter, from, second, name, table
  <2> HIDE DEF stop
  <2> QED
    BY <2>8, <2>9, <2>10
<1> QED
  BY <1>1, <1>2

\* What the loop keeps lists for: tables, which are words, and the other statements.
Slots == Tokens \union {""}

\* A statement alters a table that is a word of the text, or none.
LEMMA TableIsWord ==
    ASSUME NEW s \in Seq(Tokens), NEW lines
    PROVE  Alter(s, lines).table \in Slots
<1> DEFINE table  == After(s, 0)
           second == After(s, table)
           name   == After(s, second)
           from   == After(s, name)
           Alters == /\ At(s, table) = "alter" /\ At(s, second) = "table"
                     /\ IsWord(At(s, name)) /\ from > name + 1 /\ from <= Len(s)
<1>1. CASE ~Alters
  BY <1>1 DEF Alter, Slots
<1>2. CASE Alters
  <2>1. Alter(s, lines).table = s[name]
    BY <1>2 DEF Alter
  <2>2. At(s, name) # ""
    BY <1>2 DEF IsWord
  <2> HIDE DEF name
  <2>3. name \in 1 .. Len(s)
    BY <2>2, AtIs
  <2> QED
    BY <2>1, <2>3, LengthIs DEF Slots
<1> QED
  BY <1>1, <1>2

\* The statements of a text are a finite number.
LEMMA PlacesOfStatements ==
    ASSUME NEW s \in Seq(Tokens)
    PROVE  /\ DOMAIN Statements(s, {}) \subseteq 0 .. Len(s)
           /\ IsFiniteSet(DOMAIN Statements(s, {}))
<1> DEFINE D == DOMAIN Statements(s, {})
<1>1. \A c \in D : c \in {0} \union Cuts(s, {})
  BY StatementIsText
<1>2. Cuts(s, {}) \in SUBSET (1 .. Len(s)) /\ Len(s) \in Nat
  BY CutsInside
<1>3. \A c \in D : c \in 0 .. Len(s)
  BY <1>1, <1>2
<1>4. IsFiniteSet(0 .. Len(s))
  <2>1. 0 \in Int /\ Len(s) \in Int
    BY <1>2
  <2> QED
    BY <2>1, FS_Interval
<1> HIDE DEF D
<1>5. D \in SUBSET (0 .. Len(s))
  BY <1>3
<1>6. IsFiniteSet(D)
  BY <1>4, <1>5, FS_Subset
<1> QED
  BY <1>5, <1>6 DEF D

\* What one turn of the loop makes of what was found so far.
AddStatement(s, c, groups) ==
    IF c \notin DOMAIN Statements(s, {}) THEN groups
    ELSE [groups EXCEPT ![Alter(Statements(s, {})[c], FALSE).table] =
             Append(@, Alter(Statements(s, {})[c], FALSE).action)]

Actions(s) == {Alter(Statements(s, {})[c], FALSE).action : c \in DOMAIN Statements(s, {})}
Groups(s) == [Slots -> Seq(Actions(s))]

LEMMA AddKeepsGroups ==
    ASSUME NEW s \in Seq(Tokens), NEW c, NEW groups \in Groups(s)
    PROVE  AddStatement(s, c, groups) \in Groups(s)
<1> DEFINE T == Slots
           X == Actions(s)
           x == Alter(Statements(s, {})[c], FALSE).table
           y == Alter(Statements(s, {})[c], FALSE).action
<1>1. groups \in [T -> Seq(X)]
  BY DEF Groups
<1>2. CASE c \in DOMAIN Statements(s, {})
  <2>1. y \in X
    BY <1>2 DEF Actions
  <2>2. x \in T
    BY <1>2, StatementIsText, TableIsWord
  <2>3. AddStatement(s, c, groups) = [groups EXCEPT ![x] = Append(@, y)]
    BY <1>2 DEF AddStatement
  <2> HIDE DEF T, X, x, y
  <2>4. groups[x] \in Seq(X)
    BY <1>1, <2>2
  <2>5. Append(groups[x], y) \in Seq(X)
    BY <2>1, <2>4
  <2>6. [groups EXCEPT ![x] = Append(@, y)] \in [T -> Seq(X)]
    BY <1>1, <2>2, <2>5
  <2> QED
    BY <2>3, <2>6 DEF Groups, T, X
<1>3. CASE c \notin DOMAIN Statements(s, {})
  BY <1>3 DEF AddStatement
<1> QED
  BY <1>2, <1>3

\* The loop over the statements, turn by turn.
LEMMA GroupsAre ==
    ASSUME NEW s \in Seq(Tokens)
    PROVE  \E f \in [0 .. Len(s) + 1 -> Groups(s)] :
              /\ tableGroups(s) = f[Len(s) + 1]
              /\ f[0] = [t \in Slots |-> <<>>]
              /\ \A n \in 1 .. Len(s) + 1 : f[n] = AddStatement(s, n - 1, f[n - 1])
<1> DEFINE M        == Len(s) + 1
           V        == Groups(s)
           none     == [t \in Slots |-> <<>>]
           Go(q, i) == AddStatement(s, i - 1, q)
           G        == [x \in (1 .. M) \X V |-> Go(x[2], x[1])]
<1>1. M \in Nat
  BY LengthIs
<1>2. none \in V
  <2> DEFINE X == Actions(s)
  <2>1. <<>> \in Seq(X)
    OBVIOUS
  <2> HIDE DEF X
  <2>2. none \in [Slots -> Seq(X)]
    BY <2>1
  <2> QED
    BY <2>2 DEF Groups, X
<1> HIDE DEF M, none
<1>3. \A i \in 1 .. M, q \in V : Go(q, i) \in V
  BY AddKeepsGroups
<1> HIDE DEF Go, V
<1>4. G \in [(1 .. M) \X V -> V] /\ \A i \in 1 .. M, q \in V : G[<<i, q>>] = Go(q, i)
  BY <1>3
<1> HIDE DEF G
<1>5. PICK f \in [0 .. M -> V] : Iterates(f, M, none, G)
  BY <1>1, <1>2, <1>4, FiniteRecursion, Zenon
<1>6. /\ 0 \in 0 .. M
      /\ \A i \in 0 .. M : i = 0 \/ (i \in 1 .. M /\ i - 1 \in 0 .. M)
      /\ \A i \in 1 .. M : i \in 0 .. M /\ i # 0 /\ i - 1 \in 0 .. M
  BY <1>1, PlacesOf, Zenon
<1>7. f[0] = none /\ \A i \in 1 .. M : f[i] = Go(f[i - 1], i)
  <2> SUFFICES ASSUME NEW i \in 1 .. M
               PROVE  f[0] = none /\ f[i] = Go(f[i - 1], i)
    BY <1>5, Zenon DEF Iterates
  <2>1. f[i - 1] \in V
    BY <1>6, Zenon
  <2> QED
    BY <1>4, <1>5, <2>1, Zenon DEF Iterates
<1> DEFINE Turn(q, i) == IF i - 1 \notin DOMAIN Statements(s, {}) THEN q
                         ELSE LET stmt == Alter(Statements(s, {})[i - 1], FALSE)
                              IN  [q EXCEPT ![stmt.table] = Append(@, stmt.action)]
           Loop(g) == g = [n \in 0 .. Len(s) + 1 |->
                        IF n = 0 THEN [t \in Tokens \union {""} |-> <<>>]
                        ELSE IF n - 1 \notin DOMAIN Statements(s, {}) THEN g[n - 1]
                        ELSE LET stmt == Alter(Statements(s, {})[n - 1], FALSE)
                             IN  [g[n - 1] EXCEPT ![stmt.table] = Append(@, stmt.action)]]
           loop == CHOOSE g : Loop(g)
<1>8. \A q, i : Go(q, i) = Turn(q, i)
  BY DEF Go, AddStatement
<1>9. \A g : Loop(g) <=> g = [n \in 0 .. M |-> IF n = 0 THEN none ELSE Turn(g[n - 1], n)]
  BY Zenon DEF M, none, Slots
<1> HIDE DEF Turn, Loop
<1>10. Loop(f)
  <2>1. \A n \in 0 .. M : f[n] = IF n = 0 THEN none ELSE Turn(f[n - 1], n)
    BY <1>6, <1>7, <1>8, Zenon
  <2>2. f = [n \in 0 .. M |-> f[n]]
    BY Zenon
  <2>3. f = [n \in 0 .. M |-> IF n = 0 THEN none ELSE Turn(f[n - 1], n)]
    BY <2>1, <2>2, Zenon
  <2> QED
    BY <1>9, <2>3, Zenon
<1>11. Loop(loop)
  BY <1>10, Zenon
<1> HIDE DEF loop
<1>12. /\ loop = [n \in 0 .. M |-> IF n = 0 THEN none ELSE Turn(loop[n - 1], n)]
  BY <1>9, <1>11, Zenon
<1>13. loop[0] = none /\ \A n \in 1 .. M : loop[n] = Turn(loop[n - 1], n)
  <2>1. \A n \in 0 .. M : loop[n] = IF n = 0 THEN none ELSE Turn(loop[n - 1], n)
    BY <1>12, Zenon
  <2> QED
    BY <1>6, <2>1, Zenon
<1>14. \A n \in 0 .. M : loop[n] = f[n]
  <2> DEFINE good == {n \in 0 .. M : loop[n] = f[n]}
  <2>1. 0 \in good
    BY <1>6, <1>7, <1>13, Zenon
  <2>2. ASSUME NEW n \in 1 .. M, n - 1 \in good
        PROVE  n \in good
    BY <1>6, <1>7, <1>8, <1>13, <2>2, Zenon
  <2>3. 0 .. M \subseteq good
    <3> HIDE DEF good
    <3> QED
      BY <1>1, <2>1, <2>2, UpTo
  <2> QED
    BY <2>3, Zenon
<1>15. tableGroups(s) = loop[M]
  BY DEF tableGroups, loop, Loop, M
<1>16. M \in 0 .. M
  BY <1>1
<1>17. tableGroups(s) = f[M]
  BY <1>14, <1>15, <1>16, Zenon
<1>18. \A n \in 1 .. M : f[n] = AddStatement(s, n - 1, f[n - 1])
  BY <1>7 DEF Go
<1> QED
  BY <1>5, <1>7, <1>17, <1>18, Zenon DEF M, V, none

\* The statements on a table that start before a place, and their actions in a list.
Here(s, t, n) == {c \in DOMAIN Statements(s, {}) : c < n /\ Alter(Statements(s, {})[c], FALSE).table = t}
Rank(S, c) == Cardinality({d \in S : d <= c})
Listed(q, s, t, n) ==
    /\ Len(q) = Cardinality(Here(s, t, n))
    /\ \A c \in Here(s, t, n) : q[Rank(Here(s, t, n), c)] = Alter(Statements(s, {})[c], FALSE).action

\* A number above all others of a set has the last rank and leaves the others theirs.
LEMMA LastRank ==
    ASSUME NEW S, NEW n \in Nat, IsFiniteSet(S), \A c \in S : c \in Nat /\ c < n
    PROVE  /\ IsFiniteSet(S \union {n}) /\ Cardinality(S) \in Nat
           /\ Cardinality(S \union {n}) = Cardinality(S) + 1
           /\ Rank(S \union {n}, n) = Cardinality(S) + 1
           /\ \A c \in S : /\ Rank(S \union {n}, c) = Rank(S, c)
                            /\ Rank(S, c) \in 1 .. Cardinality(S)
<1>1. n \notin S
  OBVIOUS
<1>2. IsFiniteSet(S \union {n}) /\ Cardinality(S \union {n}) = Cardinality(S) + 1 /\ Cardinality(S) \in Nat
  BY <1>1, FS_AddElement, FS_CardinalityType
<1>3. {d \in S \union {n} : d <= n} = S \union {n}
  OBVIOUS
<1>4. ASSUME NEW c \in S
      PROVE  Rank(S \union {n}, c) = Rank(S, c) /\ Rank(S, c) \in 1 .. Cardinality(S)
  <2> DEFINE below == {d \in S : d <= c}
  <2>1. {d \in S \union {n} : d <= c} = below
    OBVIOUS
  <2>2. below \in SUBSET S /\ c \in below
    OBVIOUS
  <2> HIDE DEF below
  <2>3. IsFiniteSet(below) /\ Cardinality(below) <= Cardinality(S) /\ Cardinality(below) \in Nat
    BY <2>2, FS_Subset, FS_CardinalityType
  <2>4. Cardinality(below) # 0
    BY <2>2, <2>3, FS_EmptySet
  <2>5. Cardinality(below) \in 1 .. Cardinality(S)
    BY <1>2, <2>3, <2>4
  <2> QED
    BY <2>1, <2>5 DEF Rank, below
<1> QED
  BY <1>2, <1>3, <1>4 DEF Rank

LEMMA HereFinite ==
    ASSUME NEW s \in Seq(Tokens), NEW t, NEW n
    PROVE  IsFiniteSet(Here(s, t, n)) /\ \A c \in Here(s, t, n) : c \in Nat /\ c < n
<1>1. Here(s, t, n) \in SUBSET DOMAIN Statements(s, {})
  BY DEF Here
<1>2. \A c \in DOMAIN Statements(s, {}) : c \in Nat
  BY PlacesOfStatements
<1> QED
  BY <1>1, <1>2, PlacesOfStatements, FS_Subset DEF Here

\* One more in a list.
LEMMA LongerList ==
    ASSUME NEW X, NEW q \in Seq(X), NEW x \in X
    PROVE  /\ Len(q) \in Nat /\ Len(Append(q, x)) = Len(q) + 1
           /\ Append(q, x)[Len(q) + 1] = x
           /\ \A i \in 1 .. Len(q) : Append(q, x)[i] = q[i]
  OBVIOUS

\* A turn of the loop keeps each table's list what it should be.
LEMMA TurnKeepsLists ==
    ASSUME NEW s \in Seq(Tokens), NEW n \in Nat, NEW groups \in Groups(s), NEW t \in Slots,
           Listed(groups[t], s, t, n)
    PROVE  Listed(AddStatement(s, n, groups)[t], s, t, n + 1)
<1> DEFINE all == Statements(s, {})
           x   == Alter(all[n], FALSE).table
           y   == Alter(all[n], FALSE).action
           S   == Here(s, t, n)
           X   == Actions(s)
<1>1. groups \in [Slots -> Seq(X)]
  BY DEF Groups
<1>2. CASE n \in DOMAIN all /\ x = t
  <2>1. Here(s, t, n + 1) = S \union {n}
    <3>1. \A c \in DOMAIN all : c \in Nat
      BY PlacesOfStatements
    <3>2. \A c \in DOMAIN all : c < n + 1 <=> c < n \/ c = n
      BY <3>1
    <3>3. \A c : c \in Here(s, t, n + 1) <=> c \in DOMAIN all /\ c < n + 1 /\ Alter(all[c], FALSE).table = t
      BY DEF Here
    <3>4. \A c : c \in S <=> c \in DOMAIN all /\ c < n /\ Alter(all[c], FALSE).table = t
      BY DEF Here
    <3> HIDE DEF S, all
    <3>5. \A c : c \in Here(s, t, n + 1) <=> c \in S \union {n}
      BY <1>2, <3>1, <3>2, <3>3, <3>4
    <3> QED
      BY <3>5
  <2>2. AddStatement(s, n, groups)[t] = Append(groups[t], y)
    <3>1. AddStatement(s, n, groups) = [groups EXCEPT ![t] = Append(@, y)]
      BY <1>2 DEF AddStatement
    <3> HIDE DEF y
    <3> QED
      BY <1>1, <3>1
  <2>3. y \in X /\ groups[t] \in Seq(X)
    BY <1>1, <1>2 DEF Actions
  <2>4. /\ Len(groups[t]) = Cardinality(S)
        /\ \A c \in S : groups[t][Rank(S, c)] = Alter(all[c], FALSE).action
    BY DEF Listed
  <2> DEFINE q == groups[t]
             w == Append(q, y)
  <2> HIDE DEF X, S, y, q
  <2>5. /\ Len(q) \in Nat /\ Len(w) = Len(q) + 1 /\ w[Len(q) + 1] = y
        /\ \A i \in 1 .. Len(q) : w[i] = q[i]
    BY <2>3, LongerList DEF q
  <2>6. /\ Cardinality(S \union {n}) = Cardinality(S) + 1
        /\ Rank(S \union {n}, n) = Cardinality(S) + 1
        /\ \A c \in S : Rank(S \union {n}, c) = Rank(S, c) /\ Rank(S, c) \in 1 .. Cardinality(S)
    BY HereFinite, LastRank DEF S
  <2> HIDE DEF w
  <2>7. \A c \in S : w[Rank(S \union {n}, c)] = Alter(all[c], FALSE).action
    BY <2>4, <2>5, <2>6 DEF q
  <2>8. w[Rank(S \union {n}, n)] = Alter(all[n], FALSE).action
    BY <2>4, <2>5, <2>6 DEF q, y
  <2>9. Len(w) = Cardinality(S \union {n})
    BY <2>4, <2>5, <2>6 DEF q
  <2> QED
    BY <2>1, <2>2, <2>7, <2>8, <2>9 DEF Listed, w, q
<1>3. CASE ~(n \in DOMAIN all /\ x = t)
  <2>1. Here(s, t, n + 1) = S
    <3>1. \A c \in DOMAIN all : c \in Nat
      BY PlacesOfStatements
    <3>2. \A c \in DOMAIN all : c < n + 1 <=> c < n \/ c = n
      BY <3>1
    <3> QED
      BY <1>3, <3>2 DEF Here
  <2>2. AddStatement(s, n, groups)[t] = groups[t]
    <3>1. CASE n \notin DOMAIN all
      BY <3>1 DEF AddStatement
    <3>2. CASE n \in DOMAIN all
      <4>1. AddStatement(s, n, groups) = [groups EXCEPT ![x] = Append(@, y)] /\ x # t
        BY <1>3, <3>2 DEF AddStatement
      <4> HIDE DEF x, y
      <4> QED
        BY <1>1, <4>1
    <3> QED
      BY <3>1, <3>2
  <2> QED
    BY <2>1, <2>2 DEF Listed
<1> QED
  BY <1>2, <1>3

\* So the lists of the loop have the actions of the whole text.
LEMMA GroupsInTextOrder ==
    ASSUME NEW s \in Seq(Tokens), OneLine(s), NEW t \in Slots
    PROVE  InTextOrder(tableGroups(s)[t], s, t)
<1> DEFINE all == Statements(s, {})
           M   == Len(s) + 1
<1>1. PICK f \in [0 .. M -> Groups(s)] :
         /\ tableGroups(s) = f[M]
         /\ f[0] = [u \in Slots |-> <<>>]
         /\ \A n \in 1 .. M : f[n] = AddStatement(s, n - 1, f[n - 1])
  BY GroupsAre, Zenon
<1>2. M \in Nat /\ Len(s) \in Nat
  BY LengthIs
<1> DEFINE good == {n \in 0 .. M : Listed(f[n][t], s, t, n)}
<1>3. 0 \in good
  <2>1. Here(s, t, 0) = {}
    BY HereFinite
  <2>2. f[0][t] = <<>>
    BY <1>1, Zenon
  <2>3. Len(<<>>) = 0 /\ Cardinality({}) = 0
    BY FS_EmptySet
  <2>4. Listed(f[0][t], s, t, 0)
    BY <2>1, <2>2, <2>3, Zenon DEF Listed
  <2> QED
    BY <1>2, <2>4
<1>4. ASSUME NEW n \in 1 .. M, n - 1 \in good
      PROVE  n \in good
  <2> DEFINE m == n - 1
  <2>1. m \in Nat /\ m + 1 = n /\ m \in 0 .. M /\ n \in 0 .. M
    BY <1>2
  <2>2. Listed(f[m][t], s, t, m) /\ f[n] = AddStatement(s, m, f[m])
    BY <1>1, <1>4, Zenon
  <2> HIDE DEF m
  <2>3. f[m] \in Groups(s)
    BY <2>1, Zenon
  <2>4. Listed(f[n][t], s, t, m + 1)
    BY <2>1, <2>2, <2>3, TurnKeepsLists, Zenon
  <2> QED
    BY <2>1, <2>4
<1>5. M \in good
  <2>1. M \in 0 .. M
    BY <1>2
  <2> HIDE DEF good, M
  <2> QED
    BY <1>2, <1>3, <1>4, <2>1, UpTo
<1>6. Listed(tableGroups(s)[t], s, t, M)
  BY <1>1, <1>5, Zenon
<1>7. \A c \in DOMAIN all : Alter(all[c], FALSE) = Alter(all[c], TRUE)
  BY StatementIsText, StatementOnOneLine, AlterOnOneLine
<1> DEFINE S == {c \in DOMAIN all : Alter(all[c], TRUE).table = t}
<1>8. Here(s, t, M) = S
  <2>1. \A c \in DOMAIN all : c < M
    BY <1>2, PlacesOfStatements
  <2> QED
    BY <1>7, <2>1 DEF Here
<1>9. \A c \in S : Alter(all[c], FALSE).action = Alter(all[c], TRUE).action
  BY <1>7
<1> QED
  BY <1>6, <1>8, <1>9, Zenon DEF Listed, Rank, InTextOrder

\* A list is empty when there is nothing to put into it, and only then.
LEMMA EmptyList ==
    ASSUME NEW X, NEW q \in Seq(X)
    PROVE  q = <<>> <=> Len(q) = 0
  OBVIOUS

\* The tables that have a list are those that are altered, finitely many.
LEMMA ListedTables ==
    ASSUME NEW s \in Seq(Tokens), OneLine(s)
    PROVE  /\ {t \in Tokens : tableGroups(s)[t] # <<>>} = Tables(s)
           /\ IsFiniteSet(Tables(s)) /\ "" \notin Tables(s) /\ Tables(s) \subseteq Tokens
<1> DEFINE all == Statements(s, {})
           D   == DOMAIN all
           g   == [c \in D |-> Alter(all[c], TRUE).table]
           T   == {Alter(all[c], TRUE).table : c \in D}
<1>1. IsFiniteSet(D)
  BY PlacesOfStatements
<1>2. g \in Surjection(D, T)
  <2> HIDE DEF D, all
  <2> QED
    BY DEF Surjection
<1>3. IsFiniteSet(T)
  <2> HIDE DEF D, g, T, all
  <2> QED
    BY <1>1, <1>2, FS_Surjection
<1>4. Tables(s) = T \ {""}
  BY DEF Tables
<1>5. IsFiniteSet(Tables(s))
  <2> HIDE DEF T
  <2> QED
    BY <1>3, <1>4, FS_Difference
<1>6. Tables(s) \subseteq Tokens
  <2>1. \A c \in D : Alter(all[c], TRUE).table \in Slots
    BY StatementIsText, TableIsWord
  <2> QED
    BY <1>4, <2>1 DEF Slots
<1>7. tableGroups(s) \in Groups(s)
  <2>1. Len(s) + 1 \in 0 .. Len(s) + 1
    BY LengthIs
  <2>2. PICK f \in [0 .. Len(s) + 1 -> Groups(s)] : tableGroups(s) = f[Len(s) + 1]
    BY GroupsAre, Zenon
  <2> QED
    BY <2>1, <2>2, Zenon
<1>8. ASSUME NEW t \in Tokens
      PROVE  tableGroups(s)[t] # <<>> <=> t \in Tables(s)
  <2> DEFINE here == {c \in D : Alter(all[c], TRUE).table = t}
             q    == tableGroups(s)[t]
  <2>1. Len(q) = Cardinality(here)
    BY GroupsInTextOrder DEF InTextOrder, Slots
  <2>2. q \in Seq(Actions(s))
    BY <1>7 DEF Groups, Slots
  <2>3. IsFiniteSet(here)
    <3>1. here \in SUBSET D
      OBVIOUS
    <3> HIDE DEF here, D
    <3> QED
      BY <1>1, <3>1, FS_Subset
  <2>4. here # {} <=> t \in T
    OBVIOUS
  <2>5. t # ""
    BY TextAssumption
  <2> HIDE DEF here, q, T
  <2>6. q = <<>> <=> here = {}
    <3>1. q = <<>> <=> Len(q) = 0
      BY <2>2, EmptyList
    <3>2. Cardinality(here) = 0 <=> here = {}
      BY <2>3, FS_EmptySet
    <3> QED
      BY <2>1, <3>1, <3>2
  <2> QED
    BY <1>4, <2>4, <2>5, <2>6 DEF q
<1> QED
  BY <1>4, <1>5, <1>6, <1>8

\* A list that has as many elements as a set, all different and all of the set, has them all.
LEMMA ListsAll ==
    ASSUME NEW S, IsFiniteSet(S), NEW order \in SetToSeqs(S), NEW t \in S
    PROVE  \E i \in 1 .. Cardinality(S) : order[i] = t
<1> DEFINE N == Cardinality(S)
           D == 1 .. N
<1>1. N \in Nat /\ order \in [D -> S] /\ \A i, j \in D : i # j => order[i] # order[j]
  BY FS_CardinalityType DEF SetToSeqs
<1>2. SUFFICES ASSUME \A i \in D : order[i] # t
               PROVE  FALSE
  OBVIOUS
<1> DEFINE T == S \ {t}
<1>3. IsFiniteSet(T) /\ Cardinality(T) = N - 1
  BY FS_RemoveElement
<1>4. IsFiniteSet(D) /\ Cardinality(D) = N
  <2>1. 1 \in Int /\ N \in Int
    BY <1>1
  <2>2. IsFiniteSet(1 .. N) /\ Cardinality(1 .. N) = IF 1 > N THEN 0 ELSE N - 1 + 1
    BY <2>1, FS_Interval
  <2> HIDE DEF N
  <2> QED
    BY <1>1, <2>2
<1>5. order \in [D -> T] /\ Cardinality(T) < Cardinality(D)
  <2> HIDE DEF N
  <2> QED
    BY <1>1, <1>2, <1>3, <1>4
<1>6. \E i, j \in D : i # j /\ order[i] = order[j]
  <2> HIDE DEF D, T
  <2> QED
    BY <1>3, <1>4, <1>5, FS_PigeonHole
<1> QED
  BY <1>1, <1>6

\* One more at the end of a list.
LEMMA OneMore ==
    ASSUME NEW R, NEW f \in Seq(R), NEW x \in R
    PROVE  /\ DOMAIN (f \o <<x>>) = 1 .. Len(f) + 1
           /\ \A i \in 1 .. Len(f) + 1 : (f \o <<x>>)[i] = IF i <= Len(f) THEN f[i] ELSE x
  OBVIOUS

\* A list is made of what is put into it.
LEMMA ListIs ==
    ASSUME NEW n \in Nat, NEW R, NEW g, \A i \in 1 .. n : g[i] \in R
    PROVE  /\ [i \in 1 .. n |-> g[i]] \in Seq(R) /\ Len([i \in 1 .. n |-> g[i]]) = n
  OBVIOUS

\* The rows of the merge, in whatever order, and what each of them holds.
LEMMA MergeKeeps == text \in Seq(Tokens) => MergeKeepsActions
<1> SUFFICES ASSUME text \in Seq(Tokens), OneLine(text),
                    NEW merged \in mergeAlterStatements(text)
             PROVE  /\ \A t \in Tables(text) \union {""} : \E i \in DOMAIN merged : merged[i].table = t
                    /\ \A i, j \in DOMAIN merged : merged[i].table = merged[j].table => i = j
                    /\ \A i \in DOMAIN merged : InTextOrder(merged[i].actions, text, merged[i].table)
  BY DEF MergeKeepsActions
<1> DEFINE S       == Tables(text)
           N       == Cardinality(S)
           Row(t)  == [table |-> t, actions |-> tableGroups(text)[t]]
           rest    == ""
<1>1. PICK order \in SetToSeqs(S) : merged = [i \in DOMAIN order |-> Row(order[i])] \o <<Row(rest)>>
  BY ListedTables DEF mergeAlterStatements
<1>2. IsFiniteSet(S) /\ N \in Nat /\ rest \notin S /\ S \subseteq Tokens
  BY ListedTables, FS_CardinalityType
<1>3. /\ DOMAIN order = 1 .. N /\ \A i \in 1 .. N : order[i] \in S
      /\ \A i, j \in 1 .. N : i # j => order[i] # order[j]
  BY DEF SetToSeqs
<1>4. \A t \in S \union {rest} : Row(t).table = t /\ InTextOrder(Row(t).actions, text, t)
  <2>1. \A t \in S \union {rest} : t \in Slots
    BY <1>2 DEF Slots
  <2> QED
    BY <2>1, GroupsInTextOrder
<1> DEFINE f == [i \in 1 .. N |-> Row(order[i])]
           R == {f[i] : i \in 1 .. N} \union {Row(rest)}
<1>5. merged = f \o <<Row(rest)>>
  BY <1>1, <1>3
<1> HIDE DEF Row, N, S, rest
<1>6. /\ \A i \in 1 .. N : f[i] = Row(order[i]) /\ f[i] \in R
      /\ f = [i \in 1 .. N |-> f[i]]
  OBVIOUS
<1>7. Row(rest) \in R
  OBVIOUS
<1> HIDE DEF f, R
<1>8. f \in Seq(R) /\ Len(f) = N
  <2>1. /\ [i \in 1 .. N |-> f[i]] \in Seq(R) /\ Len([i \in 1 .. N |-> f[i]]) = N
    BY <1>2, <1>6, ListIs
  <2> QED
    BY <1>6, <2>1, Zenon
<1>9. /\ DOMAIN merged = 1 .. N + 1
      /\ \A i \in 1 .. N + 1 : merged[i] = IF i <= N THEN f[i] ELSE Row(rest)
  <2>1. /\ DOMAIN (f \o <<Row(rest)>>) = 1 .. Len(f) + 1
        /\ \A i \in 1 .. Len(f) + 1 : (f \o <<Row(rest)>>)[i] = IF i <= Len(f) THEN f[i] ELSE Row(rest)
    BY <1>7, <1>8, OneMore
  <2> QED
    BY <1>5, <1>8, <2>1, Zenon
<1> DEFINE key(i) == IF i \in 1 .. N THEN order[i] ELSE rest
<1>10. ASSUME NEW i \in DOMAIN merged
       PROVE  merged[i] = Row(key(i)) /\ key(i) \in S \union {rest}
  <2>1. i \in 1 .. N + 1 /\ (i <= N <=> i \in 1 .. N)
    BY <1>2, <1>9
  <2> QED
    BY <1>3, <1>6, <1>9, <2>1
<1>11. \A i \in DOMAIN merged : /\ merged[i].table = key(i)
                              /\ InTextOrder(merged[i].actions, text, key(i))
  BY <1>4, <1>10
<1>12. ASSUME NEW i \in DOMAIN merged, NEW j \in DOMAIN merged, key(i) = key(j)
       PROVE  i = j
  <2>1. i \in 1 .. N + 1 /\ j \in 1 .. N + 1
    BY <1>9
  <2>2. i \in 1 .. N => order[i] # rest
    BY <1>2, <1>3
  <2>3. j \in 1 .. N => order[j] # rest
    BY <1>2, <1>3
  <2>4. CASE i \in 1 .. N /\ j \in 1 .. N
    BY <1>3, <1>12, <2>4
  <2>5. CASE i \notin 1 .. N /\ j \notin 1 .. N
    BY <1>2, <2>1, <2>5
  <2> QED
    BY <1>12, <2>2, <2>3, <2>4, <2>5
<1>13. ASSUME NEW t \in S \union {rest}
       PROVE  \E i \in DOMAIN merged : key(i) = t
  <2>1. CASE t \in S
    <3>1. PICK i \in 1 .. N : order[i] = t
      BY <1>2, <2>1, ListsAll DEF N
    <3>2. i \in 1 .. N + 1
      BY <1>2
    <3> QED
      BY <1>9, <3>1, <3>2
  <2>2. CASE t = rest
    <3>1. N + 1 \in 1 .. N + 1 /\ N + 1 \notin 1 .. N
      BY <1>2
    <3> QED
      BY <1>9, <2>2, <3>1
  <2> QED
    BY <2>1, <2>2
<1> HIDE DEF key
<1>14. \A t \in S \union {rest} : \E i \in DOMAIN merged : merged[i].table = t
  BY <1>11, <1>13, Zenon
<1>15. \A i, j \in DOMAIN merged : merged[i].table = merged[j].table => i = j
  BY <1>11, <1>12, Zenon
<1>16. \A i \in DOMAIN merged : InTextOrder(merged[i].actions, text, merged[i].table)
  BY <1>11, Zenon
<1> QED
  BY <1>14, <1>15, <1>16 DEF S, rest

-----------------------------------------------------------------------------
(***************************************************************************)
(* What holds in every state.                                              *)
(***************************************************************************)

\* A text with a phrase added is a text.
LEMMA TextGrows ==
    ASSUME NEW s \in Seq(Tokens), NEW p \in Phrases
    PROVE  s \o p \in Seq(Tokens)
<1>1. p \in Seq(Tokens)
  BY TextAssumption
<1> QED
  BY <1>1

\* A list of rules changes at a place and grows at its end.
LEMMA RulesChange ==
    ASSUME NEW R, NEW q \in Seq(R), NEW x \in R
    PROVE  /\ Append(q, x) \in Seq(R) /\ Len(Append(q, x)) = Len(q) + 1
           /\ \A i \in DOMAIN q : [q EXCEPT ![i] = x] \in Seq(R) /\ Len([q EXCEPT ![i] = x]) = Len(q)
  OBVIOUS

\* Every step leaves texts, rules and ids what they are.
LEMMA TypesKept == TypeOK /\ [Next]_vars => TypeOK'
<1> SUFFICES ASSUME TypeOK, [Next]_vars
             PROVE  TypeOK'
  OBVIOUS
<1> DEFINE R == Rules \union {None}
<1>1. /\ text \in Seq(Tokens) /\ phrases \in 0 .. MaxPhrases /\ glo \in Rules
      /\ rules \in Seq(R) /\ ruleId \in 0 .. Len(rules) /\ Len(rules) \in Nat
      /\ DOMAIN rules = 1 .. Len(rules)
  BY LengthIs DEF TypeOK
<1>2. None \in R /\ Rules \subseteq R
  OBVIOUS
<1>3. ASSUME NEW p \in Phrases, TypeText(p)
      PROVE  TypeOK'
  <2>1. text' \in Seq(Tokens)
    BY <1>1, <1>3, TextGrows DEF TypeText
  <2>2. phrases' \in 0 .. MaxPhrases
    <3>1. phrases' = phrases + 1 /\ phrases < MaxPhrases
      BY <1>3, Zenon DEF TypeText
    <3>2. MaxPhrases \in Nat /\ phrases \in 0 .. MaxPhrases
      BY <1>1, TextAssumption, Zenon
    <3> QED
      BY <3>1, <3>2
  <2> QED
    BY <1>1, <1>3, <2>1, <2>2 DEF TypeText, TypeOK
<1>4. ASSUME NEW r \in Rules, SuperSaveRoles(r)
      PROVE  TypeOK'
  BY <1>1, <1>4 DEF SuperSaveRoles, TypeOK
<1>5. ASSUME NEW r \in Rules, SuperRolesAdd(r)
      PROVE  TypeOK'
  <2>1. rules' \in Seq(R) /\ Len(rules') = Len(rules) + 1
    <3>1. r \in R /\ rules' = Append(rules, r)
      BY <1>2, <1>5 DEF SuperRolesAdd
    <3> HIDE DEF R
    <3> QED
      BY <1>1, <3>1, RulesChange
  <2>2. ruleId \in 0 .. Len(rules')
    BY <1>1, <2>1
  <2> QED
    BY <1>1, <1>5, <2>1, <2>2 DEF SuperRolesAdd, TypeOK
<1>6. ASSUME NEW r \in Rules, NEW i \in DOMAIN rules, SuperRoleUpdate(i, r)
      PROVE  TypeOK'
  <2>1. rules' \in Seq(R) /\ Len(rules') = Len(rules)
    <3>1. r \in R /\ (rules' = rules \/ rules' = [rules EXCEPT ![i] = r])
      BY <1>2, <1>6 DEF SuperRoleUpdate
    <3> HIDE DEF R
    <3> QED
      BY <1>1, <3>1, RulesChange
  <2> QED
    BY <1>1, <1>6, <2>1 DEF SuperRoleUpdate, TypeOK
<1>7. ASSUME NEW i \in DOMAIN rules, SuperRoleDelete(i)
      PROVE  TypeOK'
  <2>1. rules' \in Seq(R) /\ Len(rules') = Len(rules)
    <3>1. rules' = [rules EXCEPT ![i] = None]
      BY <1>7 DEF SuperRoleDelete
    <3> HIDE DEF R
    <3> QED
      BY <1>1, <1>2, <3>1, RulesChange
  <2> QED
    BY <1>1, <1>7, <2>1 DEF SuperRoleDelete, TypeOK
<1>8. ASSUME NEW i \in {0} \union {j \in DOMAIN rules : rules[j] # None}, AssignRule(i)
      PROVE  TypeOK'
  <2>1. i \in 0 .. Len(rules)
    BY <1>1
  <2> QED
    BY <1>1, <1>8, <2>1 DEF AssignRule, TypeOK
<1>9. CASE UNCHANGED vars
  BY <1>1, <1>9 DEF vars, TypeOK
<1> QED
  BY <1>3, <1>4, <1>5, <1>6, <1>7, <1>8, <1>9 DEF Next

\* What is written is always a text and the rule of the source always a row that there
\* is or was: deleting a rule (roles.go:55) leaves the others their ids.
THEOREM RulesKeepTheirIds == Spec => []TypeOK
<1>1. Init => TypeOK
  <2> SUFFICES ASSUME Init
               PROVE  TypeOK
    OBVIOUS
  <2>1. text \in Seq(Tokens) /\ rules \in Seq(Rules \union {None}) /\ Len(rules) = 0
    BY DEF Init
  <2>2. phrases \in 0 .. MaxPhrases
    <3>1. phrases = 0
      BY DEF Init
    <3>2. MaxPhrases \in Nat
      BY TextAssumption, Zenon
    <3> QED
      BY <3>1, <3>2
  <2>3. ruleId \in 0 .. Len(rules)
    <3>1. ruleId = 0
      BY DEF Init
    <3> QED
      BY <2>1, <3>1
  <2>4. glo \in Rules
    BY DEF Init
  <2> QED
    BY <2>1, <2>2, <2>3, <2>4 DEF TypeOK
<1> QED
  BY <1>1, TypesKept, PTL DEF Spec

\* Whatever is written: under a rule with DMLWhere every UPDATE and DELETE that passes
\* has a WHERE (builtin_checker.go:116), and under any rule an UPDATE on one line of a table
\* that is named by a plain word (builtin_checker.go:185).
THEOREM UpdatesNameWhere == Spec => []UpdateNamesWhere
<1>1. TypeOK => UpdateNamesWhere
  BY WhereIsNamed DEF TypeOK
<1> QED
  BY <1>1, RulesKeepTheirIds, PTL

\* When all statements of a text with one kind of quotes pass, and its backslashes only
\* escape quotes, the cut at every semicolon (builtin_checker.go:203) is the one a database
\* makes: the checker sees the statements that are executed.
THEOREM PassingTextsAreNotCut == Spec => []PassedIsNotCut
<1>1. TypeOK => PassedIsNotCut
  BY PassingIsWhole DEF TypeOK
<1> QED
  BY <1>1, RulesKeepTheirIds, PTL

\* The loop of mergeAlterStatements (juno_engine.go:123) leaves one row for each altered
\* table with every action on it, each once and in the order of the text, and one for the
\* other statements, if each statement is on one line.
THEOREM MergeLosesNothing == Spec => []MergeKeepsActions
<1>1. TypeOK => MergeKeepsActions
  BY MergeKeeps DEF TypeOK
<1> QED
  BY <1>1, RulesKeepTheirIds, PTL

====

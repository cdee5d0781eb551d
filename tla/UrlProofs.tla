------------------------------ MODULE UrlProofs ------------------------------
(***************************************************************************)
(* The URL parser on every text, however long: what its searches find, and *)
(* that it accepts exactly the texts the reference accepts.                *)
(***************************************************************************)
EXTENDS Url, SequenceTheorems, WellFoundedInduction, TLAPS

\* The least-number principle for sets, from the library's well-foundedness.
LEMMA NatWellOrdered ==
  ASSUME NEW S, S \subseteq Nat, S # {}
  PROVE  \E x \in S : \A y \in S : x <= y
<1> DEFINE Less == {p \in Nat \X Nat : p[1] < p[2]}
<1>1. IsWellFoundedOn(Less, Nat)
  BY NatLessThanWellFounded DEF OpToRel
<1>2. PICK x \in S : \A y \in S : <<y, x>> \notin Less
  BY <1>1, WFMin
<1>3. \A y \in S : y \in Nat
  OBVIOUS
<1>4. \A y \in S : y < x => <<y, x>> \in Less
  BY <1>3
<1>5. \A y \in S : ~(y < x)
  BY <1>2, <1>4
<1>6. \A y \in S : x <= y
  BY <1>3, <1>5
<1> QED
  BY <1>6

LEMMA MinIsLeast ==
  ASSUME NEW S, S \subseteq Nat, S # {}
  PROVE  Min(S) \in S /\ \A y \in S : Min(S) <= y
BY NatWellOrdered DEF Min

\* The separators are their only spelling.
LEMMA TokenKinds ==
  ASSUME NEW t \in Token, NEW c \in {":", "/", "?"}
  PROVE  t.kind = c <=> t = Mark(c)
BY DEF Token, Mark, Word, Capitals

LEMMA TextType ==
  ASSUME NEW text \in Text
  PROVE  /\ Len(text) \in Nat
         /\ End(text) = Len(text) + 1
         /\ DOMAIN text = 1..Len(text)
         /\ \A k \in 1..Len(text) : text[k] \in Token
BY LenProperties, ElementOfSeq DEF Text, End

-----------------------------------------------------------------------------
\* The searches stop at the first match or at the end.
LEMMA FindStops ==
  ASSUME NEW text \in Text, NEW i \in 1..End(text), NEW c
  PROVE  LET f == Find(text, i, c) IN
         /\ f \in i..End(text)
         /\ f # End(text) => text[f].kind = c
         /\ \A k \in i..(f - 1) : text[k].kind # c
<1> DEFINE S == {k \in i..Len(text) : text[k].kind = c} \cup {End(text)}
           f == Find(text, i, c)
<1>1. Len(text) \in Nat /\ End(text) = Len(text) + 1
  BY TextType
<1>2. S \subseteq i..End(text) /\ S \subseteq Nat /\ S # {}
  BY <1>1
<1>3. f \in S /\ \A y \in S : f <= y
  BY <1>2, MinIsLeast DEF Find
<1> HIDE DEF f
<1>4. f \in i..End(text) /\ (f # End(text) => text[f].kind = c)
  BY <1>1, <1>2, <1>3
<1>5. ASSUME NEW k \in i..(f - 1), text[k].kind = c
      PROVE  FALSE
  <2>1. k \in i..Len(text) /\ k < f
    BY <1>1, <1>4
  <2>2. k \in S
    BY <2>1, <1>5
  <2> QED
    BY <1>1, <1>3, <1>4, <2>1, <2>2
<1> QED
  BY <1>4, <1>5 DEF f

LEMMA FindFirst ==
  ASSUME NEW text \in Text, NEW i \in 1..End(text), NEW c,
         NEW j \in i..End(text),
         j # End(text) => text[j].kind = c,
         \A k \in i..(j - 1) : text[k].kind # c
  PROVE  Find(text, i, c) = j
<1> DEFINE f == Find(text, i, c)
<1>1. /\ f \in i..End(text)
      /\ f # End(text) => text[f].kind = c
      /\ \A k \in i..(f - 1) : text[k].kind # c
  BY FindStops
<1>2. Len(text) \in Nat /\ End(text) = Len(text) + 1
  BY TextType
<1> HIDE DEF f
<1>3. f \in Int /\ j \in Int /\ i \in Int
  BY <1>1, <1>2
<1>4. ~(f < j)
  <2> SUFFICES ASSUME f < j PROVE FALSE
    OBVIOUS
  <2>1. f \in i..(j - 1) /\ f # End(text)
    BY <1>1, <1>2, <1>3
  <2> QED
    BY <2>1, <1>1
<1>5. ~(j < f)
  <2> SUFFICES ASSUME j < f PROVE FALSE
    OBVIOUS
  <2>1. j \in i..(f - 1) /\ j # End(text)
    BY <1>1, <1>2, <1>3
  <2> QED
    BY <2>1, <1>1
<1> QED
  BY <1>3, <1>4, <1>5 DEF f

LEMMA ProtEndStops ==
  ASSUME NEW text \in Text
  PROVE  LET f == FindProtEnd(text) IN
         /\ f = End(text) \/ f \in 1..(Len(text) - 2)
         /\ f # End(text) => SubSeq(text, f, f + 2) = ProtEnd
         /\ \A k \in 1..(Len(text) - 2) :
              SubSeq(text, k, k + 2) = ProtEnd => f <= k
<1> DEFINE S == {k \in 1..(Len(text) - 2) : SubSeq(text, k, k + 2) = ProtEnd}
                  \cup {End(text)}
<1>1. Len(text) \in Nat /\ End(text) = Len(text) + 1
  BY TextType
<1>2. S \subseteq Nat /\ S # {}
  BY <1>1
<1>3. FindProtEnd(text) \in S /\ \A y \in S : FindProtEnd(text) <= y
  BY <1>2, MinIsLeast DEF FindProtEnd
<1> QED
  BY <1>3

-----------------------------------------------------------------------------
\* What a half-open range of the text is.
LEMMA SliceIs ==
  ASSUME NEW text \in Text, NEW i \in 1..(End(text) + 1), NEW j \in 1..End(text)
  PROVE  /\ Slice(text, i, j) \in Text
         /\ Len(Slice(text, i, j)) = IF i < j THEN j - i ELSE 0
         /\ \A k \in 1..(j - i) : Slice(text, i, j)[k] = text[i + k - 1]
         /\ Slice(text, i, j) = <<>> <=> j <= i
         /\ i < j => Slice(text, i, j)[1] = text[i]
<1> DEFINE s == Slice(text, i, j)
<1>1. Len(text) \in Nat /\ End(text) = Len(text) + 1
  BY TextType
<1>2. \A k \in i..(j - 1) : text[k] \in Token
  BY <1>1, TextType
<1>3. /\ s \in Text
      /\ Len(s) = IF i <= j - 1 THEN (j - 1) - i + 1 ELSE 0
      /\ \A k \in 1..((j - 1) - i + 1) : s[k] = text[i + k - 1]
  BY <1>1, <1>2, SubSeqProperties DEF Slice, Text
<1>4. s = <<>> <=> j <= i
  <2>1. CASE j <= i
    <3>1. s = <<>>
      BY <1>1, <2>1, SubSeqEmpty DEF Slice
    <3> QED
      BY <2>1, <3>1
  <2>2. CASE i < j
    <3>1. Len(s) # 0
      BY <1>1, <1>3, <2>2
    <3> QED
      BY <3>1, <2>2, <1>1, EmptySeq
  <2> QED
    BY <1>1, <2>1, <2>2
<1> HIDE DEF s
<1>5. i < j => s[1] = text[i]
  BY <1>1, <1>3
<1>6. (j - 1) - i + 1 = j - i
  BY <1>1
<1> QED
  BY <1>1, <1>3, <1>4, <1>5, <1>6 DEF s

LEMMA FreeSlice ==
  ASSUME NEW text \in Text, NEW i \in 1..(End(text) + 1), NEW j \in 1..End(text),
         NEW C
  PROVE  Free(Slice(text, i, j), C) <=> \A k \in i..(j - 1) : text[k].kind \notin C
<1> DEFINE s == Slice(text, i, j)
<1>1. Len(text) \in Nat /\ End(text) = Len(text) + 1
  BY TextType
<1>2. DOMAIN s = 1..Len(s) /\ Len(s) = IF i < j THEN j - i ELSE 0
  BY SliceIs, TextType
<1>3. DOMAIN s = 1..(j - i)
  BY <1>1, <1>2
<1>4. \A k \in 1..(j - i) : s[k] = text[i + k - 1]
  BY SliceIs
<1> HIDE DEF s
<1>5. ASSUME Free(s, C), NEW k \in i..(j - 1)
      PROVE  text[k].kind \notin C
  <2>1. k - i + 1 \in 1..(j - i) /\ i + (k - i + 1) - 1 = k
    BY <1>1
  <2> QED
    BY <2>1, <1>3, <1>4, <1>5 DEF Free
<1>6. ASSUME \A k \in i..(j - 1) : text[k].kind \notin C
      PROVE  Free(s, C)
  <2>1. \A k \in 1..(j - i) : i + k - 1 \in i..(j - 1)
    BY <1>1
  <2> QED
    BY <2>1, <1>3, <1>4, <1>6 DEF Free
<1> QED
  BY <1>5, <1>6 DEF s

LEMMA IsIntSlice ==
  ASSUME NEW text \in Text, NEW i \in 1..(End(text) + 1), NEW j \in 1..End(text)
  PROVE  IsInt(Slice(text, i, j)) <=>
           i < j /\ \A k \in i..(j - 1) : text[k].kind = "number"
<1> DEFINE s == Slice(text, i, j)
<1>1. Len(text) \in Nat /\ End(text) = Len(text) + 1
  BY TextType
<1>2. DOMAIN s = 1..Len(s) /\ Len(s) = IF i < j THEN j - i ELSE 0
  BY SliceIs, TextType
<1>3. DOMAIN s = 1..(j - i)
  BY <1>1, <1>2
<1>4. \A k \in 1..(j - i) : s[k] = text[i + k - 1]
  BY SliceIs
<1>5. s = <<>> <=> j <= i
  BY SliceIs
<1> HIDE DEF s
<1>6. ASSUME IsInt(s), NEW k \in i..(j - 1)
      PROVE  text[k].kind = "number"
  <2>1. k - i + 1 \in 1..(j - i) /\ i + (k - i + 1) - 1 = k
    BY <1>1
  <2> QED
    BY <2>1, <1>3, <1>4, <1>6 DEF IsInt
<1>7. ASSUME i < j, \A k \in i..(j - 1) : text[k].kind = "number"
      PROVE  IsInt(s)
  <2>1. \A k \in 1..(j - i) : i + k - 1 \in i..(j - 1)
    BY <1>1
  <2>2. s # <<>>
    BY <1>1, <1>5, <1>7
  <2> QED
    BY <2>1, <2>2, <1>3, <1>4, <1>7 DEF IsInt
<1>8. IsInt(s) => i < j
  BY <1>1, <1>5 DEF IsInt
<1> QED
  BY <1>6, <1>7, <1>8 DEF s

\* A piece without the separator it begins with.
LEMMA BehindSlice ==
  ASSUME NEW text \in Text, NEW i \in 1..End(text), NEW j \in 1..End(text),
         i <= j
  PROVE  Behind(Slice(text, i, j)) = Slice(text, i + 1, j)
<1> DEFINE s == Slice(text, i, j)
           b == Behind(s)
           r == Slice(text, i + 1, j)
<1>1. Len(text) \in Nat /\ End(text) = Len(text) + 1
  BY TextType
<1>2. s \in Text /\ Len(s) = j - i
      /\ \A k \in 1..(j - i) : s[k] = text[i + k - 1]
  <2>1. i \in 1..(End(text) + 1)
    BY <1>1
  <2> QED
    BY <1>1, <2>1, SliceIs
<1>3. i + 1 \in 1..(End(text) + 1)
  BY <1>1
<1>4. r \in Text /\ Len(r) = (IF i + 1 < j THEN j - (i + 1) ELSE 0)
      /\ \A k \in 1..(j - (i + 1)) : r[k] = text[(i + 1) + k - 1]
  BY <1>3, SliceIs
<1> HIDE DEF s, r
<1>5. b = SubSeq(s, 2, Len(s))
  <2>1. End(s) - 1 = Len(s)
    BY <1>1, <1>2 DEF End
  <2> QED
    BY <2>1 DEF Behind, Slice
<1>6. \A k \in 2..Len(s) : s[k] \in Token
  BY <1>2, TextType
<1>7. /\ b \in Seq(Token)
      /\ Len(b) = IF 2 <= Len(s) THEN Len(s) - 2 + 1 ELSE 0
      /\ \A k \in 1..(Len(s) - 2 + 1) : b[k] = s[2 + k - 1]
  BY <1>1, <1>2, <1>5, <1>6, SubSeqProperties
<1> HIDE DEF b
<1>8. Len(b) = Len(r)
  BY <1>1, <1>2, <1>4, <1>7
<1>9. ASSUME NEW k \in 1..Len(b)
      PROVE  b[k] = r[k]
  <2>1. i \in Int /\ j \in Int /\ Len(b) = IF 2 <= j - i THEN j - i - 1 ELSE 0
    BY <1>1, <1>2, <1>7
  <2>2. k \in 1..(j - i - 1)
    BY <2>1
  <2>3. /\ k \in 1..(Len(s) - 2 + 1) /\ 2 + k - 1 \in 1..(j - i)
        /\ k \in 1..(j - (i + 1)) /\ i + (2 + k - 1) - 1 = (i + 1) + k - 1
    BY <2>1, <2>2, <1>2
  <2> QED
    BY <2>3, <1>2, <1>4, <1>7
<1>10. b = r
  BY <1>4, <1>7, <1>8, <1>9, SeqEqual DEF Text
<1> QED
  BY <1>10 DEF b, r, s

-----------------------------------------------------------------------------
\* A well-formed cut of a text whose host starts at h, in terms of the text.
CutAt(text, h, a, b, q) ==
  /\ h < a /\ \A k \in h..(a - 1) : text[k].kind \notin {":", "/"}
  /\ \/ /\ a + 1 < b /\ text[a].kind = ":"
        /\ \A k \in (a + 1)..(b - 1) : text[k].kind = "number"
     \/ a = b /\ \A k \in b..Len(text) : text[k].kind # ":"
  /\ b < q => text[b].kind = "/" /\ \A k \in b..(q - 1) : text[k].kind # "?"
  /\ q < End(text) => text[q].kind = "?" /\ b < q

LEMMA WellFormedCut ==
  ASSUME NEW text \in Text, FindProtEnd(text) # End(text),
         NEW a \in (FindProtEnd(text) + 3)..End(text), NEW b \in a..End(text),
         NEW q \in b..End(text)
  PROVE  WellFormed(Pieces(text, <<a, b, q>>))
           <=> CutAt(text, FindProtEnd(text) + 3, a, b, q)
<1> DEFINE h == FindProtEnd(text) + 3
           p == Pieces(text, <<a, b, q>>)
           n == Len(text)
<1>1. n \in Nat /\ End(text) = n + 1
  BY TextType
<1>2. h \in 4..(n + 1)
  BY <1>1, ProtEndStops
<1> HIDE DEF h, n
<1>3. /\ h \in 1..(End(text) + 1) /\ h \in 1..End(text)
      /\ a \in 1..(End(text) + 1) /\ a \in 1..End(text)
      /\ b \in 1..(End(text) + 1) /\ b \in 1..End(text)
      /\ q \in 1..(End(text) + 1) /\ q \in 1..End(text)
      /\ a + 1 \in 1..(End(text) + 1) /\ End(text) \in 1..End(text)
      /\ h <= a /\ a <= b /\ b <= q /\ q <= End(text)
  BY <1>1, <1>2 DEF h
<1>4. /\ p.host = Slice(text, h, a) /\ p.port = Slice(text, a, b)
      /\ p.path = Slice(text, b, q) /\ p.query = Slice(text, q, End(text))
  BY DEF Pieces, h
<1> HIDE DEF p
<1> DEFINE Piece(i, j) ==
              /\ Slice(text, i, j) # <<>> <=> i < j
              /\ i < j => Slice(text, i, j)[1] = text[i]
<1>5. \A i, j \in 1..End(text) : Piece(i, j)
  <2> TAKE i \in 1..End(text), j \in 1..End(text)
  <2>1. i \in 1..(End(text) + 1) /\ i \in Int /\ j \in Int
    BY <1>1
  <2> QED
    BY <2>1, SliceIs
<1>6. Piece(h, a) /\ Piece(a, b) /\ Piece(b, q) /\ Piece(q, End(text))
  BY <1>3, <1>5
<1>7. /\ p.host # <<>> <=> h < a
      /\ Free(p.host, {":", "/"})
           <=> \A k \in h..(a - 1) : text[k].kind \notin {":", "/"}
  BY <1>3, <1>4, <1>6, FreeSlice
<1>8. /\ p.port # <<>> <=> a < b
      /\ a < b => (p.port[1] = Mark(":") <=> text[a].kind = ":")
      /\ IsInt(Behind(p.port)) <=>
           a + 1 < b /\ \A k \in (a + 1)..(b - 1) : text[k].kind = "number"
  <2>1. /\ p.port # <<>> <=> a < b
        /\ a < b => p.port[1] = text[a]
    BY <1>4, <1>6
  <2>2. a < b => text[a] \in Token
    BY <1>1, <1>3, TextType DEF n
  <2>3. Behind(p.port) = Slice(text, a + 1, b)
    BY <1>3, <1>4, BehindSlice
  <2>4. a < b => (p.port[1] = Mark(":") <=> text[a].kind = ":")
    BY <2>1, <2>2, TokenKinds
  <2>5. IsInt(Slice(text, a + 1, b)) <=>
          a + 1 < b /\ \A k \in (a + 1)..(b - 1) : text[k].kind = "number"
    BY <1>3, IsIntSlice
  <2> QED
    BY <2>1, <2>3, <2>4, <2>5
<1>9. /\ p.path # <<>> <=> b < q
      /\ b < q => (p.path[1] = Mark("/") <=> text[b].kind = "/")
      /\ Free(p.path, {"?"}) <=> \A k \in b..(q - 1) : text[k].kind # "?"
      /\ Free(p.path, {":"}) <=> \A k \in b..(q - 1) : text[k].kind # ":"
  <2>1. /\ p.path # <<>> <=> b < q
        /\ b < q => p.path[1] = text[b]
    BY <1>4, <1>6
  <2>2. b < q => text[b] \in Token
    BY <1>1, <1>3, TextType DEF n
  <2>3. b < q => (p.path[1] = Mark("/") <=> text[b].kind = "/")
    BY <2>1, <2>2, TokenKinds
  <2>4. /\ Free(p.path, {"?"}) <=> \A k \in b..(q - 1) : text[k].kind # "?"
        /\ Free(p.path, {":"}) <=> \A k \in b..(q - 1) : text[k].kind # ":"
    BY <1>3, <1>4, FreeSlice
  <2> QED
    BY <2>1, <2>3, <2>4
<1>10. /\ p.query # <<>> <=> q < End(text)
       /\ q < End(text) => (p.query[1] = Mark("?") <=> text[q].kind = "?")
       /\ Free(p.query, {":"}) <=> \A k \in q..n : text[k].kind # ":"
  <2>1. /\ p.query # <<>> <=> q < End(text)
        /\ q < End(text) => p.query[1] = text[q]
    BY <1>4, <1>6
  <2>2. q < End(text) => text[q] \in Token
    BY <1>1, <1>3, TextType DEF n
  <2>3. End(text) - 1 = n
    BY <1>1
  <2> QED
    BY <2>1, <2>2, <2>3, <1>3, <1>4, FreeSlice, TokenKinds
<1>11. Free(p.path, {":"}) /\ Free(p.query, {":"})
        <=> \A k \in b..n : text[k].kind # ":"
  <2>1. \A k \in b..n : k \in b..(q - 1) \/ k \in q..n
    BY <1>1, <1>3
  <2>2. \A k \in (b..(q - 1)) \cup (q..n) : k \in b..n
    BY <1>1, <1>3
  <2>3. (\A k \in b..n : text[k].kind # ":")
          <=> /\ \A k \in b..(q - 1) : text[k].kind # ":"
              /\ \A k \in q..n : text[k].kind # ":"
    BY <2>1, <2>2
  <2> QED
    BY <2>3, <1>9, <1>10
<1>12. WellFormed(p) <=>
         /\ h < a /\ \A k \in h..(a - 1) : text[k].kind \notin {":", "/"}
         /\ \/ a < b /\ text[a].kind = ":" /\ IsInt(Behind(p.port))
            \/ ~(a < b) /\ \A k \in b..n : text[k].kind # ":"
         /\ b < q => text[b].kind = "/" /\ \A k \in b..(q - 1) : text[k].kind # "?"
         /\ q < End(text) => text[q].kind = "?" /\ b < q
  <2>1. p.port # <<>> /\ p.port[1] = Mark(":") <=> a < b /\ text[a].kind = ":"
    BY <1>8
  <2>2. (p.path # <<>> => p.path[1] = Mark("/") /\ Free(p.path, {"?"}))
          <=> (b < q => text[b].kind = "/"
                        /\ \A k \in b..(q - 1) : text[k].kind # "?")
    BY <1>9
  <2>3. (p.query # <<>> => p.query[1] = Mark("?") /\ p.path # <<>>)
          <=> (q < End(text) => text[q].kind = "?" /\ b < q)
    BY <1>9, <1>10
  <2>4. p.port = <<>> <=> ~(a < b)
    BY <1>8
  <2> QED
    BY <1>7, <1>11, <2>1, <2>2, <2>3, <2>4, Zenon DEF WellFormed
<1>13. /\ a < b /\ IsInt(Behind(p.port)) <=>
            a + 1 < b /\ \A k \in (a + 1)..(b - 1) : text[k].kind = "number"
       /\ ~(a < b) <=> a = b
  BY <1>3, <1>8
<1> QED
  BY <1>12, <1>13 DEF CutAt, p, h, n

\* The parser's searches find every well-formed cut ...
LEMMA CutIsFound ==
  ASSUME NEW text \in Text, NEW h \in 1..End(text), NEW a \in h..End(text),
         NEW b \in a..End(text), NEW q \in b..End(text),
         CutAt(text, h, a, b, q)
  PROVE  /\ Find(text, h, ":") = IF a < b THEN a ELSE End(text)
         /\ Find(text, h, "/") = b
         /\ Find(text, b, "?") = q
<1> DEFINE n == Len(text)
<1>1. n \in Nat /\ End(text) = n + 1
  BY TextType
<1> HIDE DEF n
<1>2. h \in Int /\ a \in Int /\ b \in Int /\ q \in Int /\ b \in h..End(text)
      /\ End(text) \in h..End(text) /\ b \in 1..End(text) /\ End(text) \in Int
  BY <1>1
<1>3. Find(text, h, ":") = IF a < b THEN a ELSE End(text)
  <2>1. CASE a < b
    <3>1. text[a].kind = ":"
      BY <2>1, <1>2 DEF CutAt
    <3>2. \A k \in h..(a - 1) : text[k].kind # ":"
      BY DEF CutAt
    <3> QED
      BY <2>1, <3>1, <3>2, FindFirst
  <2>2. CASE a = b
    <3>1. \A k \in b..n : text[k].kind # ":"
      BY <2>2, <1>2 DEF CutAt, n
    <3>2. ASSUME NEW k \in h..(End(text) - 1)
          PROVE  text[k].kind # ":"
      <4>1. k \in h..(a - 1) \/ k \in b..n
        BY <1>1, <1>2, <2>2
      <4> QED
        BY <4>1, <3>1 DEF CutAt
    <3>3. Find(text, h, ":") = End(text)
      BY <1>2, <3>2, FindFirst
    <3> QED
      BY <2>2, <3>3, <1>2
  <2> QED
    BY <1>2, <2>1, <2>2
<1>4. Find(text, h, "/") = b
  <2>1. b # End(text) => text[b].kind = "/"
    <3> SUFFICES ASSUME b # End(text) PROVE text[b].kind = "/"
      OBVIOUS
    <3>1. b < q
      BY <1>2 DEF CutAt
    <3> QED
      BY <3>1 DEF CutAt
  <2>2. ASSUME NEW k \in h..(b - 1)
        PROVE  text[k].kind # "/"
    <3>1. k \in h..(a - 1) \/ k = a \/ k \in (a + 1)..(b - 1)
      BY <1>2
    <3>2. k = a => text[k].kind = ":"
      BY <1>2 DEF CutAt
    <3>3. k \in (a + 1)..(b - 1) => text[k].kind = "number"
      BY <1>2 DEF CutAt
    <3> QED
      BY <3>1, <3>2, <3>3 DEF CutAt
  <2> QED
    BY <1>2, <2>1, <2>2, FindFirst
<1>5. Find(text, b, "?") = q
  <2>1. q # End(text) => text[q].kind = "?"
    BY <1>2 DEF CutAt
  <2>2. \A k \in b..(q - 1) : text[k].kind # "?"
    BY <1>2 DEF CutAt
  <2> QED
    BY <1>2, <2>1, <2>2, FindFirst
<1> QED
  BY <1>3, <1>4, <1>5

\* ... and cut the text, where the parser accepts it.
LEMMA FoundIsCut ==
  ASSUME NEW text \in Text, NEW h \in 1..End(text),
         NEW port, port = Find(text, h, ":"),
         NEW b, b = Find(text, h, "/"),
         NEW q, q = Find(text, b, "?"),
         NEW a, a = IF port = End(text) THEN b ELSE port,
         PortOk(text, port, b), h < a
  PROVE  /\ a \in h..End(text) /\ b \in a..End(text) /\ q \in b..End(text)
         /\ CutAt(text, h, a, b, q)
<1> DEFINE n == Len(text)
<1>1. n \in Nat /\ End(text) = n + 1
  BY TextType
<1> HIDE DEF n
<1>2. /\ port \in h..End(text)
      /\ port # End(text) => text[port].kind = ":"
      /\ \A k \in h..(port - 1) : text[k].kind # ":"
  BY FindStops
<1>3. /\ b \in h..End(text)
      /\ b # End(text) => text[b].kind = "/"
      /\ \A k \in h..(b - 1) : text[k].kind # "/"
  BY FindStops
<1>4. /\ q \in b..End(text)
      /\ q # End(text) => text[q].kind = "?"
      /\ \A k \in b..(q - 1) : text[k].kind # "?"
  <2>1. b \in 1..End(text)
    BY <1>1, <1>3
  <2> QED
    BY <2>1, FindStops
<1>5. CASE port = End(text)
  <2>1. a = b
    BY <1>5
  <2>2. \A k \in h..(a - 1) : text[k].kind \notin {":", "/"}
    BY <1>1, <1>2, <1>3, <1>5, <2>1
  <2>3. \A k \in b..Len(text) : text[k].kind # ":"
    <3> SUFFICES ASSUME NEW k \in b..n PROVE text[k].kind # ":"
      BY DEF n
    <3>1. k \in h..(port - 1)
      BY <1>1, <1>3, <1>5
    <3> QED
      BY <3>1, <1>2
  <2>4. q < End(text) => b < q
    <3> SUFFICES ASSUME q < End(text), q = b PROVE FALSE
      BY <1>1, <1>3, <1>4
    <3>1. b # End(text) /\ q # End(text)
      BY <1>1
    <3>2. text[b].kind = "/" /\ text[b].kind = "?"
      BY <3>1, <1>3, <1>4
    <3> QED
      BY <3>2
  <2>5. q < End(text) => text[q].kind = "?"
    BY <1>1, <1>4
  <2>6. b < q => text[b].kind = "/"
    BY <1>1, <1>3, <1>4
  <2> QED
    BY <2>1, <2>2, <2>3, <2>4, <2>5, <2>6, <1>1, <1>3, <1>4 DEF CutAt
<1>6. CASE port # End(text)
  <2>1. a = port /\ b > port /\ IsInt(Slice(text, port + 1, b))
    BY <1>6 DEF PortOk
  <2>2. port + 1 \in 1..(End(text) + 1) /\ b \in 1..End(text)
    BY <1>1, <1>2, <1>3
  <2>3. a + 1 < b /\ \A k \in (a + 1)..(b - 1) : text[k].kind = "number"
    BY <2>1, <2>2, IsIntSlice
  <2>4. \A k \in h..(a - 1) : text[k].kind \notin {":", "/"}
    BY <1>1, <1>2, <1>3, <2>1
  <2>5. q < End(text) => b < q
    <3> SUFFICES ASSUME q < End(text), q = b PROVE FALSE
      BY <1>1, <1>3, <1>4
    <3>1. b # End(text) /\ q # End(text)
      BY <1>1
    <3>2. text[b].kind = "/" /\ text[b].kind = "?"
      BY <3>1, <1>3, <1>4
    <3> QED
      BY <3>2
  <2>6. q < End(text) => text[q].kind = "?"
    BY <1>1, <1>4
  <2>7. b < q => text[b].kind = "/"
    BY <1>1, <1>3, <1>4
  <2>8. text[a].kind = ":"
    BY <1>2, <1>6, <2>1
  <2> QED
    BY <2>1, <2>3, <2>4, <2>5, <2>6, <2>7, <2>8, <1>1, <1>2, <1>3, <1>4 DEF CutAt
<1> QED
  BY <1>5, <1>6

\* What the parser returns for a cut is what the reference makes of its pieces.
FromPieces(p) ==
  [protocol |-> ToLower(p.protocol), host |-> ToLower(p.host),
   port |-> Behind(p.port), path |-> p.path, query |-> Behind(p.query)]
Found(text, h, a, b, q) ==
  [protocol |-> ToLower(Slice(text, 1, FindProtEnd(text))),
   host |-> ToLower(Slice(text, h, a)),
   port |-> IF a = b THEN NoPort ELSE Slice(text, a + 1, b),
   path |-> Slice(text, b, q),
   query |-> Slice(text, q + 1, End(text))]

LEMMA SameParts ==
  ASSUME NEW text \in Text, FindProtEnd(text) # End(text),
         NEW a \in (FindProtEnd(text) + 3)..End(text), NEW b \in a..End(text),
         NEW q \in b..End(text)
  PROVE  FromPieces(Pieces(text, <<a, b, q>>))
           = Found(text, FindProtEnd(text) + 3, a, b, q)
<1> DEFINE p == Pieces(text, <<a, b, q>>)
           h == FindProtEnd(text) + 3
<1>1. Len(text) \in Nat /\ End(text) = Len(text) + 1
  BY TextType
<1>2. /\ a \in 1..End(text) /\ b \in 1..End(text) /\ q \in 1..End(text)
      /\ End(text) \in 1..End(text) /\ q <= End(text) /\ a <= b
      /\ a \in 1..(End(text) + 1)
  BY <1>1, ProtEndStops
<1>3. /\ p.protocol = Slice(text, 1, FindProtEnd(text))
      /\ p.host = Slice(text, h, a) /\ p.port = Slice(text, a, b)
      /\ p.path = Slice(text, b, q) /\ p.query = Slice(text, q, End(text))
  BY DEF Pieces
<1> HIDE DEF p, h
<1>4. Behind(p.query) = Slice(text, q + 1, End(text))
  BY <1>2, <1>3, BehindSlice
<1>5. Behind(p.port) = IF a = b THEN NoPort ELSE Slice(text, a + 1, b)
  <2>1. CASE a = b
    <3>1. a + 1 \in Int /\ b - 1 \in Int /\ b - 1 < a + 1
      BY <2>1, <1>2
    <3>2. Slice(text, a + 1, b) = <<>>
      BY <3>1, SubSeqEmpty DEF Slice
    <3> QED
      BY <2>1, <3>2, <1>2, <1>3, BehindSlice DEF NoPort
  <2>2. CASE a # b
    BY <2>2, <1>2, <1>3, BehindSlice
  <2> QED
    BY <2>1, <2>2
<1> QED
  BY <1>3, <1>4, <1>5 DEF FromPieces, Found, p, h

-----------------------------------------------------------------------------
\* The cuts of the reference.
Cuts(text) ==
  LET prot == FindProtEnd(text)
      n == End(text) IN
  {c \in ((prot + 3)..n) \X ((prot + 3)..n) \X ((prot + 3)..n) :
     c[1] <= c[2] /\ c[2] <= c[3] /\ WellFormed(Pieces(text, c))}

LEMMA ReferenceIs ==
  ASSUME NEW text
  PROVE  Reference(text) = {FromPieces(Pieces(text, c)) : c \in Cuts(text)}
BY DEF Reference, FromPieces, Cuts

LEMMA ParseIs ==
  ASSUME NEW text,
         NEW prot, prot = FindProtEnd(text),
         NEW port, port = Find(text, prot + 3, ":"),
         NEW b, b = Find(text, prot + 3, "/"),
         NEW q, q = Find(text, b, "?"),
         NEW a, a = IF port = End(text) THEN b ELSE port,
         port = End(text) <=> a = b
  PROVE  Parse(text) =
           {u \in {Found(text, prot + 3, a, b, q)} :
              prot # End(text) /\ PortOk(text, port, b) /\ u.host # <<>>}
BY DEF Parse, Found

\* The hand-written parser and the reference agree on every text: the same
\* texts are URLs, and each has one set of parts.
THEOREM ParserMeetsReference ==
  ASSUME NEW text \in Text
  PROVE  Parse(text) = Reference(text)
<1> DEFINE prot == FindProtEnd(text)
           h == prot + 3
           port == Find(text, h, ":")
           b == Find(text, h, "/")
           q == Find(text, b, "?")
           a == IF port = End(text) THEN b ELSE port
           url == Found(text, h, a, b, q)
<1>1. Len(text) \in Nat /\ End(text) = Len(text) + 1
  BY TextType
<1>2. CASE prot = End(text)
  <2>1. Parse(text) = {}
    BY <1>2 DEF Parse
  <2>2. h > End(text)
    BY <1>1, <1>2
  <2>3. (h..End(text)) = {}
    BY <1>1, <1>2, <2>2
  <2>4. Cuts(text) = {}
    BY <2>3 DEF Cuts
  <2> QED
    BY <2>1, <2>4, ReferenceIs
<1>3. CASE prot # End(text)
  <2>1. h \in 1..End(text) /\ prot \in 1..(Len(text) - 2)
    BY <1>1, <1>3, ProtEndStops
  <2>2. /\ port \in h..End(text) /\ (port # End(text) => text[port].kind = ":")
        /\ b \in h..End(text) /\ (b # End(text) => text[b].kind = "/")
    BY <2>1, FindStops
  <2> HIDE DEF port, b, q
  <2>3. port = End(text) <=> a = b
    <3>1. CASE port = End(text)
      BY <3>1
    <3>2. CASE port # End(text)
      <4>1. port = b => text[b].kind = ":" /\ text[b].kind = "/"
        BY <2>2, <3>2
      <4> QED
        BY <3>2, <4>1
    <3> QED
      BY <3>1, <3>2
  <2>4. a \in h..End(text)
    BY <2>2
  <2> HIDE DEF a
  <2>5. Parse(text) = {u \in {url} : PortOk(text, port, b) /\ u.host # <<>>}
    BY <1>3, <2>3, ParseIs DEF port, b, q, a
  <2>6. url.host # <<>> <=> h < a
    <3>1. Slice(text, h, a) # <<>> <=> h < a
      <4>1. /\ h \in 1..(End(text) + 1) /\ a \in 1..End(text)
            /\ h \in Int /\ a \in Int
        BY <1>1, <2>1, <2>4
      <4> QED
        BY <4>1, SliceIs
    <3>2. ToLower(Slice(text, h, a)) = <<>> <=> Slice(text, h, a) = <<>>
      <4> DEFINE s == Slice(text, h, a)
      <4>1. s \in Text
        <5>1. h \in 1..(End(text) + 1) /\ a \in 1..End(text)
          BY <1>1, <2>1, <2>4
        <5> QED
          BY <5>1, SliceIs
      <4> HIDE DEF s
      <4>2. s = <<>> <=> DOMAIN s = {}
        BY <4>1 DEF Text
      <4>3. ToLower(s) = <<>> <=> DOMAIN s = {}
        BY DEF ToLower
      <4> QED
        BY <4>2, <4>3 DEF s
    <3> QED
      BY <3>1, <3>2 DEF Found
  <2>7. ASSUME PortOk(text, port, b), h < a
        PROVE  <<a, b, q>> \in Cuts(text)
    <3>1. /\ b \in a..End(text) /\ q \in b..End(text)
          /\ CutAt(text, h, a, b, q)
      BY <2>1, <2>7, FoundIsCut DEF port, b, q, a
    <3>2. WellFormed(Pieces(text, <<a, b, q>>))
      BY <1>3, <2>4, <3>1, WellFormedCut
    <3>3. /\ b \in h..End(text) /\ q \in h..End(text) /\ a <= b /\ b <= q
      BY <1>1, <2>1, <2>4, <3>1
    <3> QED
      BY <2>4, <3>2, <3>3 DEF Cuts
  <2>8. ASSUME NEW c \in Cuts(text)
        PROVE  /\ PortOk(text, port, b) /\ h < a
               /\ c = <<a, b, q>>
    <3>1. PICK x \in h..End(text), y \in h..End(text), z \in h..End(text) :
            c = <<x, y, z>> /\ x <= y /\ y <= z
            /\ WellFormed(Pieces(text, <<x, y, z>>))
      <4> DEFINE H == h..End(text)
      <4>1. /\ c \in H \X H \X H /\ c[1] <= c[2] /\ c[2] <= c[3]
            /\ WellFormed(Pieces(text, c))
        BY DEF Cuts
      <4> HIDE DEF H
      <4>2. c = <<c[1], c[2], c[3]>> /\ c[1] \in H /\ c[2] \in H /\ c[3] \in H
        BY <4>1
      <4> QED
        BY <4>1, <4>2 DEF H
    <3>2. /\ y \in x..End(text) /\ z \in y..End(text)
      BY <1>1, <2>1, <3>1
    <3>3. CutAt(text, h, x, y, z)
      BY <1>3, <3>1, <3>2, WellFormedCut
    <3>4. /\ port = IF x < y THEN x ELSE End(text)
          /\ b = y /\ q = Find(text, y, "?") /\ Find(text, y, "?") = z
      BY <2>1, <3>2, <3>3, CutIsFound DEF port, b, q
    <3>5. x = a /\ (port # End(text) => x < y)
      BY <1>1, <2>1, <3>2, <3>4 DEF a
    <3>6. h < a
      BY <3>3, <3>5 DEF CutAt
    <3>7. PortOk(text, port, b)
      <4>1. CASE port = End(text)
        BY <4>1 DEF PortOk
      <4>2. CASE port # End(text)
        <5>1. x < y /\ port = x
          BY <4>2, <3>4, <3>5
        <5>2. x + 1 < y /\ \A k \in (x + 1)..(y - 1) : text[k].kind = "number"
          BY <1>1, <2>1, <3>2, <3>3, <5>1 DEF CutAt
        <5>3. x + 1 \in 1..(End(text) + 1) /\ y \in 1..End(text)
          BY <1>1, <2>1, <3>2
        <5>4. IsInt(Slice(text, x + 1, y))
          BY <5>2, <5>3, IsIntSlice
        <5>5. b > port
          BY <5>1, <3>4, <1>1, <2>1, <3>2
        <5> QED
          BY <5>1, <5>4, <5>5, <3>4 DEF PortOk
      <4> QED
        BY <4>1, <4>2
    <3> QED
      BY <3>1, <3>4, <3>5, <3>6, <3>7
  <2>9. Cuts(text) = {c \in {<<a, b, q>>} : PortOk(text, port, b) /\ h < a}
    BY <2>7, <2>8
  <2>10. ASSUME PortOk(text, port, b), h < a
         PROVE  FromPieces(Pieces(text, <<a, b, q>>)) = url
    <3>1. /\ b \in a..End(text) /\ q \in b..End(text)
      BY <2>1, <2>10, FoundIsCut DEF port, b, q, a
    <3> QED
      BY <1>3, <2>4, <3>1, SameParts
  <2> HIDE DEF url
  <2>11. Reference(text) = {u \in {url} : PortOk(text, port, b) /\ h < a}
    BY <2>9, <2>10, ReferenceIs
  <2>12. Parse(text) = {u \in {url} : PortOk(text, port, b) /\ h < a}
    BY <2>5, <2>6
  <2> QED
    BY <2>11, <2>12
<1> QED
  BY <1>2, <1>3

\* No text has two readings: however it is cut, the parts are the same.
THEOREM OneReading ==
  ASSUME NEW text \in Text
  PROVE  \A u, v \in Reference(text) : u = v
BY ParserMeetsReference DEF Parse
=============================================================================

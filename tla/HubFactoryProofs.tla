--------------------------- MODULE HubFactoryProofs ---------------------------
(***************************************************************************)
(* The hub factory, for any addresses, ports and number of attempts: the   *)
(* addresses a hub hands out lead to it, and the sockets a failing get()   *)
(* leaves behind.                                                          *)
(***************************************************************************)
EXTENDS MCSetup, UrlProofs, FiniteSetTheorems

-----------------------------------------------------------------------------
LEMMA ConcatTokens ==
  ASSUME NEW s \in Seq(Token), NEW r \in Seq(Token)
  PROVE  /\ s \o r \in Seq(Token)
         /\ Len(s \o r) = Len(s) + Len(r)
         /\ \A k \in 1..(Len(s) + Len(r)) :
              (s \o r)[k] = IF k <= Len(s) THEN s[k] ELSE r[k - Len(s)]
BY ConcatProperties

\* The tokens of an address, by position.
Spells(A, t, i, port) ==
  /\ A \in Text /\ Len(A) = Len(t) + Len(i) + 5
  /\ Len(t) \in Nat /\ Len(i) \in Nat
  /\ \A k \in 1..Len(t) : A[k] = t[k]
  /\ A[Len(t) + 1] = Mark(":") /\ A[Len(t) + 2] = Mark("/")
  /\ A[Len(t) + 3] = Mark("/")
  /\ \A k \in 1..Len(i) : A[Len(t) + 3 + k] = i[k]
  /\ A[Len(t) + Len(i) + 4] = Mark(":")
  /\ A[Len(t) + Len(i) + 5] = Number(port)

LEMMA AddressTokens ==
  ASSUME NEW t \in Text, NEW i \in Text, NEW port \in Nat
  PROVE  Spells(Address(t, i, port), t, i, port)
<1> DEFINE last == <<Mark(":"), Number(port)>>
           B == t \o ProtEnd
           C == B \o i
           A == C \o last
<1>1. Len(t) \in Nat /\ Len(i) \in Nat
  BY TextType
<1>2. ProtEnd \in Seq(Token) /\ last \in Seq(Token)
  BY DEF ProtEnd, Token, Number, Mark
<1>3. Len(ProtEnd) = 3 /\ Len(last) = 2
  BY DEF ProtEnd
<1>4. /\ B \in Seq(Token) /\ Len(B) = Len(t) + 3
      /\ \A k \in 1..(Len(t) + 3) :
           B[k] = IF k <= Len(t) THEN t[k] ELSE ProtEnd[k - Len(t)]
  <2>1. t \in Seq(Token)
    BY DEF Text
  <2> QED
    BY <1>2, <1>3, <2>1, ConcatTokens
<1>5. ProtEnd[1] = Mark(":") /\ ProtEnd[2] = Mark("/") /\ ProtEnd[3] = Mark("/")
  BY DEF ProtEnd
<1>6. last[1] = Mark(":") /\ last[2] = Number(port)
  OBVIOUS
<1> HIDE DEF last, B
<1>7. /\ C \in Seq(Token) /\ Len(C) = Len(t) + 3 + Len(i)
      /\ \A k \in 1..(Len(t) + 3 + Len(i)) :
           C[k] = IF k <= Len(t) + 3 THEN B[k] ELSE i[k - (Len(t) + 3)]
  <2>1. i \in Seq(Token)
    BY DEF Text
  <2> QED
    <3>1. B \in Seq(Token) /\ i \in Seq(Token)
      BY <1>4, <2>1
    <3>2. /\ C \in Seq(Token) /\ Len(C) = Len(B) + Len(i)
          /\ \A k \in 1..(Len(B) + Len(i)) :
               C[k] = IF k <= Len(B) THEN B[k] ELSE i[k - Len(B)]
      BY <3>1, ConcatTokens
    <3>3. Len(B) = Len(t) + 3
      BY <1>4
    <3> HIDE DEF C
    <3> QED
      BY <3>2, <3>3
<1> HIDE DEF C
<1>8. /\ A \in Seq(Token) /\ Len(A) = Len(t) + 3 + Len(i) + 2
      /\ \A k \in 1..(Len(t) + 3 + Len(i) + 2) :
           A[k] = IF k <= Len(t) + 3 + Len(i) THEN C[k]
                  ELSE last[k - (Len(t) + 3 + Len(i))]
  <2>1. C \in Seq(Token) /\ last \in Seq(Token)
    BY <1>2, <1>7
  <2>2. /\ A \in Seq(Token) /\ Len(A) = Len(C) + Len(last)
        /\ \A k \in 1..(Len(C) + Len(last)) :
             A[k] = IF k <= Len(C) THEN C[k] ELSE last[k - Len(C)]
    BY <2>1, ConcatTokens
  <2>3. Len(C) = Len(t) + 3 + Len(i) /\ Len(last) = 2
    BY <1>3, <1>7
  <2> HIDE DEF A
  <2> QED
    BY <2>2, <2>3
<1>9. A = Address(t, i, port)
  BY DEF A, B, C, last, Address
<1> HIDE DEF A
<1>10. \A k \in 1..(Len(t) + 3) : A[k] = B[k]
  BY <1>1, <1>7, <1>8
<1>11. ASSUME NEW k \in 1..Len(t)
       PROVE  A[k] = t[k]
  BY <1>1, <1>4, <1>10
<1>12. /\ A[Len(t) + 1] = Mark(":") /\ A[Len(t) + 2] = Mark("/")
       /\ A[Len(t) + 3] = Mark("/")
  <2>1. /\ A[Len(t) + 1] = B[Len(t) + 1] /\ A[Len(t) + 2] = B[Len(t) + 2]
        /\ A[Len(t) + 3] = B[Len(t) + 3]
    BY <1>1, <1>10
  <2>2. /\ B[Len(t) + 1] = ProtEnd[1] /\ B[Len(t) + 2] = ProtEnd[2]
        /\ B[Len(t) + 3] = ProtEnd[3]
    BY <1>1, <1>4
  <2> QED
    BY <2>1, <2>2, <1>5
<1>13. ASSUME NEW k \in 1..Len(i)
       PROVE  A[Len(t) + 3 + k] = i[k]
  <2>1. Len(t) + 3 + k \in 1..(Len(t) + 3 + Len(i)) /\ ~(Len(t) + 3 + k <= Len(t) + 3)
        /\ Len(t) + 3 + k - (Len(t) + 3) = k
    BY <1>1
  <2>2. A[Len(t) + 3 + k] = C[Len(t) + 3 + k]
    BY <1>1, <2>1, <1>8
  <2> QED
    BY <2>1, <2>2, <1>7
<1>14. /\ A[Len(t) + 3 + Len(i) + 1] = Mark(":")
       /\ A[Len(t) + 3 + Len(i) + 2] = Number(port)
  <2>1. /\ A[Len(t) + 3 + Len(i) + 1] = last[1]
        /\ A[Len(t) + 3 + Len(i) + 2] = last[2]
    BY <1>1, <1>8
  <2> QED
    BY <2>1, <1>6
<1>15. /\ Len(t) + Len(i) + 5 = Len(t) + 3 + Len(i) + 2
       /\ Len(t) + Len(i) + 4 = Len(t) + 3 + Len(i) + 1
  BY <1>1
<1> QED
  BY <1>1, <1>8, <1>9, <1>11, <1>12, <1>13, <1>14, <1>15 DEF Text, Spells

\* The addresses that sockets are bound to and what they can be confused with.
Plain(t, i) ==
  /\ t \in Text /\ Free(t, {":"})
  /\ i \in Text /\ i # <<>> /\ Free(i, {":", "/"})

LEMMA AddressPort ==
  ASSUME NEW t \in Text, NEW i \in Text, NEW p \in Nat,
         NEW u \in Text, NEW j \in Text, NEW q \in Nat,
         Address(t, i, p) = Address(u, j, q)
  PROVE  p = q
<1>1. Spells(Address(t, i, p), t, i, p) /\ Spells(Address(t, i, p), u, j, q)
  BY AddressTokens
<1>2. Number(p) = Number(q)
  BY <1>1 DEF Spells
<1> QED
  BY <1>2 DEF Number

\* The first ":" of a plain address ends its transport, so the address has
\* no other parts.
LEMMA AddressParts ==
  ASSUME NEW t, NEW i, Plain(t, i), NEW p \in Nat,
         NEW u \in Text, NEW j \in Text, NEW q \in Nat,
         Address(t, i, p) = Address(u, j, q)
  PROVE  t = u /\ i = j
<1> DEFINE X == Address(t, i, p)
<1>1. t \in Text /\ i \in Text
  BY DEF Plain
<1>2. Spells(X, t, i, p) /\ Spells(X, u, j, q)
  BY <1>1, AddressTokens
<1> HIDE DEF X
<1>3. /\ Len(t) \in Nat /\ Len(i) \in Nat /\ Len(u) \in Nat /\ Len(j) \in Nat
      /\ Len(t) + Len(i) + 5 = Len(u) + Len(j) + 5
  BY <1>2 DEF Spells
<1>4. DOMAIN t = 1..Len(t) /\ DOMAIN i = 1..Len(i)
  BY <1>1, TextType
<1>5. \A k \in 1..Len(t) : X[k].kind # ":"
  BY <1>2, <1>4 DEF Plain, Free, Spells
<1>6. \A k \in 1..Len(i) : X[Len(t) + 3 + k].kind # ":"
  <2>1. \A k \in 1..Len(i) : i[k].kind # ":"
    BY <1>4 DEF Plain, Free
  <2>2. \A k \in 1..Len(i) : X[Len(t) + 3 + k] = i[k]
    BY <1>2 DEF Spells
  <2> QED
    BY <2>1, <2>2
<1>7. X[Len(t) + 2].kind # ":" /\ X[Len(t) + 3].kind # ":"
  BY <1>2 DEF Spells, Mark
<1>8. X[Len(u) + 1].kind = ":"
  BY <1>2 DEF Spells, Mark
<1>9. Len(u) + 1 \in 1..(Len(t) + Len(i) + 3)
  BY <1>3
<1>10. ~(Len(u) + 1 \in 1..Len(t))
  BY <1>5, <1>8
<1>11. ASSUME Len(u) + 1 > Len(t) + 3
       PROVE  FALSE
  <2>1. /\ Len(u) - Len(t) - 2 \in 1..Len(i)
        /\ Len(t) + 3 + (Len(u) - Len(t) - 2) = Len(u) + 1
    BY <1>3, <1>9, <1>11
  <2> QED
    BY <2>1, <1>6, <1>8
<1>12. Len(u) + 1 # Len(t) + 2 /\ Len(u) + 1 # Len(t) + 3
  BY <1>7, <1>8
<1>13. Len(u) = Len(t) /\ Len(i) = Len(j)
  BY <1>3, <1>9, <1>10, <1>11, <1>12
<1>14. \A k \in 1..Len(t) : t[k] = u[k]
  BY <1>2, <1>13 DEF Spells
<1>15. \A k \in 1..Len(i) : i[k] = j[k]
  BY <1>2, <1>13 DEF Spells
<1>16. t = u
  BY <1>1, <1>13, <1>14, SeqEqual DEF Text
<1>17. i = j
  BY <1>1, <1>13, <1>15, SeqEqual DEF Text
<1> QED
  BY <1>16, <1>17

\* A plain address is cut behind the interface and behind the port.
LEMMA PlainCut ==
  ASSUME NEW t, NEW i, Plain(t, i), NEW port \in Nat
  PROVE  LET X == Address(t, i, port) IN
         /\ FindProtEnd(X) = Len(t) + 1
         /\ <<Len(X) - 1, End(X), End(X)>> \in Cuts(X)
<1> DEFINE X == Address(t, i, port)
           n == Len(X)
           f == FindProtEnd(X)
<1>1. /\ t \in Text /\ i \in Text /\ X \in Text
      /\ Len(t) \in Nat /\ Len(i) \in Nat /\ n = Len(t) + Len(i) + 5
      /\ \A k \in 1..Len(t) : X[k] = t[k]
      /\ \A k \in 1..Len(i) : X[Len(t) + 3 + k] = i[k]
      /\ X[Len(t) + 1] = Mark(":") /\ X[Len(t) + 2] = Mark("/")
      /\ X[Len(t) + 3] = Mark("/")
      /\ X[n - 1] = Mark(":") /\ X[n] = Number(port)
  <2>1. t \in Text /\ i \in Text
    BY DEF Plain
  <2>2. Spells(X, t, i, port)
    BY <2>1, AddressTokens
  <2> HIDE DEF X
  <2>3. n - 1 = Len(t) + Len(i) + 4
    BY <2>2 DEF Spells
  <2> QED
    BY <2>1, <2>2, <2>3 DEF Spells
<1>2. DOMAIN t = 1..Len(t) /\ DOMAIN i = 1..Len(i)
  BY <1>1, TextType
<1>3. \A k \in 1..Len(t) : X[k].kind # ":"
  BY <1>1, <1>2 DEF Plain, Free
<1>4. \A k \in 1..Len(i) : X[Len(t) + 3 + k].kind \notin {":", "/"}
  BY <1>1, <1>2 DEF Plain, Free
<1>5. Len(i) # 0
  BY <1>1, EmptySeq DEF Plain, Text
<1>6. End(X) = n + 1 /\ \A k \in 1..n : X[k] \in Token
  BY <1>1, TextType
<1> HIDE DEF X, n
<1>7. \A k \in 1..(n - 2) : /\ SubSeq(X, k, k + 2) \in Seq(Token)
                            /\ Len(SubSeq(X, k, k + 2)) = 3
                            /\ SubSeq(X, k, k + 2)[1] = X[k]
                            /\ SubSeq(X, k, k + 2)[2] = X[k + 1]
                            /\ SubSeq(X, k, k + 2)[3] = X[k + 2]
  <2> TAKE k \in 1..(n - 2)
  <2>1. \A m \in k..(k + 2) : X[m] \in Token
    BY <1>1, <1>6
  <2>2. k \in Int /\ k + 2 \in Int /\ k <= k + 2 /\ (k + 2) - k + 1 = 3
    BY <1>1
  <2>3. /\ SubSeq(X, k, k + 2) \in Seq(Token)
        /\ Len(SubSeq(X, k, k + 2)) = 3
        /\ \A m \in 1..3 : SubSeq(X, k, k + 2)[m] = X[k + m - 1]
    BY <2>1, <2>2, SubSeqProperties
  <2>4. k + 1 - 1 = k /\ k + 2 - 1 = k + 1 /\ k + 3 - 1 = k + 2
    BY <2>2
  <2> QED
    BY <2>3, <2>4
<1>8. SubSeq(X, Len(t) + 1, Len(t) + 3) = ProtEnd
  <2>1. Len(t) + 1 \in 1..(n - 2) /\ (Len(t) + 1) + 2 = Len(t) + 3
        /\ (Len(t) + 1) + 1 = Len(t) + 2
    BY <1>1
  <2> DEFINE s == SubSeq(X, Len(t) + 1, Len(t) + 3)
  <2>2. /\ s \in Seq(Token) /\ Len(s) = 3
        /\ s[1] = Mark(":") /\ s[2] = Mark("/") /\ s[3] = Mark("/")
    BY <1>1, <1>7, <2>1
  <2>3. ProtEnd \in Seq(Token) /\ Len(ProtEnd) = 3
        /\ ProtEnd[1] = Mark(":") /\ ProtEnd[2] = Mark("/") /\ ProtEnd[3] = Mark("/")
    BY DEF ProtEnd, Token
  <2> HIDE DEF s
  <2>4. \A k \in 1..3 : s[k] = ProtEnd[k]
    BY <2>2, <2>3
  <2>5. s = ProtEnd
    BY <2>2, <2>3, <2>4, SeqEqual
  <2> QED
    BY <2>5 DEF s
<1>9. f = Len(t) + 1
  <2>1. Len(t) + 1 \in 1..(n - 2) /\ (Len(t) + 1) + 2 = Len(t) + 3
    BY <1>1
  <2>2. /\ f = End(X) \/ f \in 1..(n - 2)
        /\ f # End(X) => SubSeq(X, f, f + 2) = ProtEnd
        /\ f <= Len(t) + 1
    BY <1>1, <1>8, <2>1, ProtEndStops DEF n
  <2> HIDE DEF f
  <2>3. f # End(X) /\ f \in 1..(n - 2)
    BY <1>1, <1>6, <2>2
  <2>4. X[f].kind = ":"
    <3>1. X[f] = ProtEnd[1]
      BY <1>7, <2>2, <2>3
    <3> QED
      BY <3>1 DEF ProtEnd, Mark
  <2> QED
    BY <1>1, <1>3, <2>2, <2>3, <2>4
<1>10. /\ f # End(X) /\ n - 1 \in (f + 3)..End(X) /\ End(X) \in (n - 1)..End(X)
       /\ End(X) \in End(X)..End(X) /\ f + 3 < n - 1
  BY <1>1, <1>5, <1>6, <1>9
<1>11. CutAt(X, f + 3, n - 1, End(X), End(X))
  <2>1. ASSUME NEW k \in (f + 3)..(n - 1 - 1)
        PROVE  X[k].kind \notin {":", "/"}
    <3>1. k - (Len(t) + 3) \in 1..Len(i) /\ Len(t) + 3 + (k - (Len(t) + 3)) = k
      BY <1>1, <1>9
    <3> QED
      BY <3>1, <1>4
  <2>2. \A k \in (n - 1 + 1)..(End(X) - 1) : k = n
    BY <1>1, <1>6
  <2>3. X[n].kind = "number" /\ X[n - 1].kind = ":"
    BY <1>1 DEF Number, Mark
  <2>4. n - 1 + 1 < End(X)
    BY <1>1, <1>6
  <2> QED
    BY <1>10, <2>1, <2>2, <2>3, <2>4, <1>1, <1>6 DEF CutAt
<1>12. WellFormed(Pieces(X, <<n - 1, End(X), End(X)>>))
  BY <1>1, <1>10, <1>11, WellFormedCut
<1>13. <<n - 1, End(X), End(X)>> \in Cuts(X)
  <2>1. n - 1 <= End(X) /\ End(X) <= End(X) /\ End(X) \in (f + 3)..End(X)
    BY <1>1, <1>6, <1>9
  <2> QED
    BY <1>10, <1>12, <2>1 DEF Cuts
<1> QED
  BY <1>9, <1>13 DEF X, n, f

\* Sequences with the same tokens at the same places.
LEMMA SliceReads ==
  ASSUME NEW X \in Text, NEW a \in 1..End(X), NEW b \in a..End(X),
         NEW s \in Text, Len(s) = b - a,
         \A k \in 1..(b - a) : X[a + k - 1] = s[k]
  PROVE  Slice(X, a, b) = s
<1>1. Len(X) \in Nat /\ End(X) = Len(X) + 1
  BY TextType
<1>2. a \in 1..(End(X) + 1) /\ b \in 1..End(X) /\ a <= b
  BY <1>1
<1>3. /\ Slice(X, a, b) \in Text
      /\ Len(Slice(X, a, b)) = IF a < b THEN b - a ELSE 0
      /\ \A k \in 1..(b - a) : Slice(X, a, b)[k] = X[a + k - 1]
  BY <1>2, SliceIs
<1>4. Len(Slice(X, a, b)) = b - a
  BY <1>1, <1>2, <1>3
<1>5. \A k \in 1..Len(s) : Slice(X, a, b)[k] = s[k]
  BY <1>3
<1> QED
  BY <1>3, <1>4, <1>5, SeqEqual DEF Text

\* What the factory formats the parser takes apart again: the address of a
\* socket is a URL whose parts are the transport, the interface and the port,
\* the two names in lower case, without path and query.
THEOREM AddressesAreReadBack ==
  ASSUME NEW t, NEW i, Plain(t, i), NEW port \in Nat
  PROVE  Parse(Address(t, i, port)) =
           {[protocol |-> ToLower(t), host |-> ToLower(i),
             port |-> <<Number(port)>>, path |-> <<>>, query |-> <<>>]}
<1> DEFINE X == Address(t, i, port)
           n == Len(X)
           f == FindProtEnd(X)
<1>1. t \in Text /\ i \in Text
  BY DEF Plain
<1>2. Spells(X, t, i, port)
  BY <1>1, AddressTokens
<1>3. f = Len(t) + 1 /\ <<n - 1, End(X), End(X)>> \in Cuts(X)
  BY PlainCut
<1> HIDE DEF X, n, f
<1>4. /\ X \in Text /\ Len(t) \in Nat /\ Len(i) \in Nat
      /\ n = Len(t) + Len(i) + 5
      /\ \A k \in 1..Len(t) : X[k] = t[k]
      /\ \A k \in 1..Len(i) : X[Len(t) + 3 + k] = i[k]
      /\ X[n] = Number(port)
  BY <1>2 DEF Spells, n
<1>5. End(X) = n + 1
  BY <1>4, TextType DEF n
<1>6. /\ f # End(X) /\ n - 1 \in (f + 3)..End(X)
      /\ End(X) \in (n - 1)..End(X) /\ End(X) \in End(X)..End(X)
      /\ n - 1 # End(X)
  BY <1>3, <1>4, <1>5
<1>7. Parse(X) = {Found(X, f + 3, n - 1, End(X), End(X))}
  <2> DEFINE cut == <<n - 1, End(X), End(X)>>
  <2>1. FromPieces(Pieces(X, cut)) \in Reference(X)
    BY <1>3, ReferenceIs
  <2>2. FromPieces(Pieces(X, cut)) = Found(X, f + 3, n - 1, End(X), End(X))
    BY <1>4, <1>6, SameParts DEF f
  <2>3. \A u, v \in Reference(X) : u = v
    BY <1>4, OneReading
  <2> HIDE DEF cut
  <2>4. Reference(X) = {Found(X, f + 3, n - 1, End(X), End(X))}
    BY <2>1, <2>2, <2>3
  <2> QED
    BY <2>4, <1>4, ParserMeetsReference
<1>8. Slice(X, 1, f) = t
  <2>1. 1 \in 1..End(X) /\ f \in 1..End(X) /\ Len(t) = f - 1
    BY <1>3, <1>4, <1>5
  <2>2. \A k \in 1..(f - 1) : X[1 + k - 1] = t[k]
    BY <1>3, <1>4
  <2> QED
    BY <1>1, <1>4, <2>1, <2>2, SliceReads
<1>9. Slice(X, f + 3, n - 1) = i
  <2>1. /\ f + 3 \in 1..End(X) /\ n - 1 \in (f + 3)..End(X)
        /\ Len(i) = (n - 1) - (f + 3)
    BY <1>3, <1>4, <1>5
  <2>2. ASSUME NEW k \in 1..((n - 1) - (f + 3))
        PROVE  X[(f + 3) + k - 1] = i[k]
    <3>1. k \in 1..Len(i) /\ (f + 3) + k - 1 = Len(t) + 3 + k
      BY <1>3, <1>4, <2>1
    <3> QED
      BY <1>4, <3>1
  <2> QED
    BY <1>1, <1>4, <2>1, <2>2, SliceReads
<1>10. Slice(X, n, End(X)) = <<Number(port)>>
  <2>1. <<Number(port)>> \in Text /\ Len(<<Number(port)>>) = 1
    BY DEF Text, Token, Number
  <2>2. n \in 1..End(X) /\ End(X) \in n..End(X) /\ End(X) - n = 1
    BY <1>4, <1>5
  <2>3. \A k \in 1..1 : X[n + k - 1] = <<Number(port)>>[k]
    BY <1>4
  <2> QED
    BY <1>4, <2>1, <2>2, <2>3, SliceReads
<1>11. Slice(X, End(X), End(X)) = <<>> /\ Slice(X, End(X) + 1, End(X)) = <<>>
  BY <1>4, <1>5, SubSeqEmpty DEF Slice
<1>12. n - 1 + 1 = n
  BY <1>4
<1> QED
  BY <1>6, <1>7, <1>8, <1>9, <1>10, <1>11, <1>12 DEF Found, X, f

LEMMA PlainIsValid ==
  ASSUME NEW t, NEW i, Plain(t, i), NEW port \in Nat
  PROVE  ValidateUrl(Address(t, i, port))
<1>1. \E u : Parse(Address(t, i, port)) = {u}
  <2>1. Parse(Address(t, i, port)) =
          {[protocol |-> ToLower(t), host |-> ToLower(i),
            port |-> <<Number(port)>>, path |-> <<>>, query |-> <<>>]}
    BY AddressesAreReadBack
  <2> QED
    BY <2>1
<1> QED
  BY <1>1 DEF ValidateUrl

-----------------------------------------------------------------------------
\* The port pool: the ports of a later call come after those of an earlier
\* one, so none is handed out twice.
Before(asked, k) == {s \in (1..(k - 1)) \X (1..2) : s[2] <= asked[s[1]]}

LEMMA FirstNumbers ==
  ASSUME NEW n \in Nat
  PROVE  IsFiniteSet(1..n) /\ Cardinality(1..n) = n
<1>1. 1 \in Int /\ n \in Int /\ (IF 1 > n THEN 0 ELSE n - 1 + 1) = n
  OBVIOUS
<1>2. /\ IsFiniteSet(1..n)
      /\ Cardinality(1..n) = IF 1 > n THEN 0 ELSE n - 1 + 1
  BY <1>1, FS_Interval, Zenon
<1> QED
  BY <1>1, <1>2

LEMMA BeforeCounted ==
  ASSUME NEW asked, NEW k \in Nat
  PROVE  IsFiniteSet(Before(asked, k)) /\ Cardinality(Before(asked, k)) \in Nat
<1>1. IsFiniteSet(1..(k - 1)) /\ IsFiniteSet(1..2)
  <2>1. IsFiniteSet(1..(k - 1))
    BY k - 1 \in Int, FS_Interval
  <2> QED
    BY <2>1, FirstNumbers
<1>2. IsFiniteSet((1..(k - 1)) \X (1..2))
  BY <1>1, FS_Product
<1>3. Before(asked, k) \in SUBSET ((1..(k - 1)) \X (1..2))
  BY DEF Before
<1>4. IsFiniteSet(Before(asked, k))
  BY <1>2, <1>3, FS_Subset
<1> QED
  BY <1>4, FS_CardinalityType

LEMMA LaterStartsBehind ==
  ASSUME NEW n \in Nat, NEW asked \in [1..n -> 1..2],
         NEW k \in 1..n, NEW l \in 1..n, k < l
  PROVE  Cardinality(Before(asked, k)) + asked[k] <= Cardinality(Before(asked, l))
<1> DEFINE Call == {k} \X (1..asked[k])
<1>1. asked[k] \in 1..2 /\ k \in Nat /\ l \in Nat
  OBVIOUS
<1>2. /\ IsFiniteSet({k}) /\ Cardinality({k}) = 1
      /\ IsFiniteSet(1..asked[k]) /\ Cardinality(1..asked[k]) = asked[k]
  <2>1. IsFiniteSet({k}) /\ Cardinality({k}) = 1
    BY FS_Singleton
  <2>2. asked[k] \in Nat
    BY <1>1
  <2> QED
    BY <2>1, <2>2, FirstNumbers
<1>3. IsFiniteSet(Call) /\ Cardinality(Call) = asked[k]
  BY <1>1, <1>2, FS_Product
<1>4. Before(asked, k) \cap Call = {}
  BY <1>1 DEF Before
<1>5. Before(asked, k) \cup Call \in SUBSET Before(asked, l)
  <2>1. Before(asked, k) \subseteq Before(asked, l)
    BY <1>1 DEF Before
  <2>2. Call \subseteq Before(asked, l)
    <3> SUFFICES ASSUME NEW s \in Call PROVE s \in Before(asked, l)
      OBVIOUS
    <3>1. s[1] = k /\ s[2] \in 1..asked[k] /\ s = <<s[1], s[2]>>
      OBVIOUS
    <3>2. s[1] \in 1..(l - 1) /\ s[2] \in 1..2 /\ s[2] <= asked[s[1]]
      BY <1>1, <3>1
    <3> QED
      BY <3>1, <3>2 DEF Before
  <2> QED
    BY <2>1, <2>2
<1> HIDE DEF Call
<1>6. Cardinality(Before(asked, k) \cup Call)
        = Cardinality(Before(asked, k)) + asked[k]
  <2>1. Cardinality(Before(asked, k) \cap Call) = 0
    BY <1>4, FS_EmptySet
  <2>2. IsFiniteSet(Before(asked, k)) /\ Cardinality(Before(asked, k)) \in Nat
    BY <1>1, BeforeCounted
  <2>3. Cardinality(Before(asked, k) \cup Call)
          = Cardinality(Before(asked, k)) + Cardinality(Call)
              - Cardinality(Before(asked, k) \cap Call)
    BY <1>3, <2>2, FS_Union
  <2> QED
    BY <1>1, <1>3, <2>1, <2>2, <2>3
<1>7. Cardinality(Before(asked, k) \cup Call) <= Cardinality(Before(asked, l))
  BY <1>1, <1>5, BeforeCounted, FS_Subset
<1> QED
  BY <1>6, <1>7

\* The port pool hands out no port twice, whatever numbers it is asked for
\* (portpool::get): two places of its answers that hold the same port are one.
THEOREM PoolNeverRepeats ==
  ASSUME NEW n \in Nat, NEW asked \in [1..n -> 1..2],
         NEW k \in 1..n, NEW l \in 1..n,
         NEW i \in 1..asked[k], NEW j \in 1..asked[l]
  PROVE  /\ Pool(asked)[k][i] \in Nat
         /\ Pool(asked)[k][i] = Pool(asked)[l][j] => k = l /\ i = j
<1> DEFINE c(m) == Cardinality(Before(asked, m))
<1>1. asked[k] \in 1..2 /\ asked[l] \in 1..2 /\ k \in Nat /\ l \in Nat
  OBVIOUS
<1>2. /\ Pool(asked)[k][i] = StartPort + c(k) + i - 1
      /\ Pool(asked)[l][j] = StartPort + c(l) + j - 1
  BY DEF Pool, Before
<1>3. c(k) \in Nat /\ c(l) \in Nat /\ StartPort \in Nat
  BY <1>1, BeforeCounted, FactoryAssumption
<1>4. k < l => c(k) + asked[k] <= c(l)
  BY LaterStartsBehind
<1>5. l < k => c(l) + asked[l] <= c(k)
  BY LaterStartsBehind
<1> HIDE DEF c
<1>6. StartPort + c(k) + i - 1 \in Nat
  BY <1>1, <1>3
<1>7. StartPort + c(k) + i - 1 = StartPort + c(l) + j - 1 => k = l /\ i = j
  BY <1>1, <1>3, <1>4, <1>5
<1> QED
  BY <1>2, <1>6, <1>7

\* The factory's thirteen ports are thirteen.
Asked == <<2, 2, 2, 2, 2, 1, 1, 1>>

LEMMA PortsDiffer ==
  ASSUME NEW k \in 1..8, NEW l \in 1..8, NEW i \in 1..Asked[k],
         NEW j \in 1..Asked[l]
  PROVE  Ports[k][i] \in Nat /\ (Ports[k][i] = Ports[l][j] => k = l /\ i = j)
<1> DEFINE n == 8
<1>1. /\ n \in Nat /\ Asked \in [1..n -> 1..2] /\ k \in 1..n /\ l \in 1..n
      /\ i \in 1..Asked[k] /\ j \in 1..Asked[l]
  BY DEF Asked
<1>2. Ports = Pool(Asked)
  BY DEF Ports, Asked
<1> HIDE DEF n
<1>3. /\ Pool(Asked)[k][i] \in Nat
      /\ Pool(Asked)[k][i] = Pool(Asked)[l][j] => k = l /\ i = j
  BY <1>1, PoolNeverRepeats
<1> QED
  BY <1>2, <1>3

LEMMA SocketPorts ==
  /\ RegPort \in Nat /\ HbPorts[1] \in Nat /\ HbPorts[2] \in Nat
  /\ NotifierPort \in Nat /\ MonPort \in Nat
  /\ RegPort \notin {HbPorts[1], HbPorts[2], NotifierPort, MonPort}
  /\ HbPorts[1] \notin {HbPorts[2], NotifierPort, MonPort}
  /\ HbPorts[2] \notin {NotifierPort, MonPort}
  /\ NotifierPort # MonPort
<1>1. Asked[1] = 2 /\ Asked[6] = 1 /\ Asked[7] = 1 /\ Asked[8] = 1
  BY DEF Asked
<1>2. /\ 1 \in 1..Asked[1] /\ 2 \in 1..Asked[1] /\ 1 \in 1..Asked[6]
      /\ 1 \in 1..Asked[7] /\ 1 \in 1..Asked[8]
  BY <1>1
<1>3. /\ Ports[8][1] \in Nat /\ Ports[1][1] \in Nat /\ Ports[1][2] \in Nat
      /\ Ports[7][1] \in Nat /\ Ports[6][1] \in Nat
  BY <1>2, PortsDiffer
<1>4. Ports[8][1] \notin {Ports[1][1], Ports[1][2], Ports[7][1], Ports[6][1]}
  BY <1>2, PortsDiffer
<1>5. Ports[1][1] \notin {Ports[1][2], Ports[7][1], Ports[6][1]}
  BY <1>2, PortsDiffer
<1>6. Ports[1][2] \notin {Ports[7][1], Ports[6][1]}
  BY <1>2, PortsDiffer
<1>7. Ports[7][1] # Ports[6][1]
  BY <1>2, PortsDiffer
<1> QED
  BY <1>3, <1>4, <1>5, <1>6, <1>7 DEF RegPort, HbPorts, NotifierPort, MonPort

\* Eight queues have eight addresses.
LEMMA QueueAddresses ==
  ASSUME NEW t \in Text, NEW i \in Text
  PROVE  LET Q == {Address(t, i, P[side]) : side \in {1, 2},
                     P \in {MuxPorts, TaskPorts, ControlPorts, IopubPorts}} IN
         /\ Cardinality(Q) = 8
         /\ \A address \in Q : \E port \in Nat : address = Address(t, i, port)
<1> DEFINE D == {1, 2} \X (2..5)
           Q == {Address(t, i, P[side]) : side \in {1, 2},
                   P \in {MuxPorts, TaskPorts, ControlPorts, IopubPorts}}
           f == [s \in D |-> Address(t, i, Ports[s[2]][s[1]])]
<1>1. Asked[2] = 2 /\ Asked[3] = 2 /\ Asked[4] = 2 /\ Asked[5] = 2
  BY DEF Asked
<1>2. \A k \in 2..5 : Asked[k] = 2
  <2>1. \A k \in 2..5 : k = 2 \/ k = 3 \/ k = 4 \/ k = 5
    OBVIOUS
  <2> QED
    BY <1>1, <2>1
<1>3. \A k, l \in 2..5, x, y \in {1, 2} :
        Ports[k][x] \in Nat /\ (Ports[k][x] = Ports[l][y] => k = l /\ x = y)
  <2> TAKE k, l \in 2..5, x, y \in {1, 2}
  <2>1. k \in 1..8 /\ l \in 1..8 /\ x \in 1..Asked[k] /\ y \in 1..Asked[l]
    BY <1>2
  <2> QED
    BY <2>1, PortsDiffer
<1>4. Q = {Address(t, i, Ports[s[2]][s[1]]) : s \in D}
  <2>1. \A k \in 2..5 : k = 2 \/ k = 3 \/ k = 4 \/ k = 5
    OBVIOUS
  <2>2. {MuxPorts, TaskPorts, ControlPorts, IopubPorts} = {Ports[k] : k \in 2..5}
    BY <2>1 DEF MuxPorts, TaskPorts, ControlPorts, IopubPorts
  <2>3. Q = {Address(t, i, Ports[k][side]) : side \in {1, 2}, k \in 2..5}
    BY <2>2
  <2>4. \A s \in D : s[1] \in {1, 2} /\ s[2] \in 2..5
    OBVIOUS
  <2>5. \A side \in {1, 2}, k \in 2..5 :
          <<side, k>> \in D /\ <<side, k>>[1] = side /\ <<side, k>>[2] = k
    OBVIOUS
  <2> QED
    BY <2>3, <2>4, <2>5
<1>5. f \in Bijection(D, Q)
  <2>1. f \in [D -> Q]
    BY <1>4
  <2>2. \A s \in D : s = <<s[1], s[2]>> /\ s[1] \in {1, 2} /\ s[2] \in 2..5
    OBVIOUS
  <2>3. ASSUME NEW s \in D, NEW r \in D, f[s] = f[r]
        PROVE  s = r
    <3>1. Ports[s[2]][s[1]] = Ports[r[2]][r[1]]
      BY <1>3, <2>2, <2>3, AddressPort
    <3> QED
      BY <1>3, <2>2, <3>1
  <2>4. ASSUME NEW q \in Q
        PROVE  \E s \in D : f[s] = q
    <3>1. PICK s \in D : q = Address(t, i, Ports[s[2]][s[1]])
      BY <1>4
    <3>2. f[s] = q
      BY <3>1
    <3> QED
      BY <3>2
  <2> HIDE DEF f, D, Q
  <2> QED
    BY <2>1, <2>3, <2>4 DEF Bijection, Injection, Surjection, IsInjective
<1>6. IsFiniteSet(D) /\ Cardinality(D) = 8
  <2>1. 1..2 = {1, 2}
    OBVIOUS
  <2>2. IsFiniteSet(1..2) /\ Cardinality(1..2) = 2
    BY FirstNumbers
  <2>4. /\ IsFiniteSet(2..5)
        /\ Cardinality(2..5) = IF 2 > 5 THEN 0 ELSE 5 - 2 + 1
    BY 2 \in Int, 5 \in Int, FS_Interval, Zenon
  <2>3. IsFiniteSet({1, 2}) /\ Cardinality({1, 2}) = 2
    BY <2>1, <2>2
  <2> QED
    BY <2>3, <2>4, FS_Product
<1>7. Cardinality(Q) = 8
  <2> HIDE DEF f, D, Q
  <2> QED
    BY <1>5, <1>6, FS_Bijection DEF ExistsBijection
<1>8. \A address \in Q : \E port \in Nat : address = Address(t, i, port)
  <2>1. \A s \in D : s[1] \in {1, 2} /\ s[2] \in 2..5
    OBVIOUS
  <2> QED
    BY <1>3, <1>4, <2>1
<1> QED
  BY <1>7, <1>8

-----------------------------------------------------------------------------
\* The sockets of a hub: where each role listens.
RolePort ==
  [query |-> RegPort, ping |-> HbPorts[1], pong |-> HbPorts[2],
   notifier |-> NotifierPort, monitor |-> MonPort]
Socket(m, role) == <<Address(m[1], m[2], RolePort[role]), role>>

LEMMA RolePorts ==
  /\ \A r \in Roles : RolePort[r] \in Nat /\ RolePort[r] \in Used
  /\ \A r, s \in Roles : RolePort[r] = RolePort[s] => r = s
<1>1. /\ RolePort["query"] = RegPort /\ RolePort["ping"] = HbPorts[1]
      /\ RolePort["pong"] = HbPorts[2] /\ RolePort["notifier"] = NotifierPort
      /\ RolePort["monitor"] = MonPort
  BY DEF RolePort
<1>2. \A r \in Roles : RolePort[r] \in Nat /\ RolePort[r] \in Used
  BY <1>1, SocketPorts DEF Roles, Used
<1>3. \A r, s \in Roles : RolePort[r] = RolePort[s] => r = s
  BY <1>1, SocketPorts DEF Roles
<1> QED
  BY <1>2, <1>3

LEMMA BindableIs ==
  ASSUME NEW m \in Bindable
  PROVE  m[1] \in Transports /\ m[2] \in Ips /\ m = <<m[1], m[2]>>
         /\ Plain(m[1], m[2])
BY FactoryAssumption, AddressAssumption DEF Plain

\* Two sockets of one address are one.
LEMMA SocketOnce ==
  ASSUME NEW m \in Bindable, NEW u \in Text, NEW j \in Text,
         NEW r \in Roles, NEW s \in Roles,
         Address(m[1], m[2], RolePort[r]) = Address(u, j, RolePort[s])
  PROVE  m = <<u, j>> /\ r = s
<1>1. Plain(m[1], m[2]) /\ m = <<m[1], m[2]>> /\ m[1] \in Text /\ m[2] \in Text
  BY BindableIs DEF Plain
<1>2. RolePort[r] \in Nat /\ RolePort[s] \in Nat
  BY RolePorts
<1>3. m[1] = u /\ m[2] = j
  BY <1>1, <1>2, AddressParts
<1>4. RolePort[r] = RolePort[s]
  BY <1>1, <1>2, AddressPort
<1> QED
  BY <1>1, <1>3, <1>4, RolePorts

\* A heart monitor's ROUTER listens wherever its PUB socket does, and the
\* factory's monitor URL follows the setters.
FactoryInv ==
  /\ transport \in Transports \cup {<<>>} /\ ip \in Ips \cup {<<>>}
  /\ interval \in Intervals \cup {2000}
  /\ taken \subseteq Used
  /\ attempts \in 0..Attempts
  /\ hub = {} \/ \E h \in hub : hub = {h}
  /\ monitorUrl = Here(MonPort) \/ (transport = <<>> /\ ip = <<>>)
  /\ \A b \in bound : \E m \in Bindable, role \in Roles : b = Socket(m, role)
  /\ \A m \in Bindable : Socket(m, "ping") \in bound => Socket(m, "pong") \in bound

LEMMA SetterTexts ==
  ASSUME FactoryInv
  PROVE  transport \in Text /\ ip \in Text
<1>1. <<>> \in Text
  BY DEF Text
<1> QED
  BY <1>1, AddressAssumption DEF FactoryInv

\* The factory's own address, and its sockets in the order of get().
Mine == <<transport, ip>>
RoleOf == <<"query", "ping", "pong", "notifier", "monitor">>

\* The first step that throws: the binds before it succeed, and get() returns
\* only a factory's first hub, at an address that can be connected to.
LEMMA FirstFailureIs ==
  /\ FirstFailure \in 1..AllDone
  /\ FirstFailure = AllDone => hub = {} /\ Mine \in Connectable
  /\ FirstFailure = InprocBound => hub # {}
  /\ FirstFailure = TaskConnected => Mine \notin Connectable
  /\ \A k \in 1..5 :
       /\ k < FirstFailure =>
            CanBind(Binds[k][1], bound \cup {Binds[j] : j \in 1..(k - 1)})
       /\ k = FirstFailure =>
            ~CanBind(Binds[k][1], bound \cup {Binds[j] : j \in 1..(k - 1)})
<1> DEFINE Can(k) == CanBind(Binds[k][1], bound \cup {Binds[j] : j \in 1..(k - 1)})
           S == {k \in 1..5 : ~Can(k)} \cup LateFailures \cup {AllDone}
<1>1. DOMAIN Binds = 1..5
  BY DEF Binds
<1>2. FirstFailure = Min(S)
  BY <1>1 DEF FirstFailure
<1> HIDE DEF Can
<1>3. /\ 6 \in LateFailures <=> hub # {}
      /\ 7 \in LateFailures <=> Mine \notin Connectable
      /\ LateFailures \subseteq {6, 7}
  BY DEF LateFailures, InprocBound, TaskConnected, Mine
<1>4. /\ S \in SUBSET Nat /\ S # {} /\ S \subseteq 1..8
      /\ 6 \in S <=> hub # {}
      /\ 7 \in S <=> Mine \notin Connectable
      /\ 8 \in S
      /\ \A k \in 1..5 : k \in S <=> ~Can(k)
  <2>1. AllDone = 8
    BY DEF AllDone
  <2>2. \A k : k \in S <=> \/ k \in 1..5 /\ ~Can(k)
                          \/ k \in LateFailures
                          \/ k = 8
    BY <2>1
  <2> HIDE DEF S
  <2>3. S \subseteq 1..8 /\ 8 \in S
    <3>1. 1..5 \subseteq 1..8 /\ LateFailures \subseteq 1..8 /\ 8 \in 1..8
      BY <1>3
    <3> QED
      BY <2>2, <3>1, Zenon
  <2>4. (6 \in S <=> 6 \in LateFailures) /\ (7 \in S <=> 7 \in LateFailures)
    <3>1. 6 \notin 1..5 /\ 7 \notin 1..5 /\ 6 # 8 /\ 7 # 8
      OBVIOUS
    <3> QED
      BY <2>2, <3>1, Zenon
  <2>5. \A k \in 1..5 : k \notin LateFailures /\ k # 8
    BY <1>3
  <2>6. \A k \in 1..5 : k \in S <=> ~Can(k)
    BY <2>2, <2>5
  <2> QED
    BY <1>3, <2>3, <2>4, <2>6
<1> DEFINE first == Min(S)
<1> HIDE DEF S
<1>5. first \in S /\ \A k \in S : first <= k
  BY <1>4, MinIsLeast
<1> HIDE DEF first
<1>6. first \in 1..8
  BY <1>4, <1>5
<1>7. /\ first = 8 => hub = {} /\ Mine \in Connectable
      /\ first = 6 => hub # {}
      /\ first = 7 => Mine \notin Connectable
  BY <1>4, <1>5
<1>8. ASSUME NEW k \in 1..5
      PROVE  (k < first => Can(k)) /\ (k = first => ~Can(k))
  BY <1>4, <1>5, <1>6
<1> QED
  BY <1>2, <1>6, <1>7, <1>8 DEF first, Can, AllDone, InprocBound, TaskConnected

\* Nothing but an address of this machine passes the first bind.
LEMMA FirstBindDecides ==
  ASSUME FactoryInv, FirstFailure > 1
  PROVE  Mine \in Bindable
<1>1. CanBind(Here(RegPort), bound \cup {Binds[j] : j \in 1..(1 - 1)})
  BY FirstFailureIs DEF Binds
<1>2. PICK m \in Bindable, p \in Used \ taken :
        Here(RegPort) = Address(m[1], m[2], p)
  BY <1>1 DEF CanBind
<1>3. RegPort \in Nat /\ p \in Nat
  BY SocketPorts DEF Used
<1>4. Plain(m[1], m[2]) /\ m = <<m[1], m[2]>>
  BY BindableIs
<1>5. Address(m[1], m[2], p) = Address(transport, ip, RegPort)
  BY <1>2 DEF Here
<1>6. m[1] = transport /\ m[2] = ip
  BY <1>3, <1>4, <1>5, SetterTexts, AddressParts
<1> QED
  BY <1>4, <1>6 DEF Mine

LEMMA BindsAre ==
  ASSUME FactoryInv, Mine \in Bindable
  PROVE  /\ monitorUrl = Here(MonPort)
         /\ \A k \in 1..5 : Binds[k] = Socket(Mine, RoleOf[k])
<1>1. ip # <<>>
  BY BindableIs DEF Mine, Plain
<1>2. monitorUrl = Here(MonPort)
  BY <1>1 DEF FactoryInv
<1>3. \A port \in Nat : Here(port) = Address(Mine[1], Mine[2], port)
  BY DEF Here, Mine
<1>4. /\ RolePort["query"] = RegPort /\ RolePort["ping"] = HbPorts[1]
      /\ RolePort["pong"] = HbPorts[2] /\ RolePort["notifier"] = NotifierPort
      /\ RolePort["monitor"] = MonPort
  BY DEF RolePort
<1>5. ASSUME NEW role \in Roles
      PROVE  Socket(Mine, role) = <<Here(RolePort[role]), role>>
  BY <1>3, RolePorts DEF Socket
<1>6. /\ Binds[1] = Socket(Mine, "query") /\ Binds[2] = Socket(Mine, "ping")
      /\ Binds[3] = Socket(Mine, "pong") /\ Binds[4] = Socket(Mine, "notifier")
      /\ Binds[5] = Socket(Mine, "monitor")
  BY <1>2, <1>4, <1>5 DEF Binds, Roles
<1>7. \A k \in 1..5 : k = 1 \/ k = 2 \/ k = 3 \/ k = 4 \/ k = 5
  OBVIOUS
<1> QED
  BY <1>2, <1>6, <1>7 DEF RoleOf

\* What get() leaves: either all as it was, or what it opened before the bind
\* that threw, the monitor's sockets together, but for orphaned PUB sockets.
LEMMA GetOpens ==
  ASSUME FactoryInv, Get, bound' # bound
  PROVE  /\ Mine \in Bindable
         /\ \E N \in SUBSET {Socket(Mine, role) : role \in Roles} :
              /\ bound' = (bound \ Orphans) \cup N
              /\ {Socket(Mine, "ping"), Socket(Mine, "pong")} \subseteq N
<1>1. FirstFailure > 3
  BY FirstFailureIs DEF Get, GetFails, GetReturns, MonitorMade, AllDone
<1>2. Mine \in Bindable
  BY <1>1, FirstFailureIs, FirstBindDecides
<1>3. \A k \in 1..5 : Binds[k] \in {Socket(Mine, role) : role \in Roles}
  <2>1. \A k \in 1..5 : RoleOf[k] \in Roles
    BY DEF RoleOf, Roles
  <2> QED
    BY <1>2, <2>1, BindsAre
<1>4. Binds[2] = Socket(Mine, "ping") /\ Binds[3] = Socket(Mine, "pong")
  BY <1>2, BindsAre DEF RoleOf
<1>5. Binds[2] \in Opened(3) /\ Binds[3] \in Opened(3)
      /\ Binds[2] \in Opened(5) /\ Binds[3] \in Opened(5)
  BY DEF Opened
<1>6. Opened(3) \subseteq Opened(5)
      /\ Opened(5) \subseteq {Socket(Mine, role) : role \in Roles}
  BY <1>3 DEF Opened
<1>7. CASE GetReturns
  BY <1>2, <1>4, <1>5, <1>6, <1>7 DEF GetReturns
<1>8. CASE GetFails
  <2> DEFINE N == {b \in Opened(MonitorMade) : b[2] \in {"ping", "pong"}}
  <2>1. bound' = (bound \ Orphans) \cup N
    BY <1>1, <1>8 DEF GetFails
  <2>2. N \subseteq Opened(3)
    BY DEF MonitorMade
  <2>3. Binds[2] \in N /\ Binds[3] \in N
    BY <1>4, <1>5 DEF MonitorMade, Socket
  <2> HIDE DEF N
  <2> QED
    BY <1>2, <1>4, <1>6, <2>1, <2>2, <2>3
<1> QED
  BY <1>7, <1>8 DEF Get

LEMMA SocketsEqual ==
  ASSUME NEW m \in Bindable, NEW o \in Bindable, NEW r \in Roles, NEW s \in Roles,
         Socket(m, r) = Socket(o, s)
  PROVE  m = o /\ r = s
<1>1. /\ o[1] \in Text /\ o[2] \in Text /\ o = <<o[1], o[2]>>
      /\ Address(m[1], m[2], RolePort[r]) = Address(o[1], o[2], RolePort[s])
  BY BindableIs DEF Plain, Socket
<1> QED
  BY <1>1, SocketOnce

LEMMA SocketsKept ==
  ASSUME FactoryInv, Get
  PROVE  /\ \A b \in bound' : \E m \in Bindable, role \in Roles : b = Socket(m, role)
         /\ \A m \in Bindable :
              Socket(m, "ping") \in bound' => Socket(m, "pong") \in bound'
<1>1. CASE bound' = bound
  BY <1>1 DEF FactoryInv
<1>2. CASE bound' # bound
  <2>1. Mine \in Bindable
    BY <1>2, GetOpens
  <2>2. PICK N \in SUBSET {Socket(Mine, role) : role \in Roles} :
          /\ bound' = (bound \ Orphans) \cup N
          /\ {Socket(Mine, "ping"), Socket(Mine, "pong")} \subseteq N
    BY <1>2, GetOpens
  <2>3. ASSUME NEW b \in bound'
        PROVE  \E m \in Bindable, role \in Roles : b = Socket(m, role)
    BY <2>1, <2>2, <2>3 DEF FactoryInv
  <2>4. ASSUME NEW m \in Bindable, Socket(m, "ping") \in bound'
        PROVE  Socket(m, "pong") \in bound'
    <3>1. "ping" \in Roles /\ "pong" \in Roles
      BY DEF Roles
    <3>2. CASE Socket(m, "ping") \in N
      <4>1. PICK role \in Roles : Socket(m, "ping") = Socket(Mine, role)
        BY <2>2, <3>2
      <4>2. m = Mine
        BY <2>1, <3>1, <4>1, SocketsEqual
      <4> QED
        BY <2>2, <4>2
    <3>3. CASE Socket(m, "ping") \in bound
      <4>1. Socket(m, "pong") \in bound
        BY <3>3 DEF FactoryInv
      <4>2. Socket(m, "pong") \notin Orphans
        BY DEF Orphans, Socket
      <4> QED
        BY <2>2, <4>1, <4>2
    <3> QED
      BY <2>2, <2>4, <3>2, <3>3
  <2> QED
    BY <2>3, <2>4
<1> QED
  BY <1>1, <1>2

LEMMA FactoryInvHolds == FactorySpec => []FactoryInv
<1>1. FactoryInit => FactoryInv
  BY FactoryAssumption DEF FactoryInit, FactoryInv
<1>2. FactoryInv /\ [FactoryNext]_factoryVars => FactoryInv'
  <2> SUFFICES ASSUME FactoryInv, [FactoryNext]_factoryVars
               PROVE  FactoryInv'
    OBVIOUS
  <2>1. ASSUME NEW i \in Ips, SetIp(i)
        PROVE  FactoryInv'
    BY <2>1 DEF SetIp, FactoryInv, Here
  <2>2. ASSUME NEW t \in Transports, SetTransport(t)
        PROVE  FactoryInv'
    BY <2>2 DEF SetTransport, FactoryInv, Here
  <2>3. ASSUME NEW n \in Intervals, HmInterval(n)
        PROVE  FactoryInv'
    BY <2>3 DEF HmInterval, FactoryInv, Here
  <2>4. ASSUME NEW P \in SUBSET Used, Neighbours(P)
        PROVE  FactoryInv'
    BY <2>4 DEF Neighbours, FactoryInv, Here
  <2>5. CASE Get
    <3>1. attempts' \in 0..Attempts
      BY <2>5, FactoryAssumption DEF Get, FactoryInv
    <3>2. hub' = {} \/ \E h \in hub' : hub' = {h}
      BY <2>5 DEF Get, GetFails, GetReturns, FactoryInv
    <3>3. UNCHANGED <<transport, ip, monitorUrl, interval, taken>>
      BY <2>5 DEF Get
    <3> QED
      BY <2>5, <3>1, <3>2, <3>3, SocketsKept DEF FactoryInv, Here
  <2>6. CASE UNCHANGED factoryVars
    BY <2>6 DEF factoryVars, FactoryInv, Here
  <2> QED
    BY <2>1, <2>2, <2>3, <2>4, <2>5, <2>6 DEF FactoryNext
<1> QED
  BY <1>1, <1>2, PTL DEF FactorySpec

\* Every socket get() opens has an address the parser accepts, whichever
\* setters were called before.
THEOREM FactoryTypeCorrect == FactorySpec => []FactoryTypeOK
<1>1. FactoryInv => FactoryTypeOK
  <2> SUFFICES ASSUME FactoryInv PROVE FactoryTypeOK
    OBVIOUS
  <2>1. Cardinality(hub) <= 1
    <3>1. CASE hub = {}
      BY <3>1, FS_EmptySet
    <3>2. CASE hub # {}
      <4>1. PICK h \in hub : hub = {h}
        BY <3>2 DEF FactoryInv
      <4>2. Cardinality({h}) = 1
        BY FS_Singleton
      <4> QED
        BY <4>1, <4>2
    <3> QED
      BY <3>1, <3>2
  <2>2. ASSUME NEW b \in bound
        PROVE  ValidateUrl(b[1]) /\ b[2] \in Roles
    <3>1. PICK m \in Bindable, role \in Roles : b = Socket(m, role)
      BY DEF FactoryInv
    <3>2. b[1] = Address(m[1], m[2], RolePort[role]) /\ b[2] = role
      BY <3>1 DEF Socket
    <3>3. Plain(m[1], m[2]) /\ RolePort[role] \in Nat
      BY BindableIs, RolePorts
    <3> QED
      BY <3>2, <3>3, PlainIsValid
  <2> QED
    BY <2>1, <2>2 DEF FactoryInv, FactoryTypeOK
<1> QED
  BY <1>1, FactoryInvHolds, PTL

-----------------------------------------------------------------------------
\* The hub that get() returns stands behind all it hands out.
LEMMA NewHubReached ==
  ASSUME FactoryInv, Get, GetReturns
  PROVE  EnginesReachHub'
<1>1. Mine \in Bindable
  BY FirstBindDecides DEF GetReturns, AllDone
<1>2. Plain(transport, ip) /\ transport \in Text /\ ip \in Text
  BY <1>1, BindableIs DEF Mine, Plain
<1>3. monitorUrl = Here(MonPort)
  BY <1>1, BindsAre
<1>4. /\ <<Here(RegPort), "query">> \in bound'
      /\ <<Here(HbPorts[1]), "ping">> \in bound'
      /\ <<Here(HbPorts[2]), "pong">> \in bound'
      /\ <<Here(NotifierPort), "notifier">> \in bound'
      /\ <<Here(MonPort), "monitor">> \in bound'
  <2>1. \A k \in 1..5 : Binds[k] \in bound'
    BY DEF GetReturns, Opened
  <2> QED
    BY <1>3, <2>1 DEF Binds
<1>5. \A port \in Nat : ValidateUrl(Here(port))
  BY <1>2, PlainIsValid DEF Here
<1>6. /\ Info.registration = Here(RegPort) /\ Info.notification = Here(NotifierPort)
      /\ Info.heartbeat[1] = Here(HbPorts[1]) /\ Info.heartbeat[2] = Here(HbPorts[2])
      /\ Info.monitor = Here(MonPort)
  BY DEF Info
<1>7. /\ Cardinality(Info.queues) = 8
      /\ \A address \in Info.queues : \E port \in Nat : address = Here(port)
  <2>1. Info.queues =
          {Address(transport, ip, P[side]) : side \in {1, 2},
             P \in {MuxPorts, TaskPorts, ControlPorts, IopubPorts}}
    BY DEF Info, Here
  <2> QED
    BY <1>2, <2>1, QueueAddresses DEF Here
<1>8. \A address \in Info.queues \cup {Info.registration, Info.notification,
                                       Info.heartbeat[1], Info.heartbeat[2]} :
        ValidateUrl(address)
  BY <1>5, <1>6, <1>7, SocketPorts
<1>9. hub' = {Info}
  BY DEF GetReturns
<1> DEFINE h == Info
<1>10. /\ {<<h.registration, "query">>, <<h.heartbeat[1], "ping">>,
           <<h.heartbeat[2], "pong">>, <<h.notification, "notifier">>,
           <<h.monitor, "monitor">>} \subseteq bound'
       /\ \A address \in h.queues \cup {h.registration, h.notification,
                                        h.heartbeat[1], h.heartbeat[2]} :
            ValidateUrl(address)
       /\ Cardinality(h.queues) = 8
  BY <1>4, <1>6, <1>7, <1>8
<1> HIDE DEF h
<1>11. hub' = {h}
  BY <1>9 DEF h
<1> QED
  BY <1>10, <1>11 DEF EnginesReachHub

\* Once made, a hub keeps its sockets: all later attempts fail, and the heart
\* monitor they replace is not the one the hub shares.
LEMMA OldHubReached ==
  ASSUME EnginesReachHub, Get, ~GetReturns
  PROVE  EnginesReachHub'
<1>1. hub' = hub /\ (bound \ Orphans) \subseteq bound'
  BY DEF Get, GetFails
<1> SUFFICES ASSUME NEW h \in hub
             PROVE  {<<h.registration, "query">>, <<h.heartbeat[1], "ping">>,
                     <<h.heartbeat[2], "pong">>, <<h.notification, "notifier">>,
                     <<h.monitor, "monitor">>} \subseteq bound'
  BY <1>1 DEF EnginesReachHub
<1>2. {<<h.registration, "query">>, <<h.heartbeat[1], "ping">>,
       <<h.heartbeat[2], "pong">>, <<h.notification, "notifier">>,
       <<h.monitor, "monitor">>} \subseteq bound
  BY DEF EnginesReachHub
<1>3. {<<h.registration, "query">>, <<h.heartbeat[1], "ping">>,
       <<h.heartbeat[2], "pong">>, <<h.notification, "notifier">>,
       <<h.monitor, "monitor">>} \cap Orphans = {}
  BY DEF Orphans
<1> QED
  BY <1>1, <1>2, <1>3

\* Every address a hub hands out is one the parser accepts and leads to the
\* hub's socket for it, and no two queues have the same: for every address of
\* the machine, every start port, and whatever setters and attempts follow.
THEOREM HubsAreReached == FactorySpec => []EnginesReachHub
<1>1. FactoryInit => EnginesReachHub
  BY DEF FactoryInit, EnginesReachHub
<1>2. FactoryInv /\ EnginesReachHub /\ [FactoryNext]_factoryVars => EnginesReachHub'
  <2> SUFFICES ASSUME FactoryInv, EnginesReachHub, [FactoryNext]_factoryVars
               PROVE  EnginesReachHub'
    OBVIOUS
  <2>1. CASE Get
    BY <2>1, NewHubReached, OldHubReached
  <2>2. CASE UNCHANGED <<bound, hub>>
    BY <2>2 DEF EnginesReachHub
  <2> QED
    BY <2>1, <2>2
       DEF FactoryNext, SetIp, SetTransport, HmInterval, Neighbours, factoryVars
<1> QED
  BY <1>1, <1>2, FactoryInvHolds, PTL DEF FactorySpec

-----------------------------------------------------------------------------
\* Only a heart monitor's sockets, and one PUB socket for all attempts.
LeftOver ==
  /\ \A b \in bound : b[2] \in {"ping", "pong"}
  /\ \A b, c \in bound : b[2] = "ping" /\ c[2] = "ping" => b = c

LEMMA LeftOverIsFew ==
  ASSUME LeftOver
  PROVE  Cardinality({b \in bound : b[2] = "ping"}) <= 1
<1> DEFINE P == {b \in bound : b[2] = "ping"}
<1>1. CASE P = {}
  BY <1>1, FS_EmptySet
<1>2. CASE P # {}
  <2>1. PICK b \in P : TRUE
    BY <1>2
  <2>2. \A c \in P : c = b
    BY <2>1 DEF LeftOver
  <2> HIDE DEF P
  <2>3. P = {b}
    BY <2>1, <2>2
  <2>4. Cardinality(P) = 1
    BY <2>3, FS_Singleton
  <2> QED
    BY <2>4 DEF P
<1> QED
  BY <1>1, <1>2

\* The second and third sockets that are opened are the monitor's.
LEMMA MonitorSockets ==
  \A b \in Opened(MonitorMade) : b[2] = "ping" => b = Binds[2]
<1>1. Binds[1][2] = "query" /\ Binds[3][2] = "pong"
  BY DEF Binds
<1> QED
  BY <1>1 DEF Opened, MonitorMade

\* A failing get() first lets go of the PUB socket of the attempt before.
LEMMA GetLeavesFew ==
  ASSUME hub = {}, LeftOver, Get, hub' = {}
  PROVE  LeftOver'
<1>1. GetFails
  BY DEF Get, GetReturns
<1>2. CASE UNCHANGED bound
  BY <1>2 DEF LeftOver
<1>3. CASE bound' = (bound \ Orphans) \cup
                      {b \in Opened(MonitorMade) : b[2] \in {"ping", "pong"}}
  <2>1. Orphans = {b \in bound : b[2] = "ping"}
    BY DEF Orphans
  <2>2. \A b \in bound \ Orphans : b[2] = "pong"
    BY <2>1 DEF LeftOver
  <2> QED
    BY <1>3, <2>2, MonitorSockets DEF LeftOver
<1> QED
  BY <1>1, <1>2, <1>3 DEF GetFails

LEMMA LeftOverHolds == FactorySpec => [](hub = {} => LeftOver)
<1> DEFINE Inv == hub = {} => LeftOver
<1>1. FactoryInit => Inv
  BY DEF FactoryInit, LeftOver
<1>2. Inv /\ [FactoryNext]_factoryVars => Inv'
  <2> SUFFICES ASSUME Inv, [FactoryNext]_factoryVars, hub' = {}
               PROVE  LeftOver'
    OBVIOUS
  <2>1. CASE Get
    <3>1. hub = {}
      BY <2>1 DEF Get, GetFails, GetReturns
    <3> QED
      BY <2>1, <3>1, GetLeavesFew
  <2>2. CASE UNCHANGED <<bound, hub>>
    BY <2>2 DEF LeftOver
  <2> QED
    BY <2>1, <2>2
       DEF FactoryNext, SetIp, SetTransport, HmInterval, Neighbours, factoryVars
<1> QED
  BY <1>1, <1>2, PTL DEF FactorySpec

\* However often get() throws, at whichever bind and with whatever changed in
\* between, no socket stays but those of a heart monitor, and of those with
\* its PUB socket at most one.
THEOREM FailuresLeaveMonitors == FactorySpec => []FailureLeavesMonitor
<1>1. (hub = {} => LeftOver) => FailureLeavesMonitor
  BY LeftOverIsFew DEF FailureLeavesMonitor, LeftOver
<1> QED
  BY <1>1, LeftOverHolds, PTL

-----------------------------------------------------------------------------
\* With no hub made, no port taken and no ROUTER left near this address, every
\* bind succeeds: what is left over elsewhere is no obstacle.
LEMMA EveryBindSucceeds ==
  ASSUME FactoryInv, LeftOver, taken = {}, Mine \in Bindable,
         \A m \in Near(Mine) : Socket(m, "pong") \notin bound, NEW k \in 1..5
  PROVE  CanBind(Binds[k][1], bound \cup {Binds[j] : j \in 1..(k - 1)})
<1> DEFINE port == RolePort[RoleOf[k]]
<1>1. \A n \in 1..5 : Binds[n] = Socket(Mine, RoleOf[n]) /\ RoleOf[n] \in Roles
  <2>1. \A n \in 1..5 : RoleOf[n] \in Roles
    BY DEF RoleOf, Roles
  <2> QED
    BY <2>1, BindsAre
<1>2. "ping" \in Roles /\ "pong" \in Roles
  BY DEF Roles
<1>3. Binds[k][1] = Address(Mine[1], Mine[2], port) /\ port \in Used \ taken
  BY <1>1, RolePorts DEF Socket
<1>4. ASSUME NEW n \in Near(Mine), NEW b \in bound
      PROVE  b[1] # Address(n[1], n[2], port)
  <2> SUFFICES ASSUME b[1] = Address(n[1], n[2], port) PROVE FALSE
    OBVIOUS
  <2>1. PICK m \in Bindable, role \in Roles : b = Socket(m, role)
    BY DEF FactoryInv
  <2>2. n \in Bindable /\ n[1] \in Text /\ n[2] \in Text /\ n = <<n[1], n[2]>>
    BY BindableIs DEF Near, Plain
  <2>3. m = n /\ role = RoleOf[k]
    BY <1>1, <2>1, <2>2, SocketOnce DEF Socket
  <2>4. role = "ping" \/ role = "pong"
    BY <2>1 DEF LeftOver, Socket
  <2>5. Socket(n, "pong") \in bound
    BY <2>1, <2>2, <2>3, <2>4 DEF FactoryInv
  <2> QED
    BY <2>5
<1>5. ASSUME NEW n \in Near(Mine), NEW j \in 1..(k - 1)
      PROVE  Binds[j][1] # Address(n[1], n[2], port)
  <2> SUFFICES ASSUME Binds[j][1] = Address(n[1], n[2], port) PROVE FALSE
    OBVIOUS
  <2>1. j \in 1..5 /\ j # k
    OBVIOUS
  <2>2. n[1] \in Text /\ n[2] \in Text
    BY BindableIs DEF Near, Plain
  <2>3. Address(Mine[1], Mine[2], RolePort[RoleOf[j]]) = Address(n[1], n[2], port)
    BY <1>1, <2>1 DEF Socket
  <2>4. RoleOf[j] = RoleOf[k]
    BY <1>1, <2>1, <2>2, <2>3, SocketOnce
  <2>5. \A x, y \in 1..5 : RoleOf[x] = RoleOf[y] => x = y
    BY DEF RoleOf
  <2> QED
    BY <2>1, <2>4, <2>5
<1> HIDE DEF port
<1> QED
  BY <1>3, <1>4, <1>5 DEF CanBind

\* The third bind is the pong's, and it looks at all addresses near.
LEMMA ThirdBindDecides ==
  ASSUME FactoryInv, FirstFailure > 3, NEW n \in Near(Mine)
  PROVE  Socket(n, "pong") \notin bound
<1>1. Mine \in Bindable
  BY FirstFailureIs, FirstBindDecides
<1>2. CanBind(Binds[3][1], bound \cup {Binds[j] : j \in 1..(3 - 1)})
  BY FirstFailureIs
<1>3. Binds[3][1] = Address(Mine[1], Mine[2], HbPorts[2])
  BY <1>1, BindsAre DEF RoleOf, Socket, RolePort
<1>4. PICK m \in Bindable, p \in Used \ taken :
        /\ Binds[3][1] = Address(m[1], m[2], p)
        /\ \A o \in Near(m) : Address(o[1], o[2], p) \notin {b[1] : b \in bound}
  BY <1>2 DEF CanBind
<1>5. HbPorts[2] \in Nat /\ p \in Nat
  BY SocketPorts DEF Used
<1>6. /\ Plain(m[1], m[2]) /\ m = <<m[1], m[2]>>
      /\ Mine[1] \in Text /\ Mine[2] \in Text /\ Mine = <<Mine[1], Mine[2]>>
  BY <1>1, BindableIs DEF Plain
<1>7. m = Mine /\ p = HbPorts[2]
  <2>1. Address(m[1], m[2], p) = Address(Mine[1], Mine[2], HbPorts[2])
    BY <1>3, <1>4
  <2>2. m[1] = Mine[1] /\ m[2] = Mine[2]
    BY <1>5, <1>6, <2>1, AddressParts
  <2>3. m[1] \in Text /\ m[2] \in Text
    BY <1>6 DEF Plain
  <2>4. p = HbPorts[2]
    BY <1>5, <1>6, <2>1, <2>3, AddressPort
  <2> QED
    BY <1>6, <2>2, <2>4
<1>8. Socket(n, "pong")[1] = Address(n[1], n[2], HbPorts[2])
  BY DEF Socket, RolePort
<1> QED
  BY <1>4, <1>7, <1>8

LEMMA GetSucceeds ==
  ASSUME FactoryInv, LeftOver, Get, hub = {}, taken = {}, Mine \in Bindable
  PROVE  hub' # {} <=> /\ Mine \in Connectable
                       /\ \A m \in Near(Mine) : Socket(m, "pong") \notin bound
<1>1. ASSUME Mine \in Connectable,
             \A m \in Near(Mine) : Socket(m, "pong") \notin bound
      PROVE  hub' # {}
  <2>1. FirstFailure \in 1..8 /\ FirstFailure # 6 /\ FirstFailure # 7
    BY <1>1, FirstFailureIs DEF AllDone, InprocBound, TaskConnected
  <2>2. \A k \in 1..5 : k # FirstFailure
    BY <1>1, EveryBindSucceeds, FirstFailureIs
  <2>3. FirstFailure = AllDone
    BY <2>1, <2>2 DEF AllDone
  <2>4. GetReturns
    BY <2>3 DEF Get, GetFails, AllDone
  <2> QED
    BY <2>4 DEF GetReturns
<1>2. ASSUME hub' # {}
      PROVE  /\ Mine \in Connectable
             /\ \A m \in Near(Mine) : Socket(m, "pong") \notin bound
  <2>1. FirstFailure = AllDone
    BY <1>2 DEF Get, GetFails, GetReturns
  <2>2. Mine \in Connectable /\ FirstFailure > 3
    BY <2>1, FirstFailureIs DEF AllDone
  <2> QED
    BY <2>2, ThirdBindDecides
<1> QED
  BY <1>1, <1>2

\* A factory that was given an address of this machine returns its hub exactly
\* when, with no port taken, the address can be connected to and no ROUTER of
\* an earlier attempt is near: the order of the setters, and attempts at
\* addresses that do not overlap, make no difference.
THEOREM FactoriesWork == FactorySpec => GetWorks
<1>1. FactoryInv /\ (hub = {} => LeftOver) /\ [FactoryNext]_factoryVars
        => [Get /\ hub = {} /\ taken = {} /\ <<transport, ip>> \in Bindable
              => (hub' # {} <=>
                    /\ <<transport, ip>> \in Connectable
                    /\ \A m \in Near(<<transport, ip>>) :
                         <<Address(m[1], m[2], HbPorts[2]), "pong">>
                           \notin bound)]_factoryVars
  <2> SUFFICES ASSUME FactoryInv, LeftOver, Get, hub = {}, taken = {},
                      Mine \in Bindable
               PROVE  hub' # {} <=>
                        /\ Mine \in Connectable
                        /\ \A m \in Near(Mine) :
                             <<Address(m[1], m[2], HbPorts[2]), "pong">> \notin bound
    BY DEF Mine
  <2>1. \A m \in Near(Mine) :
          Socket(m, "pong") = <<Address(m[1], m[2], HbPorts[2]), "pong">>
    BY DEF Socket, RolePort
  <2> QED
    BY <2>1, GetSucceeds
<1> QED
  BY <1>1, FactoryInvHolds, LeftOverHolds, PTL DEF FactorySpec, GetWorks

-----------------------------------------------------------------------------
\* Whatever text is typed, token by token, and however long it gets, the
\* parser finds in it what the reference finds.
THEOREM TypedTextsAgree == Spec => []ParserAgrees
<1> DEFINE Inv == text \in Text
<1>1. \A t \in Tokens : t \in Token
  BY DEF Tokens, Token, Word, Number
<1>2. Init => Inv
  <2>1. /\ <<>> \in Seq(Token) /\ ProtEnd \in Seq(Token)
        /\ <<Capitals>> \in Seq(Token)
    BY DEF ProtEnd, Token
  <2>2. <<Capitals>> \o ProtEnd \in Seq(Token)
    BY <2>1, ConcatTokens
  <2>3. <<Capitals>> \o ProtEnd \o <<Capitals>> \in Seq(Token)
    BY <2>1, <2>2, ConcatTokens
  <2> QED
    BY <2>1, <2>3 DEF Init, Starts, Text
<1>3. Inv /\ [SetUp \/ Grow]_<<factoryVars, text>> => Inv'
  BY <1>1, AppendProperties DEF SetUp, Grow, Text
<1>4. Inv => ParserAgrees
  BY ParserMeetsReference DEF ParserAgrees
<1> QED
  BY <1>2, <1>3, <1>4, PTL DEF Spec
=============================================================================

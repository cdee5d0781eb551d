-------------------------------- MODULE Url --------------------------------
(***************************************************************************)
(* The URL parser (util/url_handling.cpp).  A text is a sequence of        *)
(* tokens: words, numbers and the three separator characters; a word or a  *)
(* number may be spelled in several tokens.  A word has a spelling in      *)
(* lower case (value 0) and one with capitals (value 1).                   *)
(***************************************************************************)
EXTENDS Integers, Sequences, FiniteSetsExt

Word == [kind |-> "word", value |-> 0]
Capitals == [kind |-> "word", value |-> 1]
Number(n) == [kind |-> "number", value |-> n]
Mark(c) == [kind |-> c, value |-> 0]
ProtEnd == <<Mark(":"), Mark("/"), Mark("/")>>

Token ==
  {Word, Capitals, Mark(":"), Mark("/"), Mark("?")}
    \cup [kind : {"number"}, value : Nat]
Text == Seq(Token)

-----------------------------------------------------------------------------
\* Iterators: a position in the text, or Len(text) + 1 for end().  Ranges
\* are half open.
End(text) == Len(text) + 1
Slice(text, i, j) == SubSeq(text, i, j - 1)

\* std::find from position i.
Find(text, i, c) ==
  Min({k \in i..Len(text) : text[k].kind = c} \cup {End(text)})

\* std::search for "://".
FindProtEnd(text) ==
  Min({k \in 1..(Len(text) - 2) : SubSeq(text, k, k + 2) = ProtEnd}
        \cup {End(text)})

Lower(t) == IF t = Capitals THEN Word ELSE t
ToLower(text) == [k \in DOMAIN text |-> Lower(text[k])]

\* lexical_cast<int>: digits to the end, and at least one.
IsInt(text) ==
  text # <<>> /\ \A k \in DOMAIN text : text[k].kind = "number"

\* A parser that forgets that the ":" may stand behind the path's "/".
PortOkUnordered(text, port, path) ==
  \/ port = End(text)
  \/ path <= port
  \/ IsInt(Slice(text, port + 1, path))
\* The port, when there is a ":": the digits between it and the path.  A path
\* in front of it makes the distance negative, which reserve() refuses.
PortOk(text, port, path) ==
  \/ port = End(text)
  \/ path > port /\ IsInt(Slice(text, port + 1, path))

NoPort == <<>>

\* url::parse: the set of parsed URLs, empty when the constructor throws.
Parse(text) ==
  LET prot == FindProtEnd(text)
      host == prot + 3
      port == Find(text, host, ":")
      path == Find(text, host, "/")
      hostEnd == IF port = End(text) THEN path ELSE port
      query == Find(text, path, "?") IN
  {u \in {[protocol |-> ToLower(Slice(text, 1, prot)),
           host |-> ToLower(Slice(text, host, hostEnd)),
           port |-> IF port = End(text) THEN NoPort
                                        ELSE Slice(text, port + 1, path),
           path |-> Slice(text, path, query),
           query |-> Slice(text, query + 1, End(text))]} :
     /\ prot # End(text)
     /\ PortOk(text, port, path)
     /\ u.host # <<>>}

ValidateUrl(text) == Parse(text) # {}

-----------------------------------------------------------------------------
\* The reference: a text is a URL when it can be cut, at "://" and at three
\* places behind it, into a protocol, a host, a port with its ":", a path and
\* a query with its "?".  The query needs a path in front of it, and without
\* a port no ":" may follow the host.
Free(text, C) == \A k \in DOMAIN text : text[k].kind \notin C
Behind(text) == Slice(text, 2, End(text))

Pieces(text, c) ==
  LET prot == FindProtEnd(text) IN
  [protocol |-> Slice(text, 1, prot),
   host |-> Slice(text, prot + 3, c[1]),
   port |-> Slice(text, c[1], c[2]),
   path |-> Slice(text, c[2], c[3]),
   query |-> Slice(text, c[3], End(text))]

WellFormed(p) ==
  /\ p.host # <<>> /\ Free(p.host, {":", "/"})
  /\ \/ p.port # <<>> /\ p.port[1] = Mark(":") /\ IsInt(Behind(p.port))
     \/ p.port = <<>> /\ Free(p.path, {":"}) /\ Free(p.query, {":"})
  /\ p.path # <<>> => p.path[1] = Mark("/") /\ Free(p.path, {"?"})
  /\ p.query # <<>> => p.query[1] = Mark("?") /\ p.path # <<>>

Reference(text) ==
  LET prot == FindProtEnd(text)
      n == End(text)
      cuts == {c \in ((prot + 3)..n) \X ((prot + 3)..n) \X ((prot + 3)..n) :
                 c[1] <= c[2] /\ c[2] <= c[3] /\ WellFormed(Pieces(text, c))} IN
  {[protocol |-> ToLower(p.protocol), host |-> ToLower(p.host),
    port |-> Behind(p.port), path |-> p.path, query |-> Behind(p.query)] :
     p \in {Pieces(text, c) : c \in cuts}}
=============================================================================

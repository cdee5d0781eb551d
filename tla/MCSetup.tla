------------------------------ MODULE MCSetup ------------------------------
(* The factory with two addresses of this machine, one for all of its      *)
(* interfaces, which overlaps both, and one that is none; and apart from   *)
(* it every URL text up to a length, grown token by token: what an engine  *)
(* may be given as the hub's address.                                      *)
EXTENDS HubFactory
CONSTANT MaxLength
VARIABLE text

MCIntervals == {2000, 3000}
MCHome == <<Word>>
MCOther == <<Number(1), Word>>
MCAny == <<Word, Word>>
MCTransports == {<<Word>>, <<Capitals>>}
MCIps == {MCHome, MCOther, MCAny, <<Word, Mark("/"), Word>>}
MCConnectable == {<<<<Word>>, MCHome>>, <<<<Word>>, MCOther>>}
MCBindable == MCConnectable \cup {<<<<Word>>, MCAny>>}
MCOverlapping ==
  {p \in MCBindable \X MCBindable :
     p[1] = p[2] \/ \E k \in {1, 2} : p[k][2] = MCAny}
Tokens == {Word, Number(1), Mark(":"), Mark("/"), Mark("?")}
Starts == {<<>>, ProtEnd, <<Capitals>> \o ProtEnd \o <<Capitals>>}

Init == FactoryInit /\ text \in Starts
SetUp == FactoryNext /\ text = <<>> /\ UNCHANGED text
Grow ==
  /\ transport = <<>> /\ ip = <<>> /\ taken = {} /\ attempts = 0
  /\ Len(text) < MaxLength
  /\ \E t \in Tokens : text' = Append(text, t)
  /\ UNCHANGED factoryVars
Spec == Init /\ [][SetUp \/ Grow]_<<factoryVars, text>>

\* The hand-written parser accepts exactly the texts that can be cut into the
\* parts of a URL, and finds these parts.
ParserAgrees == Parse(text) = Reference(text)
=============================================================================

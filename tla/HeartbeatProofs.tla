--------------------------- MODULE HeartbeatProofs ---------------------------
(***************************************************************************)
(* Heartbeat for any set of hearts: its types, that a prompt heart is kept *)
(* and a stopped one dropped, and that beat() implements FailureDetector.  *)
(***************************************************************************)
EXTENDS Heartbeat, TLAPS

-----------------------------------------------------------------------------
\* The inductive invariant.

\* An answer of h to the ping sent a beats ago is on its way.
Awaited(h, a) == \E m \in pings \cup pongs : m.heart = h /\ m.age = a

\* A prompt heart that never ran left no trace.
PromptUp ==
  \A h \in Prompt : h \notin up =>
    /\ h \notin hearts
    /\ h \notin responses
    /\ \A m \in pongs : m.heart # h

\* The answer that will save a prompt heart from its next missed beat.
PromptInv ==
  \A h \in Prompt :
    /\ h \in hearts => h \in responses \/ Awaited(h, 0)
    /\ h \in onProbation => h \in responses \/ Awaited(h, 1)

\* What a stopped heart leaves behind gets older with every beat.
StoppedInv ==
  \A h \in Heart :
    /\ downBeats[h] > 0 => h \notin up
    /\ h \notin up => \A m \in pings : m.heart # h
    /\ \A m \in pongs :
         m.heart = h => m.age >= 2 \/ m.age >= downBeats[h]
    /\ downBeats[h] >= 2 => h \notin responses
    /\ downBeats[h] >= 3 /\ h \in hearts => h \in onProbation
    /\ downBeats[h] >= 4 => h \notin hearts

\* Until a prompt heart is known, its pings or an answer are on their way.
FoundInv ==
  \A h \in Prompt :
    /\ upBeats[h] >= 1 => h \in hearts \cup responses \/ Awaited(h, 0)
    /\ upBeats[h] >= 2 => h \in hearts \cup responses \/ Awaited(h, 1)
    /\ upBeats[h] >= 3 => h \in hearts

IInv ==
  /\ TypeOK
  /\ PromptUp
  /\ PromptInv
  /\ StoppedInv
  /\ FoundInv

-----------------------------------------------------------------------------
\* Aging keeps messages messages.
LEMMA AgedType ==
  ASSUME NEW M \in SUBSET Message
  PROVE  Aged(M) \in SUBSET Message
BY DEF Aged, Message, Older, MaxAge

\* Fresh messages are messages.
LEMMA FreshType ==
  ASSUME NEW H \in SUBSET Heart
  PROVE  Fresh(H) \in SUBSET Message
BY DEF Fresh, Message, MaxAge

\* An aged message is one beat older than some message of the same heart.
LEMMA AgedFrom ==
  ASSUME NEW M \in SUBSET Message, NEW m \in Aged(M)
  PROVE  \E n \in M : m.heart = n.heart /\ m.age = Older(n.age, MaxAge)
BY DEF Aged

\* A message of age a < 2 is found one beat older among the aged ones.
LEMMA AgedTo ==
  ASSUME NEW M \in SUBSET Message, NEW n \in M, n.age < 2
  PROVE  \E m \in Aged(M) : m.heart = n.heart /\ m.age = n.age + 1
<1> DEFINE m == [heart |-> n.heart, age |-> Older(n.age, MaxAge)]
<1>1. m \in Aged(M)
  BY DEF Aged
<1>2. n.age \in 0..2
  BY DEF Message, MaxAge
<1>3. m.heart = n.heart /\ m.age = n.age + 1
  BY <1>2 DEF Older, MaxAge
<1> QED
  BY <1>1, <1>3

-----------------------------------------------------------------------------
\* Every variable keeps its type.
LEMMA InitType == Init => TypeOK
BY DEF Init, TypeOK, MonitorInit, MonitorTypeOK, MaxDownBeats, MaxUpBeats

LEMMA NextType == TypeOK /\ [Next]_vars => TypeOK'
<1> SUFFICES ASSUME TypeOK, [Next]_vars
             PROVE  TypeOK'
  OBVIOUS
<1> USE DEF TypeOK, MonitorTypeOK
<1>1. ASSUME NEW h \in Heart, Start(h)
      PROVE  TypeOK'
  BY <1>1 DEF Start, monitorVars, MaxDownBeats
<1>2. ASSUME NEW h \in Heart, Stop(h)
      PROVE  TypeOK'
  BY <1>2 DEF Stop, monitorVars
<1>3. ASSUME NEW m \in pings, Bumm(m)
      PROVE  TypeOK'
  BY <1>3 DEF Bumm, monitorVars
<1>4. ASSUME NEW m \in pongs, HandlePong(m)
      PROVE  TypeOK'
  <2>1. m.heart \in Heart
    BY DEF Message
  <2> QED
    BY <1>4, <2>1 DEF HandlePong, RecordPong, monitorVars
<1>5. CASE Beat
  <2>1. MonitorTypeOK'
    BY <1>5 DEF Beat, MonitorBeat, NewHearts, HeartFailures, MissedBeats,
                GoodHearts
  <2>2. Aged(pings) \subseteq Message /\ Aged(pongs) \subseteq Message
    BY AgedType
  <2>3. \A H : Fresh(up \ H) \subseteq Message
    BY FreshType
  <2>4. pings' \subseteq Message /\ pongs' \subseteq Message
    BY <1>5, <2>2, <2>3 DEF Beat
  <2>5. \A h \in Heart : Older(downBeats[h], MaxDownBeats) \in 0..MaxDownBeats
    BY DEF Older, MaxDownBeats
  <2>6. downBeats' \in [Heart -> 0..MaxDownBeats]
    BY <1>5, <2>5 DEF Beat, MaxDownBeats
  <2>7. \A h \in Prompt : Older(upBeats[h], MaxUpBeats) \in 0..MaxUpBeats
    BY DEF Older, MaxUpBeats
  <2>8. upBeats' \in [Prompt -> 0..MaxUpBeats]
    BY <1>5, <2>7 DEF Beat, MaxUpBeats
  <2> QED
    BY <1>5, <2>1, <2>4, <2>6, <2>8 DEF Beat
<1>6. CASE UNCHANGED vars
  BY <1>6 DEF vars
<1> QED
  BY <1>1, <1>2, <1>3, <1>4, <1>5, <1>6 DEF Next

\* Heartbeat's variables have their types: the sets of beat() never hold
\* anything but heart names, ages and downBeats stay within their bounds.
THEOREM TypeCorrect == Spec => []TypeOK
<1> QED
  BY InitType, NextType, PTL DEF Spec

-----------------------------------------------------------------------------
LEMMA InitInv == Init => IInv
<1> SUFFICES ASSUME Init
             PROVE  IInv
  OBVIOUS
<1>1. TypeOK
  BY InitType
<1>2. PromptUp /\ PromptInv
  BY PromptAssumption
     DEF Init, MonitorInit, PromptUp, PromptInv
<1>3. StoppedInv
  BY DEF Init, MonitorInit, StoppedInv, MaxDownBeats
<1>4. FoundInv
  <2>1. \A h \in Prompt : upBeats[h] = 0
    BY DEF Init
  <2> QED
    BY <2>1 DEF FoundInv
<1> QED
  BY <1>1, <1>2, <1>3, <1>4 DEF IInv

\* Which hearts beat() finds dead or new, from what the invariant knows.
LEMMA BeatKeepsPrompt ==
  ASSUME IInv, PromptAnswered
  PROVE  \A h \in Prompt : h \notin HeartFailures
<1>1. \A h \in Prompt : ~Awaited(h, 1)
  BY DEF PromptAnswered, Awaited
<1>2. \A h \in Prompt : h \in onProbation => h \in responses
  BY <1>1 DEF IInv, PromptInv
<1> QED
  BY <1>2 DEF HeartFailures, MissedBeats, GoodHearts

LEMMA PromptUpNext == IInv /\ [Next]_vars => PromptUp'
<1> SUFFICES ASSUME IInv, [Next]_vars, NEW h \in Prompt, h \notin up'
             PROVE  /\ h \notin hearts'
                    /\ h \notin responses'
                    /\ \A m \in pongs' : m.heart # h
  BY DEF PromptUp
<1> h \in Heart
  BY PromptAssumption
<1> USE DEF IInv
<1>1. ASSUME NEW g \in Heart, Start(g)
      PROVE  h \notin up /\ UNCHANGED <<hearts, responses, pongs>>
  BY <1>1 DEF Start, monitorVars
<1>2. ASSUME NEW g \in Heart, Stop(g)
      PROVE  h \notin up /\ UNCHANGED <<hearts, responses, pongs>>
  BY <1>2 DEF Stop, monitorVars
<1>3. ASSUME h \notin up, UNCHANGED <<hearts, responses, pongs>>
      PROVE  /\ h \notin hearts'
             /\ h \notin responses'
             /\ \A m \in pongs' : m.heart # h
  BY <1>3 DEF PromptUp
<1>4. ASSUME NEW m \in pings, Bumm(m)
      PROVE  /\ h \notin hearts'
             /\ h \notin responses'
             /\ \A n \in pongs' : n.heart # h
  BY <1>4 DEF Bumm, PromptUp, monitorVars
<1>5. ASSUME NEW m \in pongs, HandlePong(m)
      PROVE  /\ h \notin hearts'
             /\ h \notin responses'
             /\ \A n \in pongs' : n.heart # h
  BY <1>5 DEF HandlePong, RecordPong, PromptUp, monitorVars
<1>6. CASE Beat
  <2>1. h \notin up
    BY <1>6 DEF Beat
  <2>2. h \notin hearts' /\ h \notin responses'
    BY <1>6, <2>1 DEF Beat, MonitorBeat, NewHearts, PromptUp
  <2>3. ASSUME NEW n \in pongs'
        PROVE  n.heart # h
    <3>1. n \in Aged(pongs) /\ pongs \in SUBSET Message
      BY <1>6 DEF Beat, TypeOK
    <3> QED
      BY <3>1, <2>1, AgedFrom DEF PromptUp
  <2> QED
    BY <2>2, <2>3
<1>7. CASE UNCHANGED vars
  BY <1>7, <1>3 DEF vars
<1> QED
  BY <1>1, <1>2, <1>3, <1>4, <1>5, <1>6, <1>7 DEF Next

LEMMA PromptNext == IInv /\ [Next]_vars => PromptInv'
<1> SUFFICES ASSUME IInv, [Next]_vars, NEW h \in Prompt
             PROVE  /\ h \in hearts' => h \in responses' \/ Awaited(h, 0)'
                    /\ h \in onProbation' => h \in responses' \/ Awaited(h, 1)'
  BY DEF PromptInv
<1> h \in Heart
  BY PromptAssumption
<1> USE DEF IInv
<1>0. ASSUME UNCHANGED <<hearts, onProbation>>,
             h \in responses => h \in responses',
             \A a \in {0, 1} :
               Awaited(h, a) => Awaited(h, a)' \/ h \in responses'
      PROVE  /\ h \in hearts' => h \in responses' \/ Awaited(h, 0)'
             /\ h \in onProbation' => h \in responses' \/ Awaited(h, 1)'
  BY <1>0 DEF PromptInv
<1>1. ASSUME NEW g \in Heart, Start(g)
      PROVE  UNCHANGED <<monitorVars, pings, pongs>>
  BY <1>1 DEF Start, monitorVars
<1>2. ASSUME NEW g \in Heart, Stop(g)
      PROVE  /\ UNCHANGED <<monitorVars, pongs>>
             /\ \A m \in pings : m.heart = h => m \in pings'
  BY <1>2 DEF Stop, monitorVars
<1>3. ASSUME NEW m \in pings, Bumm(m)
      PROVE  /\ UNCHANGED monitorVars
             /\ pings \cup pongs \subseteq pings' \cup pongs'
  BY <1>3 DEF Bumm, monitorVars
<1>4. ASSUME NEW m \in pongs, HandlePong(m)
      PROVE  /\ UNCHANGED <<hearts, onProbation, pings>>
             /\ responses \subseteq responses'
             /\ \A n \in pongs : n \in pongs' \/ n = m
             /\ m.age \in {0, 1} => m.heart \in responses'
  BY <1>4 DEF HandlePong, RecordPong, AcceptsPong, monitorVars
<1>5. CASE Beat
  <2> pings \in SUBSET Message /\ pongs \in SUBSET Message
    BY DEF TypeOK
  <2>1. h \in hearts' => Awaited(h, 0)'
    <3> SUFFICES ASSUME h \in hearts'
                 PROVE  Awaited(h, 0)'
      OBVIOUS
    <3>1. h \in up
      BY <1>5 DEF Beat, MonitorBeat, NewHearts, PromptUp
    <3>2. PICK missing \in SUBSET (up \ Prompt) :
            pings' = Aged(pings) \cup Fresh(up \ missing)
      BY <1>5 DEF Beat
    <3>3. [heart |-> h, age |-> 0] \in pings'
      BY <3>1, <3>2 DEF Fresh
    <3> QED
      BY <3>3 DEF Awaited
  <2>2. h \in onProbation' => Awaited(h, 1)'
    <3> SUFFICES ASSUME h \in onProbation'
                 PROVE  Awaited(h, 1)'
      OBVIOUS
    <3>1. h \in hearts /\ h \notin responses
      BY <1>5 DEF Beat, MonitorBeat, MissedBeats, GoodHearts
    <3>2. PICK n \in pings \cup pongs : n.heart = h /\ n.age = 0
      BY <3>1 DEF PromptInv, Awaited
    <3>3. \E m \in Aged(pings) \cup Aged(pongs) : m.heart = h /\ m.age = 1
      <4>1. CASE n \in pings
        BY <4>1, <3>2, AgedTo
      <4>2. CASE n \in pongs
        BY <4>2, <3>2, AgedTo
      <4> QED
        BY <4>1, <4>2
    <3>4. Aged(pings) \subseteq pings' /\ Aged(pongs) = pongs'
      BY <1>5 DEF Beat
    <3> QED
      BY <3>3, <3>4 DEF Awaited
  <2> QED
    BY <2>1, <2>2
<1>6. CASE UNCHANGED vars
  BY <1>6, <1>0 DEF vars, Awaited
<1> QED
  BY <1>0, <1>1, <1>2, <1>3, <1>4, <1>5, <1>6 DEF Next, Awaited, monitorVars

LEMMA StoppedNext == IInv /\ [Next]_vars => StoppedInv'
<1> DEFINE Inv(h) ==
      /\ downBeats[h] > 0 => h \notin up
      /\ h \notin up => \A m \in pings : m.heart # h
      /\ \A m \in pongs :
           m.heart = h => m.age >= 2 \/ m.age >= downBeats[h]
      /\ downBeats[h] >= 2 => h \notin responses
      /\ downBeats[h] >= 3 /\ h \in hearts => h \in onProbation
      /\ downBeats[h] >= 4 => h \notin hearts
<1> SUFFICES ASSUME IInv, [Next]_vars, NEW h \in Heart
             PROVE  Inv(h)'
  BY DEF StoppedInv
<1> /\ Inv(h)
    /\ TypeOK
    /\ downBeats[h] \in 0..4
    /\ \A m \in pings \cup pongs : m.age \in 0..2
  BY DEF IInv, StoppedInv, TypeOK, MaxDownBeats, Message, MaxAge
<1>1. ASSUME NEW g \in Heart, Start(g)
      PROVE  Inv(h)'
  <2>1. downBeats'[h] = IF h = g THEN 0 ELSE downBeats[h]
    BY <1>1 DEF Start, TypeOK
  <2> QED
    BY <1>1, <2>1 DEF Start, monitorVars
<1>2. ASSUME NEW g \in Heart, Stop(g)
      PROVE  Inv(h)'
  BY <1>2 DEF Stop, monitorVars
<1>3. ASSUME NEW m \in pings, Bumm(m)
      PROVE  Inv(h)'
  <2>1. m.heart = h => downBeats[h] = 0
    BY <1>3 DEF Bumm
  <2> QED
    BY <1>3, <2>1 DEF Bumm, monitorVars
<1>4. ASSUME NEW m \in pongs, HandlePong(m)
      PROVE  Inv(h)'
  <2>1. downBeats[h] >= 2 => h \notin responses'
    BY <1>4 DEF HandlePong, RecordPong, AcceptsPong, monitorVars
  <2> QED
    BY <1>4, <2>1 DEF HandlePong, RecordPong, monitorVars
<1>5. CASE Beat
  <2> UNCHANGED up /\ responses' = {} /\ pongs' = Aged(pongs)
    BY <1>5 DEF Beat, MonitorBeat
  <2>1. downBeats'[h] = IF h \in up THEN 0
                        ELSE IF downBeats[h] < 4 THEN downBeats[h] + 1 ELSE 4
    BY <1>5 DEF Beat, Older, MaxDownBeats
  <2>2. h \notin up => \A m \in pings' : m.heart # h
    <3> SUFFICES ASSUME h \notin up, NEW m \in pings'
                 PROVE  m.heart # h
      OBVIOUS
    <3>1. m \in Aged(pings) \/ \E missing : m \in Fresh(up \ missing)
      BY <1>5 DEF Beat
    <3>2. CASE m \in Aged(pings)
      BY <3>2, AgedFrom DEF TypeOK
    <3>3. CASE \E missing : m \in Fresh(up \ missing)
      BY <3>3 DEF Fresh
    <3> QED
      BY <3>1, <3>2, <3>3
  <2>3. \A m \in pongs' :
          m.heart = h => m.age >= 2 \/ m.age >= downBeats'[h]
    <3> SUFFICES ASSUME NEW m \in pongs', m.heart = h
                 PROVE  m.age >= 2 \/ m.age >= downBeats'[h]
      OBVIOUS
    <3>1. PICK n \in pongs : m.heart = n.heart /\ m.age = Older(n.age, MaxAge)
      BY AgedFrom DEF TypeOK
    <3>2. m.age = IF n.age < 2 THEN n.age + 1 ELSE 2
      BY <3>1 DEF Older, MaxAge
    <3> QED
      BY <2>1, <3>1, <3>2
  <2>4. downBeats'[h] >= 3 => h \notin responses
    BY <2>1
  <2>5. downBeats'[h] >= 3 /\ h \in hearts' => h \in onProbation'
    BY <1>5, <2>4 DEF Beat, MonitorBeat, NewHearts, MissedBeats, GoodHearts
  <2>6. downBeats'[h] >= 4 => h \notin hearts'
    BY <1>5, <2>1, <2>4
       DEF Beat, MonitorBeat, NewHearts, HeartFailures, MissedBeats, GoodHearts
  <2> QED
    BY <2>1, <2>2, <2>3, <2>5, <2>6
<1>6. CASE UNCHANGED vars
  BY <1>6 DEF vars
<1> QED
  BY <1>1, <1>2, <1>3, <1>4, <1>5, <1>6 DEF Next

LEMMA FoundNext == IInv /\ [Next]_vars => FoundInv'
<1> DEFINE Known(h) == h \in hearts \cup responses
           Inv(h) == /\ upBeats[h] >= 1 => Known(h) \/ Awaited(h, 0)
                     /\ upBeats[h] >= 2 => Known(h) \/ Awaited(h, 1)
                     /\ upBeats[h] >= 3 => h \in hearts
<1> SUFFICES ASSUME IInv, [Next]_vars, NEW h \in Prompt
             PROVE  Inv(h)'
  BY DEF FoundInv
<1>0. Inv(h) /\ h \in Heart /\ upBeats[h] \in 0..3
  BY PromptAssumption DEF IInv, FoundInv, TypeOK, MaxUpBeats
<1>1. ASSUME UNCHANGED <<hearts, upBeats>>, responses \subseteq responses',
             \A a \in {0, 1} : Awaited(h, a) => Awaited(h, a)' \/ h \in responses'
      PROVE  Inv(h)'
  BY <1>0, <1>1
<1>2. ASSUME NEW g \in Heart, Start(g)
      PROVE  Inv(h)'
  BY <1>2, <1>1 DEF Start, monitorVars, Awaited
<1>3. ASSUME NEW g \in Heart, Stop(g)
      PROVE  Inv(h)'
  <2>1. \A m \in pings : m.heart = h => m \in pings'
    BY <1>3 DEF Stop
  <2> QED
    BY <1>3, <2>1, <1>1 DEF Stop, monitorVars, Awaited
<1>4. ASSUME NEW m \in pings, Bumm(m)
      PROVE  Inv(h)'
  BY <1>4, <1>1 DEF Bumm, monitorVars, Awaited
<1>5. ASSUME NEW m \in pongs, HandlePong(m)
      PROVE  Inv(h)'
  <2>1. /\ responses \subseteq responses'
        /\ \A n \in pongs : n \in pongs' \/ n = m
        /\ m.age \in {0, 1} => m.heart \in responses'
        /\ UNCHANGED <<hearts, upBeats, pings>>
    BY <1>5 DEF HandlePong, RecordPong, AcceptsPong, monitorVars
  <2> QED
    BY <2>1, <1>1 DEF Awaited
<1>6. CASE Beat
  <2> pings \in SUBSET Message /\ pongs \in SUBSET Message
    BY DEF IInv, TypeOK
  <2>1. upBeats'[h] = IF h \in up THEN IF upBeats[h] < 3 THEN upBeats[h] + 1 ELSE 3
                                  ELSE 0
    BY <1>6 DEF Beat, Older, MaxUpBeats
  <2>2. Known(h) => h \in hearts'
    <3>1. h \notin HeartFailures
      BY <1>6, BeatKeepsPrompt DEF Beat
    <3> QED
      BY <1>6, <3>1 DEF Beat, MonitorBeat, NewHearts, GoodHearts
  <2>3. h \in up => Awaited(h, 0)'
    <3> SUFFICES ASSUME h \in up
                 PROVE  Awaited(h, 0)'
      OBVIOUS
    <3>1. PICK missing \in SUBSET (up \ Prompt) :
            pings' = Aged(pings) \cup Fresh(up \ missing)
      BY <1>6 DEF Beat
    <3>2. [heart |-> h, age |-> 0] \in pings'
      BY <3>1 DEF Fresh
    <3> QED
      BY <3>2 DEF Awaited
  <2>4. Awaited(h, 0) => Awaited(h, 1)'
    <3> SUFFICES ASSUME NEW n \in pings \cup pongs, n.heart = h, n.age = 0
                 PROVE  Awaited(h, 1)'
      BY DEF Awaited
    <3>1. \E m \in Aged(pings) \cup Aged(pongs) : m.heart = h /\ m.age = 1
      <4>1. CASE n \in pings
        BY <4>1, AgedTo
      <4>2. CASE n \in pongs
        BY <4>2, AgedTo
      <4> QED
        BY <4>1, <4>2
    <3>2. Aged(pings) \subseteq pings' /\ Aged(pongs) = pongs'
      BY <1>6 DEF Beat
    <3> QED
      BY <3>1, <3>2 DEF Awaited
  <2>5. ~Awaited(h, 1)
    BY <1>6 DEF Beat, PromptAnswered, Awaited
  <2> QED
    BY <1>0, <2>1, <2>2, <2>3, <2>4, <2>5
<1>7. CASE UNCHANGED vars
  BY <1>7, <1>1 DEF vars, Awaited
<1> QED
  BY <1>2, <1>3, <1>4, <1>5, <1>6, <1>7 DEF Next

-----------------------------------------------------------------------------
LEMMA InvCorrect == Spec => []IInv
<1>1. IInv /\ [Next]_vars => IInv'
  BY NextType, PromptUpNext, PromptNext, StoppedNext, FoundNext
     DEF IInv
<1> QED
  BY InitInv, <1>1, PTL DEF Spec

\* Whatever pongs it sent before, a heart is out of m_hearts four beats after
\* its thread stopped.
THEOREM StoppedHeartIsDropped == Spec => []StoppedHeartDropped
<1>1. IInv => StoppedHeartDropped
  BY DEF IInv, StoppedInv, StoppedHeartDropped, MaxDownBeats
<1> QED
  BY <1>1, InvCorrect, PTL

\* handle_pong's two timestamps and beat()'s probation together never fail a
\* heart that answers every ping before the second beat after it.
THEOREM PromptHeartIsKept == Spec => PromptHeartKept
<1>1. IInv /\ [Next]_vars
        => [\A h \in Prompt : h \in hearts => h \in hearts']_vars
  <2> SUFFICES ASSUME IInv, Next, NEW h \in Prompt, h \in hearts
               PROVE  h \in hearts'
    OBVIOUS
  <2>1. CASE Beat
    BY <2>1, BeatKeepsPrompt DEF Beat, MonitorBeat
  <2> QED
    BY <2>1 DEF Next, Start, Stop, Bumm, HandlePong, RecordPong, monitorVars
<1> QED
  BY <1>1, InvCorrect, PTL DEF Spec, PromptHeartKept

\* How long finding a heart takes at most, for any hearts: a prompt one is known
\* three beats after its thread started.
THEOREM PromptHeartIsInTime == Spec => []PromptHeartInTime
<1>1. IInv => PromptHeartInTime
  BY DEF IInv, FoundInv, PromptHeartInTime, MaxUpBeats
<1> QED
  BY <1>1, InvCorrect, PTL

\* Heart by heart, beat()'s four set operations decide as FailureDetector
\* does: the step of a pong is Hear, that of a beat Tick.
THEOREM BeatImplementsDetector == Spec => ImplementsDetector
<1>1. Init => Detector!Init
  BY DEF Init, MonitorInit, Detector!Init, DetectorStatus
<1>2. TypeOK /\ [Next]_vars => [Detector!Next]_Detector!fdVars
  <2> SUFFICES ASSUME TypeOK, [Next]_vars
               PROVE  Detector!Next \/ UNCHANGED <<DetectorStatus, responses>>
    BY DEF Detector!fdVars
  <2>1. CASE Beat
    <3>1. \A h \in Heart :
            DetectorStatus'[h]
              = Detector!Verdict(DetectorStatus[h], h \in responses)
      BY <2>1 DEF Beat, MonitorBeat, NewHearts, HeartFailures, MissedBeats,
                  GoodHearts, DetectorStatus, Detector!Verdict
    <3>2. Detector!Tick
      BY <2>1, <3>1 DEF Detector!Tick, DetectorStatus, Beat, MonitorBeat
    <3> QED
      BY <3>2 DEF Detector!Next
  <2>2. ASSUME NEW m \in pongs, HandlePong(m)
        PROVE  Detector!Next \/ UNCHANGED <<DetectorStatus, responses>>
    <3>1. m.heart \in Heart
      BY DEF TypeOK, Message
    <3>2. UNCHANGED DetectorStatus
      BY <2>2 DEF HandlePong, RecordPong, monitorVars, DetectorStatus
    <3>3. responses' = responses \/ responses' = responses \cup {m.heart}
      BY <2>2 DEF HandlePong, RecordPong, monitorVars
    <3> QED
      BY <3>1, <3>2, <3>3 DEF Detector!Next, Detector!Hear
  <2>3. CASE UNCHANGED monitorVars
    BY <2>3 DEF monitorVars, DetectorStatus
  <2> QED
    BY <2>1, <2>2, <2>3 DEF Next, vars, Start, Stop, Bumm, monitorVars
<1> QED
  BY <1>1, <1>2, TypeCorrect, PTL DEF Spec, ImplementsDetector, Detector!Spec
=============================================================================

------------------------ MODULE VirtualSpringsProofs ------------------------
(***************************************************************************)
(* Proofs about the control rounds of the fleet, for any number of UAVs    *)
(* and EDs and any bounds.  AddTokens is a fold over the tokens received;  *)
(* what the last sections need of it is proved by a least counterexample.  *)
(***************************************************************************)
EXTENDS VirtualSprings, TLAPS, FiniteSetTheorems

LEMMA Ratios ==
  ASSUME NEW bs \in 1..MaxHops, NEW ratio \in 0..MaxRatio
  PROVE  ((bs - 1) * ratio) % Word \in 0..Word - 1
BY FleetAssumption

-----------------------------------------------------------------------------
(* A token grows old one by one: a waiting token is still one token.       *)
LEMMA AgedAllOne ==
  ASSUME NEW q \in {<< >>} \cup {<<t>> : t \in Token}
  PROVE  /\ AgedAll(q) \in {<< >>} \cup {<<t>> : t \in Token}
         /\ AgedAll(q) = << >> <=> q = << >>
<1>1. CASE q = << >>
  BY <1>1 DEF AgedAll
<1>2. ASSUME NEW t \in Token, q = <<t>>
      PROVE  AgedAll(q) = <<Aged(t)>> /\ Aged(t) \in Token
  <2>1. AgedAll(q) = <<Aged(t)>>
    BY <1>2 DEF AgedAll
  <2>2. t.expires \in 0..Lifetime
    BY DEF Token
  <2>3. (IF t.expires = 0 THEN 0 ELSE t.expires - 1) \in 0..Lifetime
    BY <2>2, SeedAssumption
  <2>4. Aged(t) = [t EXCEPT !.expires = IF t.expires = 0 THEN 0 ELSE t.expires - 1]
    BY DEF Aged
  <2> QED BY <2>1, <2>3, <2>4 DEF Token
<1> QED BY <1>1, <1>2

LEMMA InitControl == Init => ControlOK
BY FleetAssumption DEF Init, ControlOK

LEMMA LinkedControl ==
  ASSUME ControlOK, NEW u \in UAV, NEW bs \in 1..MaxHops, NEW ratio \in 0..MaxRatio,
         NEW reach \in SUBSET Others(u), NEW reports \in Reports(u), NEW idle \in BOOLEAN,
         RoundLinked(u, bs, ratio, reach, reports, idle)
  PROVE  ControlOK'
<1> USE DEF RoundLinked, StartRound, SendTokens
<1>1. heard' \in [UAV -> SUBSET ED] /\ due' \subseteq UAV
  BY DEF ControlOK
<1>2. linked' \in [UAV -> BOOLEAN] /\ m_lastNode' \in [UAV -> BOOLEAN]
  BY DEF ControlOK
<1>3. course' \in [UAV -> {"forces", "pause", "back"}]
  BY DEF ControlOK
<1>4. m_hops' \in [UAV -> 0..MaxHops]
  BY FleetAssumption DEF ControlOK
<1>5. m_persist' \in [UAV -> 0..Word - 1]
  <2>1. ((bs - 1) * ratio) % Word \in 0..Word - 1
    BY Ratios
  <2> DEFINE r == ((bs - 1) * ratio) % Word
  <2>2. m_persist' = [m_persist EXCEPT ![u] = r]
    OBVIOUS
  <2> HIDE DEF r
  <2> QED BY <2>1, <2>2 DEF ControlOK, r
<1>6. m_pause' \in [UAV -> 0..MaxPause]
  <2>1. m_pause[u] \in 0..MaxPause
    BY DEF ControlOK
  <2>2. m_pause[u] # 0 => m_pause[u] - 1 \in 0..MaxPause
    BY <2>1, FleetAssumption
  <2>3. CASE m_pause[u] = 0 \/ idle
    <3>1. m_pause' = [m_pause EXCEPT ![u] = 0]
      BY <2>3
    <3> QED BY <3>1, FleetAssumption DEF ControlOK
  <2>4. CASE ~ (m_pause[u] = 0 \/ idle)
    <3>1. m_pause' = [m_pause EXCEPT ![u] = m_pause[u] - 1]
      BY <2>4
    <3> QED BY <2>2, <2>4, <3>1 DEF ControlOK
  <2> QED BY <2>3, <2>4
<1>7. m_token' \in [UAV -> {<< >>} \cup {<<t>> : t \in Token}]
  BY DEF ControlOK, TokenSent
<1>8. missed' \in BOOLEAN
  BY DEF ControlOK
<1> QED BY <1>1, <1>2, <1>3, <1>4, <1>5, <1>6, <1>7, <1>8 DEF ControlOK

LEMMA TurnBackControl ==
  ASSUME ControlOK, NEW u \in UAV, NEW reach \in SUBSET Others(u), NEW reports \in Reports(u),
         NEW pos \in Position, NEW pause \in 0..MaxPause,
         RoundTurnBack(u, reach, reports, pos, pause)
  PROVE  ControlOK'
<1>1. NewToken(pos) \in Token
  BY SeedAssumption DEF NewToken, Token
<1>2. m_token' \in [UAV -> {<< >>} \cup {<<t>> : t \in Token}]
  BY <1>1 DEF RoundTurnBack, TokenTurningBack, ControlOK
<1> QED BY <1>2 DEF RoundTurnBack, Unlinked, StartRound, SendTokens, ControlOK

LEMMA GoOnControl ==
  ASSUME ControlOK, NEW u \in UAV, NEW reach \in SUBSET Others(u), NEW reports \in Reports(u),
         NEW persist \in 0..Word - 1, GoOn(u, reach, reports),
         m_persist' = [m_persist EXCEPT ![u] = persist], m_lastNode' \in [UAV -> BOOLEAN]
  PROVE  ControlOK'
BY DEF GoOn, Unlinked, StartRound, SendTokens, ControlOK

LEMMA NextControl == ControlOK /\ [Next]_vars => ControlOK'
<1> SUFFICES ASSUME ControlOK, [Next]_vars
             PROVE  ControlOK'
  OBVIOUS
<1>1. CASE NextPeriod
  BY <1>1, AgedAllOne DEF NextPeriod, control, ControlOK
<1>2. ASSUME NEW u \in UAV, NEW reach \in SUBSET Others(u), NEW reports \in Reports(u),
             NEW neighbours \in SUBSET reach, RoundGoOnCovering(u, neighbours, reach, reports)
      PROVE  ControlOK'
  <2> DEFINE simNode == FindMostSimilarNode(u, neighbours)
             r == IF GivesWay(u, simNode) THEN Halved(m_persist[u])
                                          ELSE (2 * m_persist[u]) % Word
  <2>1. m_persist[u] \in 0..Word - 1
    BY DEF ControlOK
  <2>2. Halved(m_persist[u]) \in 0..Word - 1
    BY <2>1, FleetAssumption DEF Halved
  <2>3. (2 * m_persist[u]) % Word \in 0..Word - 1
    BY <2>1, FleetAssumption
  <2>4. r \in 0..Word - 1
    BY <2>2, <2>3
  <2>5. m_persist' = [m_persist EXCEPT ![u] = r] /\ GoOn(u, reach, reports)
    BY <1>2 DEF RoundGoOnCovering
  <2>6. m_lastNode' \in [UAV -> BOOLEAN]
    BY <1>2 DEF RoundGoOnCovering, ControlOK
  <2> HIDE DEF r
  <2> QED BY <2>4, <2>5, <2>6, GoOnControl
<1>3. ASSUME NEW u \in UAV, NEW reach \in SUBSET Others(u), NEW reports \in Reports(u),
             RoundGoOnEmpty(u, reach, reports)
      PROVE  ControlOK'
  <2>1. m_persist[u] \in 0..Word - 1 /\ m_persist[u] > 0
    BY <1>3 DEF RoundGoOnEmpty, ControlOK
  <2>2. m_persist[u] - 1 \in 0..Word - 1
    BY <2>1, FleetAssumption
  <2>3. m_lastNode' \in [UAV -> BOOLEAN]
    BY <1>3 DEF RoundGoOnEmpty, ControlOK
  <2>4. m_persist' = [m_persist EXCEPT ![u] = m_persist[u] - 1] /\ GoOn(u, reach, reports)
    BY <1>3 DEF RoundGoOnEmpty
  <2> QED BY <2>2, <2>3, <2>4, GoOnControl
<1>4. CASE UNCHANGED vars
  BY <1>4 DEF vars, control, ControlOK
<1> QED BY <1>1, <1>2, <1>3, <1>4, LinkedControl, TurnBackControl DEF Next, Round

(* The part of TypeOK that the control of the rounds depends on, all but   *)
(* the type of the managers' tokens, is invariant.                         *)
THEOREM ControlTypes == Spec => []ControlOK
<1>1. Init => ControlOK
  BY InitControl
<1>2. ControlOK /\ [Next]_vars => ControlOK'
  BY NextControl
<1> QED BY <1>1, <1>2, PTL DEF Spec

-----------------------------------------------------------------------------
(* A UAV that is going back has no intervals left to go on, and only such  *)
(* a UAV has a token waiting.                                              *)
HomewardDone ==
  \A u \in UAV : ~ linked[u] /\ course[u] = "back" => m_persist[u] = 0

Homeward == ControlOK /\ HomewardDone /\ TokenComesHome

(* What any round leaves alone of the other UAVs. *)
LEMMA RoundOfOne ==
  ASSUME ControlOK, NEW u \in UAV, Round(u), NEW v \in UAV, v # u
  PROVE  /\ linked'[v] = linked[v] /\ course'[v] = course[v]
         /\ m_persist'[v] = m_persist[v] /\ m_token'[v] = m_token[v]
BY DEF ControlOK, Round, RoundLinked, RoundTurnBack, Unlinked, RoundGoOnCovering,
       RoundGoOnEmpty, GoOn

(* The round of a UAV, as far as its excursion is concerned. *)
LEMMA RoundOutcome ==
  ASSUME ControlOK, NEW u \in UAV, Round(u)
  PROVE  \/ linked'[u] /\ m_token'[u] = << >>
         \/ /\ m_persist[u] = 0 /\ m_persist'[u] = 0
            /\ ~ linked'[u] /\ course'[u] = "back"
            /\ m_token'[u] = << >> => m_token[u] = << >>
         \/ /\ m_persist[u] > 0 /\ m_token'[u] = m_token[u]
            /\ ~ linked'[u] /\ course'[u] = "forces"
<1>1. ASSUME NEW reach \in SUBSET Others(u), NEW reports \in Reports(u),
             NEW bs \in 1..MaxHops, NEW ratio \in 0..MaxRatio, NEW idle \in BOOLEAN,
             RoundLinked(u, bs, ratio, reach, reports, idle)
      PROVE  linked'[u] /\ m_token'[u] = << >>
  BY <1>1 DEF ControlOK, RoundLinked, TokenSent
<1>2. ASSUME NEW reach \in SUBSET Others(u), NEW reports \in Reports(u),
             NEW pos \in Position, NEW pause \in 0..MaxPause,
             RoundTurnBack(u, reach, reports, pos, pause)
      PROVE  /\ m_persist[u] = 0 /\ m_persist'[u] = 0
             /\ ~ linked'[u] /\ course'[u] = "back"
             /\ m_token'[u] = << >> => m_token[u] = << >>
  BY <1>2 DEF ControlOK, RoundTurnBack, Unlinked, TokenTurningBack
<1>3. ASSUME NEW reach \in SUBSET Others(u), NEW reports \in Reports(u),
             GoOn(u, reach, reports), m_persist[u] > 0
      PROVE  /\ m_persist[u] > 0 /\ m_token'[u] = m_token[u]
             /\ ~ linked'[u] /\ course'[u] = "forces"
  BY <1>3 DEF ControlOK, GoOn, Unlinked
<1> QED BY <1>1, <1>2, <1>3 DEF Round, RoundGoOnCovering, RoundGoOnEmpty

LEMMA NextPeriodKeeps ==
  ASSUME ControlOK, NextPeriod, NEW u \in UAV
  PROVE  /\ linked'[u] = linked[u] /\ course'[u] = course[u]
         /\ m_persist'[u] = m_persist[u]
         /\ m_token'[u] = << >> <=> m_token[u] = << >>
<1>1. m_token'[u] = AgedAll(m_token[u])
  BY DEF NextPeriod
<1>2. m_token[u] \in {<< >>} \cup {<<t>> : t \in Token}
  BY DEF ControlOK
<1>3. m_token'[u] = << >> <=> m_token[u] = << >>
  BY <1>1, <1>2, AgedAllOne
<1> QED BY <1>3 DEF NextPeriod, control

LEMMA NextHomeward == Homeward /\ [Next]_vars => Homeward'
<1> SUFFICES ASSUME Homeward, [Next]_vars
             PROVE  Homeward'
  OBVIOUS
<1>1. ControlOK'
  BY NextControl DEF Homeward
<1> DEFINE At(v) == /\ ~ linked'[v] /\ course'[v] = "back" => m_persist'[v] = 0
                    /\ m_token'[v] # << >> =>
                         ~ linked'[v] /\ course'[v] = "back" /\ m_persist'[v] = 0
<1>2. ASSUME NEW v \in UAV
      PROVE  At(v)
  <2>1. CASE NextPeriod
    BY <2>1, NextPeriodKeeps DEF Homeward, HomewardDone, TokenComesHome
  <2>2. ASSUME NEW u \in UAV, Round(u), v # u
        PROVE  At(v)
    BY <2>2, RoundOfOne DEF Homeward, HomewardDone, TokenComesHome
  <2>3. CASE Round(v)
    BY <2>3, RoundOutcome DEF Homeward, HomewardDone, TokenComesHome
  <2>4. CASE UNCHANGED vars
    BY <2>4 DEF vars, control, Homeward, HomewardDone, TokenComesHome
  <2> QED BY <2>1, <2>2, <2>3, <2>4 DEF Next
<1>3. HomewardDone' /\ TokenComesHome'
  BY <1>2 DEF HomewardDone, TokenComesHome
<1> QED BY <1>1, <1>3 DEF Homeward

LEMMA InitHomeward == Init => Homeward
BY InitControl DEF Init, Homeward, HomewardDone, TokenComesHome

(* A token never waits in a UAV that is linked or has set off again.       *)
THEOREM TokensTravelHome == Spec => []TokenComesHome
<1>1. Homeward => TokenComesHome
  BY DEF Homeward
<1> QED BY <1>1, InitHomeward, NextHomeward, PTL DEF Spec

-----------------------------------------------------------------------------
(* The control rounds implement the abstract excursions. *)
LEMMA InitExcursion == Init => Excursions!Init
BY DEF Init, Excursions!Init, Phase

LEMMA StepExcursion ==
  Homeward /\ [Next]_vars => [Excursions!Next]_(Excursions!vars)
<1> SUFFICES ASSUME Homeward, [Next]_vars
             PROVE  [Excursions!Next]_(Excursions!vars)
  OBVIOUS
<1> DEFINE phase == [u \in UAV |-> Phase(u)]
           carrying == {u \in UAV : m_token[u] # << >>}
<1> USE DEF Homeward
<1>1. ASSUME \A v \in UAV : /\ linked'[v] = linked[v] /\ course'[v] = course[v]
                            /\ m_token'[v] = << >> <=> m_token[v] = << >>
      PROVE  UNCHANGED Excursions!vars
  <2>1. phase' = phase
    BY <1>1 DEF Phase
  <2>2. carrying' = carrying
    BY <1>1
  <2> QED BY <2>1, <2>2 DEF Excursions!vars
<1>2. CASE NextPeriod
  BY <1>1, <1>2, NextPeriodKeeps
<1>3. CASE UNCHANGED vars
  BY <1>1, <1>3 DEF vars, control
<1>4. ASSUME NEW u \in UAV, Round(u)
      PROVE  Excursions!Next
  <2>1. \A v \in UAV : v # u => Phase(v)' = Phase(v) /\ m_token'[v] = m_token[v]
    BY <1>4, RoundOfOne DEF Phase
  <2>2. phase' = [phase EXCEPT ![u] = Phase(u)']
    BY <2>1
  <2>3. CASE linked'[u] /\ m_token'[u] = << >>
    <3>1. Phase(u)' = "linked"
      BY <2>3 DEF Phase
    <3>2. carrying' = carrying \ {u}
      BY <2>1, <2>3
    <3>3. Excursions!Link(u)
      BY <2>2, <3>1, <3>2 DEF Excursions!Link
    <3> QED BY <3>3 DEF Excursions!Next
  <2>4. CASE /\ ~ linked'[u] /\ course'[u] = "back"
             /\ m_token'[u] = << >> => m_token[u] = << >>
    <3>1. Phase(u)' = "homeward"
      BY <2>4 DEF Phase
    <3>2. carrying' \in {carrying, carrying \cup {u}}
      BY <2>1, <2>4
    <3>3. Excursions!TurnBack(u)
      BY <2>2, <3>1, <3>2 DEF Excursions!TurnBack
    <3> QED BY <3>3 DEF Excursions!Next
  <2>5. CASE /\ m_persist[u] > 0 /\ m_token'[u] = m_token[u]
             /\ ~ linked'[u] /\ course'[u] = "forces"
    <3>1. Phase(u)' = "away" /\ Phase(u) # "homeward"
      BY <2>5 DEF Phase, HomewardDone
    <3>2. carrying' = carrying
      BY <2>1, <2>5
    <3>3. Excursions!GoOn(u)
      BY <2>2, <3>1, <3>2 DEF Excursions!GoOn
    <3> QED BY <3>3 DEF Excursions!Next
  <2> QED BY <1>4, <2>3, <2>4, <2>5, RoundOutcome
<1> QED BY <1>2, <1>3, <1>4 DEF Next

(* Whatever the tables, positions and EDs heard, a UAV that has turned     *)
(* back comes home, and carries its news there.                            *)
THEOREM ImplementsExcursion == Spec => ExcursionSpec
<1>1. Init => Excursions!Init
  BY InitExcursion
<1>2. Homeward /\ [Next]_vars => [Excursions!Next]_(Excursions!vars)
  BY StepExcursion
<1> QED BY <1>1, <1>2, InitHomeward, NextHomeward, PTL DEF Spec, ExcursionSpec, Excursions!Spec

-----------------------------------------------------------------------------
(* Tokens are exchanged within one event. *)
LEMMA SendTokensSame ==
  ASSUME SameSeeds, NEW u \in UAV, NEW reach \in SUBSET Others(u), NEW ts,
         SendTokens(u, reach, ts)
  PROVE  SameSeeds'
<1>1. CASE missed'
  BY <1>1 DEF SameSeeds
<1>2. CASE ~ missed' /\ ts = << >>
  BY <1>2 DEF SendTokens, SameSeeds
<1>3. CASE ~ missed' /\ ts # << >>
  <2>1. reach \cup {u} = UAV /\ ~ missed
    BY <1>3 DEF SendTokens, Others
  <2>2. \A v \in UAV : m_tokens'[v] = AddTokens(m_tokens[v], ts)
    BY <1>3, <2>1 DEF SendTokens
  <2> QED BY <2>1, <2>2 DEF SameSeeds
<1> QED BY <1>1, <1>2, <1>3

LEMMA NextSameSeeds == SameSeeds /\ [Next]_vars => SameSeeds'
<1> SUFFICES ASSUME SameSeeds, [Next]_vars
             PROVE  SameSeeds'
  OBVIOUS
<1>1. CASE NextPeriod
  BY <1>1 DEF NextPeriod, SameSeeds
<1>2. ASSUME NEW u \in UAV, Round(u)
      PROVE  SameSeeds'
  <2>1. PICK reach \in SUBSET Others(u) : \E ts : SendTokens(u, reach, ts)
    BY <1>2 DEF Round, RoundLinked, RoundTurnBack, RoundGoOnCovering, RoundGoOnEmpty,
                GoOn, Unlinked
  <2> QED BY <2>1, SendTokensSame
<1>3. CASE UNCHANGED vars
  BY <1>3 DEF vars, SameSeeds
<1> QED BY <1>1, <1>2, <1>3 DEF Next

(* As long as nobody was out of reach of a token, all managers keep the    *)
(* same tokens in the same order, whatever AddToken does with them.        *)
THEOREM SeedsAgree == Spec => []SameSeeds
<1>1. Init => SameSeeds
  BY DEF Init, SameSeeds
<1> QED BY <1>1, NextSameSeeds, PTL DEF Spec

-----------------------------------------------------------------------------
(* Every non-empty set of naturals has a least element. *)
LEMMA Least ==
  ASSUME NEW T, T \subseteq Nat, T # {}
  PROVE  \E n \in T : \A k \in T : n <= k
<1> DEFINE R == {ss \in Nat \X Nat : ss[1] < ss[2]}
<1>1. IsWellFoundedOn(R, Nat)
  BY NatLessThanWellFounded DEF OpToRel
<1>2. PICK n \in T : \A k \in T : ~ (<<k, n>> \in R)
  <2> HIDE DEF R
  <2> QED BY <1>1, WFMin
<1>3. \A k \in T : k < n => <<k, n>> \in R
  OBVIOUS
<1>4. \A k \in T : ~ (k < n)
  BY <1>2, <1>3
<1> QED BY <1>4

(* AddToken keeps a sequence of tokens and leaves the new one in it. *)
LEMMA AddTokenProperties ==
  ASSUME NEW tokens \in Seq(Token), NEW token \in Token
  PROVE  /\ AddToken(tokens, token) \in Seq(Token)
         /\ \E i \in DOMAIN AddToken(tokens, token) : AddToken(tokens, token)[i] = token
<1> DEFINE I == {i \in 1..Len(tokens) : InBox(token.lastPos, tokens[i].lastPos)}
           at == SelectInSeq(tokens, LAMBDA t : InBox(token.lastPos, t.lastPos))
<1>1. at = IF I # {} THEN Min(I) ELSE 0
  BY DEF SelectInSeq
<1>2. AddToken(tokens, token) = IF at = 0 THEN Append(tokens, token)
                                ELSE [tokens EXCEPT ![at] = token]
  BY DEF AddToken, ReplaceAt
<1>3. at = 0 \/ at \in 1..Len(tokens)
  <2>1. CASE I = {}
    BY <1>1, <2>1
  <2>2. CASE I # {}
    <3>1. I \subseteq Nat /\ I \subseteq 1..Len(tokens)
      OBVIOUS
    <3> HIDE DEF I, at
    <3>2. \E i \in I : \A j \in I : i <= j
      BY <2>2, <3>1, Least
    <3>3. Min(I) \in I
      BY <3>2 DEF Min
    <3> QED BY <1>1, <2>2, <3>1, <3>3
  <2> QED BY <2>1, <2>2
<1> HIDE DEF at
<1>4. CASE at = 0
  <2>1. AddToken(tokens, token) = Append(tokens, token)
    BY <1>2, <1>4
  <2>2. Len(tokens) + 1 \in DOMAIN Append(tokens, token)
    OBVIOUS
  <2> QED BY <2>1, <2>2
<1>5. CASE at \in 1..Len(tokens)
  <2>1. AddToken(tokens, token) = [tokens EXCEPT ![at] = token]
    BY <1>2, <1>5
  <2> QED BY <1>5, <2>1
<1> QED BY <1>3, <1>4, <1>5

LEMMA MaxOfPrefix ==
  ASSUME NEW n \in Nat \ {0}, NEW s \in SUBSET (1..n), n \in s
  PROVE  Max(s) = n
<1>1. \A y \in s : n >= y
  OBVIOUS
<1>2. \A x \in s : (\A y \in s : x >= y) => x = n
  OBVIOUS
<1> QED BY <1>1, <1>2 DEF Max

(* The fold AddTokens is written with, as a function of the sets of        *)
(* indices, and its existence.                                             *)
Folds(iter, tokens, ts, S) ==
  iter = [s \in SUBSET S |->
            IF s = {} THEN tokens ELSE AddToken(iter[s \ {Max(s)}], ts[Max(s)])]

LEMMA AddTokensFolds ==
  ASSUME NEW tokens, NEW ts
  PROVE  AddTokens(tokens, ts) = (CHOOSE iter : Folds(iter, tokens, ts, DOMAIN ts))[DOMAIN ts]
BY DEF AddTokens, FoldLeft, MapThenFoldSet, Folds

LEMMA FoldExists ==
  ASSUME NEW tokens, NEW ts
  PROVE  \A n \in Nat : \E iter : Folds(iter, tokens, ts, 1..n)
<1> DEFINE T == {n \in Nat : ~ \E f : Folds(f, tokens, ts, 1..n)}
<1> SUFFICES ASSUME T # {}
             PROVE  FALSE
  OBVIOUS
<1>1. PICK n \in T : \A k \in T : n <= k
  <2>1. T \subseteq Nat
    OBVIOUS
  <2> HIDE DEF T
  <2> QED BY <2>1, Least
<1>2. CASE n = 0
  <2> DEFINE f == [s \in SUBSET (1..0) |-> tokens]
  <2>1. SUBSET (1..0) = {{}}
    OBVIOUS
  <2>2. Folds(f, tokens, ts, 1..0)
    BY <2>1 DEF Folds
  <2> QED BY <1>2, <2>2
<1>3. CASE n # 0
  <2>1. n \in Nat \ {0} /\ n - 1 \in Nat /\ n - 1 \notin T
    <3>1. T \subseteq Nat
      OBVIOUS
    <3> HIDE DEF T
    <3>2. n \in Nat \ {0} /\ n - 1 \in Nat /\ ~ (n <= n - 1)
      BY <1>3, <3>1
    <3> QED BY <1>1, <3>2
  <2>2. PICK f : Folds(f, tokens, ts, 1..n - 1)
    BY <2>1
  <2> DEFINE g == [s \in SUBSET (1..n) |->
                     IF n \in s THEN AddToken(f[s \ {n}], ts[n]) ELSE f[s]]
  <2>3. ASSUME NEW s \in SUBSET (1..n)
        PROVE  g[s] = IF s = {} THEN tokens ELSE AddToken(g[s \ {Max(s)}], ts[Max(s)])
    <3>1. CASE n \in s
      <4>1. Max(s) = n
        BY <2>1, <3>1, MaxOfPrefix
      <4>2. s \ {n} \in SUBSET (1..n) /\ n \notin s \ {n}
        OBVIOUS
      <4>3. g[s \ {n}] = f[s \ {n}]
        BY <4>2
      <4> QED BY <3>1, <4>1, <4>3
    <3>2. CASE n \notin s
      <4>1. s \in SUBSET (1..n - 1)
        BY <2>1, <3>2
      <4>2. f[s] = IF s = {} THEN tokens ELSE AddToken(f[s \ {Max(s)}], ts[Max(s)])
        BY <2>2, <4>1 DEF Folds
      <4>3. g[s] = f[s] /\ g[s \ {Max(s)}] = f[s \ {Max(s)}]
        BY <3>2
      <4> QED BY <4>2, <4>3
    <3> QED BY <3>1, <3>2
  <2>4. Folds(g, tokens, ts, 1..n)
    BY <2>3 DEF Folds
  <2> QED BY <1>1, <2>4
<1> QED BY <1>2, <1>3

(* AddTokens takes the tokens one by one, the last one last. *)
LEMMA AddTokensProperties ==
  ASSUME NEW tokens \in Seq(Token), NEW ts \in Seq(Token)
  PROVE  /\ AddTokens(tokens, ts) \in Seq(Token)
         /\ ts # << >> =>
              \E i \in DOMAIN AddTokens(tokens, ts) : AddTokens(tokens, ts)[i] = ts[Len(ts)]
<1> DEFINE n == Len(ts)
<1>1. n \in Nat /\ DOMAIN ts = 1..n
  OBVIOUS
<1>2. PICK iter : Folds(iter, tokens, ts, 1..n) /\ AddTokens(tokens, ts) = iter[1..n]
  <2> HIDE DEF n
  <2>1. \E iter : Folds(iter, tokens, ts, DOMAIN ts)
    BY <1>1, FoldExists
  <2> QED BY <1>1, <2>1, AddTokensFolds
<1>3. /\ iter = [s \in SUBSET (1..n) |->
                   IF s = {} THEN tokens ELSE AddToken(iter[s \ {Max(s)}], ts[Max(s)])]
      /\ AddTokens(tokens, ts) = iter[1..n]
  BY <1>2 DEF Folds
<1> HIDE DEF n
<1>4. iter[{}] = tokens
  <2>1. {} \in SUBSET (1..n)
    OBVIOUS
  <2> QED BY <1>3, <2>1
<1>5. ASSUME NEW k \in 1..n
      PROVE  iter[1..k] = AddToken(iter[1..k - 1], ts[k])
  <2>1. 1..k \in SUBSET (1..n) /\ k \in 1..k /\ k \in Nat \ {0}
    BY <1>1
  <2>2. Max(1..k) = k
    BY <2>1, MaxOfPrefix
  <2>3. iter[1..k] = IF 1..k = {} THEN tokens
                     ELSE AddToken(iter[(1..k) \ {Max(1..k)}], ts[Max(1..k)])
    BY <1>3, <2>1
  <2>4. (1..k) \ {k} = 1..k - 1
    <3>1. \A i \in Nat : i \in 1..k /\ i # k <=> i \in 1..k - 1
      BY <2>1
    <3> QED BY <3>1
  <2> QED BY <2>1, <2>2, <2>3, <2>4
<1>6. \A k \in 0..n : iter[1..k] \in Seq(Token)
  <2> DEFINE T == {k \in 0..n : iter[1..k] \notin Seq(Token)}
  <2> SUFFICES ASSUME T # {}
               PROVE  FALSE
    OBVIOUS
  <2>1. PICK k \in T : \A j \in T : k <= j
    <3>1. T \subseteq Nat
      BY <1>1
    <3> HIDE DEF T
    <3> QED BY <3>1, Least
  <2>2. k # 0
    <3>1. 1..0 = {}
      OBVIOUS
    <3> QED BY <1>4, <3>1
  <2>3. k \in 1..n /\ k - 1 \in 0..n /\ k - 1 \notin T
    BY <1>1, <2>1, <2>2
  <2>4. ts[k] \in Token /\ iter[1..k - 1] \in Seq(Token)
    BY <1>1, <2>3
  <2>5. AddToken(iter[1..k - 1], ts[k]) \in Seq(Token)
    BY <2>4, AddTokenProperties
  <2> QED BY <1>5, <2>3, <2>5
<1>7. ts # << >> =>
        \E i \in DOMAIN iter[1..n] : iter[1..n][i] = ts[n]
  <2> SUFFICES ASSUME ts # << >>
               PROVE  \E i \in DOMAIN iter[1..n] : iter[1..n][i] = ts[n]
    OBVIOUS
  <2>1. n \in 1..n /\ n - 1 \in 0..n
    BY DEF n
  <2>2. ts[n] \in Token /\ iter[1..n - 1] \in Seq(Token)
    BY <1>1, <1>6, <2>1
  <2>3. iter[1..n] = AddToken(iter[1..n - 1], ts[n])
    BY <1>5, <2>1
  <2>4. \E i \in DOMAIN AddToken(iter[1..n - 1], ts[n]) :
          AddToken(iter[1..n - 1], ts[n])[i] = ts[n]
    BY <2>2, AddTokenProperties
  <2> QED BY <2>3, <2>4
<1>8. iter[1..n] \in Seq(Token)
  BY <1>1, <1>6
<1> QED BY <1>3, <1>7, <1>8 DEF n

-----------------------------------------------------------------------------
(* What the managers keep are tokens. *)
TokensOK == m_tokens \in [UAV -> Seq(Token)] /\ missed \in BOOLEAN

LEMMA InitTokens == Init => TokensOK
<1>1. << >> \in Seq(Token)
  OBVIOUS
<1>2. Init => m_tokens = [u \in UAV |-> << >>] /\ missed = FALSE
  BY DEF Init
<1> QED BY <1>1, <1>2 DEF TokensOK

LEMMA ReportsAreTokens ==
  ASSUME NEW u \in UAV, NEW reports \in Reports(u)
  PROVE  reports \in Seq(Token)
<1>1. \A pos \in Position : NewToken(pos) \in Token
  BY SeedAssumption DEF NewToken, Token
<1>2. CASE reports = << >>
  BY <1>2
<1>3. CASE reports # << >>
  <2>1. PICK n \in 0..MaxReports : reports \in [1..n -> {NewToken(pos) : pos \in Position}]
    BY <1>3 DEF Reports
  <2>2. n \in Nat
    BY FleetAssumption
  <2>3. reports \in [1..n -> Token]
    BY <1>1, <2>1
  <2> QED BY <2>2, <2>3
<1> QED BY <1>2, <1>3

LEMMA AgedAllType ==
  ASSUME NEW tokens \in Seq(Token)
  PROVE  AgedAll(tokens) \in Seq(Token)
<1>1. ASSUME NEW t \in Token
      PROVE  Aged(t) \in Token
  <2>1. t.expires \in 0..Lifetime
    BY DEF Token
  <2>2. (IF t.expires = 0 THEN 0 ELSE t.expires - 1) \in 0..Lifetime
    BY <2>1, SeedAssumption
  <2>3. Aged(t) = [t EXCEPT !.expires = IF t.expires = 0 THEN 0 ELSE t.expires - 1]
    BY DEF Aged
  <2> QED BY <2>2, <2>3 DEF Token
<1>2. AgedAll(tokens) \in [1..Len(tokens) -> Token]
  BY <1>1 DEF AgedAll
<1> QED BY <1>2

LEMMA SendTokensType ==
  ASSUME TokensOK, NEW u \in UAV, NEW reach \in SUBSET Others(u), NEW ts \in Seq(Token),
         SendTokens(u, reach, ts)
  PROVE  TokensOK'
<1>1. ASSUME NEW v \in UAV
      PROVE  m_tokens'[v] \in Seq(Token)
  <2>1. m_tokens[v] \in Seq(Token)
    BY DEF TokensOK
  <2>2. AddTokens(m_tokens[v], ts) \in Seq(Token)
    BY <2>1, AddTokensProperties
  <2> QED BY <2>1, <2>2 DEF SendTokens
<1>2. m_tokens' = [v \in UAV |-> m_tokens'[v]] /\ missed' \in BOOLEAN
  BY DEF SendTokens, TokensOK
<1> QED BY <1>1, <1>2 DEF TokensOK

(* A linked UAV sends its reports and then the token it carries.           *)
LEMMA LinkedSends ==
  ASSUME ControlOK, NEW u \in UAV, NEW reports \in Reports(u)
  PROVE  /\ reports \o m_token[u] \in Seq(Token)
         /\ m_token[u] # << >> =>
              LET ts == reports \o m_token[u]
              IN  ts # << >> /\ ts[Len(ts)] = m_token[u][1]
<1>1. reports \in Seq(Token)
  BY ReportsAreTokens
<1>2. m_token[u] = << >> \/ \E t \in Token : m_token[u] = <<t>>
  BY DEF ControlOK
<1>3. CASE m_token[u] = << >>
  BY <1>1, <1>3
<1>4. ASSUME NEW t \in Token, m_token[u] = <<t>>
      PROVE  /\ reports \o <<t>> \in Seq(Token)
             /\ reports \o <<t>> # << >>
             /\ (reports \o <<t>>)[Len(reports \o <<t>>)] = t
  <2>1. reports \o <<t>> = Append(reports, t)
    BY <1>1
  <2>2. Append(reports, t) \in Seq(Token) /\ Len(Append(reports, t)) = Len(reports) + 1
    BY <1>1
  <2>3. Append(reports, t)[Len(reports) + 1] = t
    BY <1>1
  <2>4. Append(reports, t) # << >>
    <3>1. Len(Append(reports, t)) # 0
      BY <1>1, <2>2
    <3>2. Len(<< >>) = 0
      OBVIOUS
    <3> QED BY Zenon, <3>1, <3>2
  <2> QED BY <2>1, <2>2, <2>3, <2>4
<1>5. ASSUME NEW t \in Token, m_token[u] = <<t>>
      PROVE  /\ reports \o m_token[u] \in Seq(Token)
             /\ LET ts == reports \o m_token[u]
                IN  ts # << >> /\ ts[Len(ts)] = m_token[u][1]
  BY <1>4, <1>5
<1> QED BY <1>2, <1>3, <1>5

LEMMA NextTokens == ControlOK /\ TokensOK /\ [Next]_vars => TokensOK'
<1> SUFFICES ASSUME ControlOK, TokensOK, [Next]_vars
             PROVE  TokensOK'
  OBVIOUS
<1>1. CASE NextPeriod
  <2>1. /\ m_tokens' = [u \in UAV |-> AgedAll(m_tokens[u])]
        /\ missed' = missed
    BY <1>1 DEF NextPeriod
  <2>2. \A u \in UAV : AgedAll(m_tokens[u]) \in Seq(Token)
    BY AgedAllType DEF TokensOK
  <2> QED BY <2>1, <2>2 DEF TokensOK
<1>2. ASSUME NEW u \in UAV, Round(u)
      PROVE  TokensOK'
  <2>1. PICK reach \in SUBSET Others(u), reports \in Reports(u) :
          SendTokens(u, reach, reports) \/ SendTokens(u, reach, reports \o m_token[u])
    BY <1>2 DEF Round, RoundLinked, RoundTurnBack, RoundGoOnCovering, RoundGoOnEmpty,
                GoOn, Unlinked
  <2>2. reports \in Seq(Token) /\ reports \o m_token[u] \in Seq(Token)
    BY ReportsAreTokens, LinkedSends
  <2> QED BY <2>1, <2>2, SendTokensType
<1>3. CASE UNCHANGED vars
  BY <1>3 DEF vars, TokensOK
<1> QED BY <1>1, <1>2, <1>3 DEF Next

(* The whole type invariant, the tokens of the managers included: whatever *)
(* AddToken merges, a manager keeps a sequence of tokens none of which is  *)
(* older than its lifetime.                                                *)
THEOREM FleetTypes == Spec => []TypeOK
<1>1. Init => ControlOK /\ TokensOK
  BY InitControl, InitTokens
<1>2. ControlOK /\ TokensOK /\ [Next]_vars => (ControlOK /\ TokensOK)'
  BY NextControl, NextTokens
<1>3. ControlOK /\ TokensOK => TypeOK
  BY DEF TokensOK, TypeOK
<1> QED BY <1>1, <1>2, <1>3, PTL DEF Spec

(* The step with which a token is given up. *)
GivenUpArrives ==
  \A u \in UAV :
    m_token[u] # << >> /\ m_token'[u] = << >> =>
      \A v \in IF missed' THEN {u} ELSE UAV :
        \E i \in DOMAIN m_tokens'[v] : m_tokens'[v][i] = m_token[u][1]

LEMMA StepArrives ==
  ASSUME ControlOK, TokensOK, Next
  PROVE  GivenUpArrives
<1> SUFFICES ASSUME NEW u \in UAV, m_token[u] # << >>, m_token'[u] = << >>,
                    NEW v \in (IF missed' THEN {u} ELSE UAV)
             PROVE  \E i \in DOMAIN m_tokens'[v] : m_tokens'[v][i] = m_token[u][1]
  BY DEF GivenUpArrives
<1>1. Round(u)
  BY NextPeriodKeeps, RoundOfOne DEF Next
<1>2. PICK reach \in SUBSET Others(u), reports \in Reports(u), bs \in 1..MaxHops,
           ratio \in 0..MaxRatio, idle \in BOOLEAN :
        RoundLinked(u, bs, ratio, reach, reports, idle)
  <2>1. ASSUME NEW reach \in SUBSET Others(u), NEW reports \in Reports(u),
               NEW pos \in Position, NEW pause \in 0..MaxPause,
               RoundTurnBack(u, reach, reports, pos, pause)
        PROVE  FALSE
    BY <2>1 DEF ControlOK, RoundTurnBack, TokenTurningBack
  <2>2. ASSUME NEW reach \in SUBSET Others(u), NEW reports \in Reports(u),
               GoOn(u, reach, reports)
        PROVE  FALSE
    BY <2>2 DEF GoOn
  <2> QED BY <1>1, <2>1, <2>2 DEF Round, RoundGoOnCovering, RoundGoOnEmpty
<1> DEFINE ts == reports \o m_token[u]
<1>3. ts \in Seq(Token) /\ ts # << >> /\ ts[Len(ts)] = m_token[u][1]
  BY LinkedSends
<1>4. SendTokens(u, reach, ts)
  BY <1>2 DEF RoundLinked
<1> HIDE DEF ts
<1>5. v \in UAV /\ v \in reach \cup {u}
  BY <1>3, <1>4 DEF SendTokens, Others
<1>6. m_tokens'[v] = AddTokens(m_tokens[v], ts)
  BY <1>3, <1>4, <1>5 DEF SendTokens
<1>7. m_tokens[v] \in Seq(Token)
  BY <1>5 DEF TokensOK
<1>8. \E i \in DOMAIN AddTokens(m_tokens[v], ts) : AddTokens(m_tokens[v], ts)[i] = ts[Len(ts)]
  BY <1>3, <1>7, AddTokensProperties
<1> QED BY <1>3, <1>6, <1>8

(* Whatever AddToken merges it with, a token that a UAV gives up is then   *)
(* in its own manager, and in all of them if nobody was ever out of reach. *)
THEOREM TokensArrive == Spec => HandedOver
<1>1. Init => ControlOK /\ TokensOK
  BY InitControl, InitTokens
<1>2. ControlOK /\ TokensOK /\ [Next]_vars => (ControlOK /\ TokensOK)'
  BY NextControl, NextTokens
<1>3. ControlOK /\ TokensOK /\ [Next]_vars => [GivenUpArrives]_vars
  BY StepArrives
<1> QED BY <1>1, <1>2, <1>3, PTL DEF Spec, HandedOver, GivenUpArrives
=============================================================================

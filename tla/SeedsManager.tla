---------------------------- MODULE SeedsManager ----------------------------
(***************************************************************************)
(* The tokens a UAV keeps of the clusters of EDs the fleet has lost.  A    *)
(* token is the place the cluster was last seen and the number of control  *)
(* periods until it expires (0: expired); what only scales or displaces    *)
(* the force of its seed (weight, speed, time) is left out.  The tokens of *)
(* one manager are a sequence, as in m_tokens.                             *)
(***************************************************************************)
EXTENDS Integers, Sequences, SequencesExt

CONSTANTS
  Position,  \* places, <<x, y>>
  HalfBox,   \* half the side of the box of one cluster (30 m)
  Lifetime   \* periods until a token expires (10 min)

ASSUME SeedAssumption ==
  /\ Position \subseteq Int \X Int
  /\ HalfBox \in Nat \ {0} /\ Lifetime \in Nat \ {0}

Token == [lastPos : Position, expires : 0..Lifetime]

NewToken(pos) == [lastPos |-> pos, expires |-> Lifetime]

-----------------------------------------------------------------------------
(* Strictly inside the box around q, on both axes. *)
InBox(p, q) ==
  \A axis \in 1..2 : q[axis] - HalfBox < p[axis] /\ p[axis] < q[axis] + HalfBox

(* AddToken: the first token in whose box the new one lies is replaced,    *)
(* whichever of the two is the older.                                      *)
AddTokenUnlessKnown(tokens, token) ==
  IF \E i \in DOMAIN tokens : InBox(token.lastPos, tokens[i].lastPos)
  THEN tokens
  ELSE Append(tokens, token)

AddToken(tokens, token) ==
  LET i == SelectInSeq(tokens, LAMBDA t : InBox(token.lastPos, t.lastPos))
  IN  IF i = 0 THEN Append(tokens, token) ELSE ReplaceAt(tokens, i, token)

AddTokens(tokens, ts) == FoldLeft(AddToken, tokens, ts)

(* One control period later.  ComputeSeeds skips an expired token, but     *)
(* nothing removes it.                                                     *)
Aged(token) == [token EXCEPT !.expires = IF @ = 0 THEN 0 ELSE @ - 1]

AgedAll(tokens) == [i \in DOMAIN tokens |-> Aged(tokens[i])]
=============================================================================

--------------------------- MODULE TokenChainProofs ---------------------------
(* What TLAPS proves of TokenChain, for every set of tokens.               *)
EXTENDS TokenChain, TLAPS

ChainOK ==
  /\ holds \in [Tokens -> Tokens \cup {None}]
  /\ OneSessionPerToken

LEMMA NextChainOK ==
  ASSUME None \notin Tokens, ChainOK, [Next]_chainVars PROVE ChainOK'
  <1> USE DEF ChainOK
  <1>1. ASSUME NEW t \in Tokens, Open(t) PROVE ChainOK'
    <2>1. \A s \in Tokens : holds'[s] = IF s = t THEN t ELSE holds[s]
      BY <1>1 DEF Open
    <2>2. \A s \in Tokens : holds[s] # t
      BY <1>1 DEF Open, Fresh, Accepted
    <2>3. Accepted' = Accepted \cup {t} /\ t \notin spent /\ spent' = spent
      BY <1>1, <2>1 DEF Open, Fresh, Accepted
    <2> QED BY <1>1, <2>1, <2>2, <2>3 DEF Open, OneSessionPerToken
  <1>2. ASSUME NEW s \in Tokens, NEW t \in Tokens, Renew(s, t) PROVE ChainOK'
    <2>1. \A v \in Tokens : holds'[v] = IF v = s THEN t ELSE holds[v]
      BY <1>2 DEF Renew
    <2>2. \A v \in Tokens : holds[v] # t
      BY <1>2 DEF Renew, Fresh, Accepted
    <2>3. \A v \in Tokens : v # s => holds[v] # holds[s]
      BY <1>2 DEF Renew, OneSessionPerToken
    <2>4. Accepted' = (Accepted \ {holds[s]}) \cup {t}
      BY <1>2, <2>1, <2>2, <2>3 DEF Renew, Accepted
    <2>5. t # holds[s] /\ t \notin spent
      BY <1>2, <2>2 DEF Renew, Fresh
    <2>6. Accepted' \cap spent' = {}
      BY <1>2, <2>4, <2>5 DEF Renew, OneSessionPerToken
    <2> QED BY <1>2, <2>1, <2>2, <2>6 DEF Renew, OneSessionPerToken
  <1>3. ASSUME NEW S \in SUBSET Tokens, Close(S) PROVE ChainOK'
    <2>1. \A v \in Tokens : holds'[v] = IF v \in S THEN None ELSE holds[v]
      BY <1>3 DEF Close
    <2>2. ASSUME NEW a \in Accepted' PROVE a \in Accepted /\ a \notin {holds[v] : v \in S}
      <3>1. PICK v \in Tokens : v \notin S /\ a = holds[v] /\ a # None
        BY <2>1 DEF Accepted
      <3> QED BY <3>1 DEF Accepted, OneSessionPerToken
    <2>3. Accepted' \cap spent' = {}
      BY <1>3, <2>2 DEF Close, OneSessionPerToken
    <2> QED BY <1>3, <2>1, <2>3 DEF Close, OneSessionPerToken
  <1>4. ASSUME NEW t \in Tokens, Waste(t) PROVE ChainOK'
    BY <1>4 DEF Waste, Fresh, Accepted, OneSessionPerToken
  <1>5. CASE UNCHANGED chainVars
    BY <1>5 DEF chainVars, OneSessionPerToken, Accepted
  <1> QED BY <1>1, <1>2, <1>3, <1>4, <1>5 DEF Next

(* However sessions are opened, renewed and closed, no token opens two of  *)
(* them and none accepts a token that is spent.                            *)
THEOREM ChainsDoNotShare ==
  ASSUME None \notin Tokens PROVE Spec => []OneSessionPerToken
  <1>1. Init => ChainOK
    BY DEF Init, ChainOK, OneSessionPerToken, Accepted
  <1>2. ChainOK /\ [Next]_chainVars => ChainOK'
    BY NextChainOK
  <1>3. ChainOK => OneSessionPerToken
    BY DEF ChainOK
  <1> QED BY <1>1, <1>2, <1>3, PTL DEF Spec
=============================================================================

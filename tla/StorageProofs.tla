---------------------------- MODULE StorageProofs -----------------------------
(***************************************************************************)
(* The invariants of the identity of this node, for any number of requests *)
(* and crashes, and of the session of the dashboard, for any number of     *)
(* requests and of tokens.  Those of the start of the program are in       *)
(* StartupProofs.                                                          *)
(***************************************************************************)
EXTENDS MCStorage, FiniteSetTheorems, TLAPS

-----------------------------------------------------------------------------
(* The identity of this node.                                              *)

IdentityTyped ==
  /\ disk \in [Identity!Files -> Identity!Content \cup {Absent}]
  /\ ask \in [Askers -> Identity!Asking]

(* While one request makes the files no other is under way.                *)
OneMaker == \A v, w \in Askers : Identity!Making(v) /\ v # w => ask[w].pc = "idle"

(* The public key a request has read or made is the one on disk, for good; *)
(* while it is made, the private key comes first.                          *)
PubOnDisk ==
  \A w \in Askers :
    LET at(step, file) == Identity!At(w, step, file) IN
    /\ ask[w].pc = "read_id" \/ at("create", "node_id") \/ at("fill", "node_id") =>
         disk["node_pub"] # Absent /\ disk["node_pub"] = ask[w].pub
    /\ at("create", "node_key") \/ at("fill", "node_key") => disk["node_pub"] = Absent
    /\ at("create", "node_pub") \/ at("fill", "node_pub") => disk["node_key"] = ask[w].new
    /\ ask[w].pc \in {"create", "fill"} /\ ask[w].file # "node_id" => ask[w].new = ask[w].pub

(* A public key that is there is that of the private key, or was left      *)
(* empty by a crash.                                                       *)
PairOnDisk == disk["node_pub"] \in {Absent, Empty, disk["node_key"]}

(* What was told is what the files hold, and they are not made again.      *)
ToldIsOnDisk ==
  /\ \A t \in told : t = <<disk["node_pub"], disk["node_id"]>>
  /\ told # {} => /\ disk["node_pub"] # Absent /\ disk["node_id"] # Absent
                  /\ \A w \in Askers : ~Identity!Making(w)

IdentityKept == OneMaker /\ PubOnDisk /\ PairOnDisk /\ ToldIsOnDisk
IdentityInv == IdentityTyped /\ (raced \/ lost \/ IdentityKept)

LEMMA IdentityStarts == Identity!Init => IdentityInv
BY StorageAssumption
   DEF Identity!Init, IdentityInv, IdentityKept, IdentityTyped, Identity!Files, Identity!Content,
       Identity!Asking, Identity!Resting, OneMaker, PubOnDisk, PairOnDisk, ToldIsOnDisk,
       Identity!Making, Identity!At

LEMMA NewContent ==
  Absent \notin Identity!Content /\ Empty \in Identity!Content /\ Values \subseteq Identity!Content
BY StorageAssumption DEF Identity!Content

(* A request that makes the files is alone, and nothing was told yet.      *)
LEMMA MakerIsAlone ==
  ASSUME IdentityKept, NEW w \in Askers, Identity!Making(w)
  PROVE  told = {} /\ \A v \in Askers \ {w} : ask[v].pc = "idle"
BY DEF IdentityKept, OneMaker, ToldIsOnDisk

(* Others that are idle and leave the files be are sound whatever the one  *)
(* request does; what is to be shown is only about that one.               *)
LEMMA AloneKeeps ==
  ASSUME NEW w \in Askers, IdentityTyped', told' = {},
         \A v \in Askers \ {w} : ask'[v].pc = "idle",
         LET at(step, file) == Identity!At(w, step, file) IN
         /\ ask'[w].pc = "read_id" \/ at("create", "node_id")' \/ at("fill", "node_id")' =>
              disk'["node_pub"] # Absent /\ disk'["node_pub"] = ask'[w].pub
         /\ at("create", "node_key")' \/ at("fill", "node_key")' => disk'["node_pub"] = Absent
         /\ at("create", "node_pub")' \/ at("fill", "node_pub")' => disk'["node_key"] = ask'[w].new
         /\ ask'[w].pc \in {"create", "fill"} /\ ask'[w].file # "node_id" =>
              ask'[w].new = ask'[w].pub,
         PairOnDisk'
  PROVE  IdentityKept'
<1>1. OneMaker'
  BY DEF OneMaker, Identity!Making
<1>2. PubOnDisk'
  BY DEF PubOnDisk, Identity!At
<1>3. ToldIsOnDisk'
  BY DEF ToldIsOnDisk
<1> QED
  BY <1>1, <1>2, <1>3 DEF IdentityKept

LEMMA ReadPubKeeps ==
  ASSUME IdentityInv, NEW w \in Askers, Identity!ReadPub(w)
  PROVE  IdentityInv'
<1> USE DEF IdentityInv
<1>1. /\ ask[w].pc = "idle" /\ UNCHANGED <<disk, told, lost>>
      /\ raced' = (raced \/ \E v \in Askers \ {w} : Identity!Making(v))
  BY DEF Identity!ReadPub
<1>2. disk \in [Identity!Files -> Identity!Content \cup {Absent}]
      /\ "node_pub" \in Identity!Files /\ "node_id" \in Identity!Files
  BY DEF IdentityTyped, Identity!Files
<1>3. CASE disk["node_pub"] # Absent
  <2> DEFINE row == [Identity!Resting EXCEPT !.pc = "read_id", !.pub = disk["node_pub"]]
  <2>1. ask' = [ask EXCEPT ![w] = row]
    BY <1>3 DEF Identity!ReadPub
  <2>2. /\ row \in Identity!Asking /\ row.pc = "read_id" /\ row.pub = disk["node_pub"]
    BY <1>2, <1>3, NewContent DEF Identity!Asking, Identity!Resting, Identity!Files
  <2> HIDE DEF row
  <2>3. IdentityTyped' /\ ask'[w] = row /\ \A v \in Askers \ {w} : ask'[v] = ask[v]
    BY <1>1, <2>1, <2>2 DEF IdentityTyped
  <2>4. ASSUME ~raced', ~lost' PROVE IdentityKept'
    <3>1. IdentityKept /\ \A v \in Askers \ {w} : ~Identity!Making(v)
      BY <1>1, <2>4
    <3>2. \A v \in Askers \ {w} : ~Identity!Making(v)'
      BY <1>1, <2>3, <3>1 DEF Identity!Making
    <3>3. Identity!Making(w)' => disk["node_id"] = Absent
      BY <1>1, <2>2, <2>3 DEF Identity!Making
    <3>4. \A v \in Askers \ {w} : ask[v].pc # "idle" => disk["node_id"] # Absent
      BY <3>1 DEF IdentityTyped, Identity!Asking, Identity!Making
    <3>5. OneMaker'
      BY <2>3, <3>2, <3>3, <3>4 DEF OneMaker
    <3>6. PubOnDisk'
      BY <1>1, <1>3, <2>2, <2>3, <3>1 DEF PubOnDisk, IdentityKept, Identity!At
    <3>7. PairOnDisk' /\ ToldIsOnDisk'
      BY <1>1, <3>1, <3>2, <3>3 DEF PairOnDisk, ToldIsOnDisk, IdentityKept
    <3> QED
      BY <3>5, <3>6, <3>7 DEF IdentityKept
  <2> QED
    BY <2>3, <2>4
<1>4. CASE disk["node_pub"] = Absent
  <2>1. PICK k \in Values :
          ask' = [ask EXCEPT ![w] = [pc |-> "create", file |-> "node_key", pub |-> k, new |-> k]]
    BY <1>4 DEF Identity!ReadPub, Identity!KeyPair
  <2> DEFINE row == [pc |-> "create", file |-> "node_key", pub |-> k, new |-> k]
  <2>2. row \in Identity!Asking
    BY NewContent DEF Identity!Asking, Identity!Files
  <2>3. IdentityTyped' /\ ask'[w] = row /\ \A v \in Askers \ {w} : ask'[v] = ask[v]
    BY <1>1, <2>1, <2>2 DEF IdentityTyped
  <2>4. ASSUME ~raced', ~lost' PROVE IdentityKept'
    <3>1. IdentityKept /\ \A v \in Askers \ {w} : ~Identity!Making(v)
      BY <1>1, <2>4
    <3>2. \A v \in Askers \ {w} : ask[v].pc = "idle"
      BY <1>4, <3>1 DEF IdentityTyped, Identity!Asking, Identity!Making, IdentityKept, PubOnDisk
    <3>3. told' = {}
      BY <1>1, <1>4, <3>1 DEF IdentityKept, ToldIsOnDisk
    <3> QED
      BY <1>1, <1>4, <2>3, <3>1, <3>2, <3>3, AloneKeeps DEF Identity!At, IdentityKept, PairOnDisk
  <2> QED
    BY <2>3, <2>4
<1> QED
  BY <1>3, <1>4

LEMMA ReadIdKeeps ==
  ASSUME IdentityInv, NEW w \in Askers, Identity!ReadId(w)
  PROVE  IdentityInv'
<1> USE DEF IdentityInv
<1>1. ask[w].pc = "read_id" /\ UNCHANGED <<disk, raced, lost>>
  BY DEF Identity!ReadId
<1>2. CASE disk["node_id"] # Absent
  <2>1. /\ told' = told \cup {<<ask[w].pub, disk["node_id"]>>}
        /\ ask' = [ask EXCEPT ![w] = Identity!Resting]
    BY <1>2 DEF Identity!ReadId, Identity!Tell
  <2>2. Identity!Resting \in Identity!Asking /\ Identity!Resting.pc = "idle"
    BY NewContent DEF Identity!Resting, Identity!Asking, Identity!Files
  <2>3. /\ IdentityTyped' /\ ask'[w].pc = "idle" /\ \A v \in Askers \ {w} : ask'[v] = ask[v]
    BY <1>1, <2>1, <2>2 DEF IdentityTyped
  <2>4. ASSUME IdentityKept PROVE IdentityKept'
    <3>1. \A v \in Askers : ~Identity!Making(v)'
      BY <1>1, <1>2, <2>3, <2>4 DEF IdentityKept, OneMaker, Identity!Making
    <3>2. OneMaker'
      BY <3>1 DEF OneMaker
    <3>3. PubOnDisk'
      BY <1>1, <2>3, <2>4 DEF PubOnDisk, IdentityKept, Identity!At
    <3>4. disk["node_pub"] = ask[w].pub /\ disk["node_pub"] # Absent
      BY <1>1, <2>4 DEF PubOnDisk, IdentityKept
    <3>5. ToldIsOnDisk'
      BY <1>1, <1>2, <2>1, <2>4, <3>1, <3>4 DEF ToldIsOnDisk, IdentityKept
    <3> QED
      BY <1>1, <2>4, <3>2, <3>3, <3>5 DEF IdentityKept, PairOnDisk
  <2> QED
    BY <1>1, <2>3, <2>4
<1>3. CASE disk["node_id"] = Absent
  <2>1. PICK i \in Values :
          ask' = [ask EXCEPT ![w] = [pc |-> "create", file |-> "node_id", pub |-> ask[w].pub, new |-> i]]
    BY <1>3 DEF Identity!ReadId
  <2> DEFINE row == [pc |-> "create", file |-> "node_id", pub |-> ask[w].pub, new |-> i]
  <2>2. row \in Identity!Asking
    BY NewContent DEF Identity!Asking, Identity!Files, IdentityTyped
  <2>3. IdentityTyped' /\ ask'[w] = row /\ \A v \in Askers \ {w} : ask'[v] = ask[v]
    BY <1>1, <2>1, <2>2 DEF IdentityTyped
  <2>4. ASSUME IdentityKept PROVE IdentityKept'
    <3>1. told = {} /\ \A v \in Askers \ {w} : ask[v].pc = "idle"
      BY <1>1, <1>3, <2>4, MakerIsAlone DEF Identity!Making
    <3>2. told' = told
      BY <1>3 DEF Identity!ReadId
    <3>3. disk["node_pub"] # Absent /\ disk["node_pub"] = ask[w].pub
      BY <1>1, <2>4 DEF IdentityKept, PubOnDisk
    <3> QED
      BY <1>1, <2>3, <2>4, <3>1, <3>2, <3>3, AloneKeeps DEF Identity!At, IdentityKept, PairOnDisk
  <2> QED
    BY <1>1, <2>3, <2>4
<1> QED
  BY <1>2, <1>3

LEMMA CreateKeeps ==
  ASSUME IdentityInv, NEW w \in Askers, NEW file \in Identity!Files, Identity!Create(w, file)
  PROVE  IdentityInv'
<1> USE DEF IdentityInv
<1>1. /\ ask[w].pc = "create" /\ ask[w].file = file
      /\ disk' = [disk EXCEPT ![file] = Empty] /\ ask' = [ask EXCEPT ![w].pc = "fill"]
      /\ UNCHANGED <<told, raced, lost>>
  BY DEF Identity!Create, Identity!At
<1>2. [ask[w] EXCEPT !.pc = "fill"] \in Identity!Asking
  BY DEF IdentityTyped, Identity!Asking
<1>3. /\ IdentityTyped' /\ \A v \in Askers \ {w} : ask'[v] = ask[v]
      /\ ask'[w].pc = "fill" /\ ask'[w].file = file
      /\ ask'[w].pub = ask[w].pub /\ ask'[w].new = ask[w].new
  BY <1>1, <1>2, NewContent DEF IdentityTyped, Identity!Asking
<1>4. ASSUME IdentityKept PROVE IdentityKept'
  <2>1. told = {} /\ \A v \in Askers \ {w} : ask[v].pc = "idle"
    BY <1>1, <1>4, MakerIsAlone DEF Identity!Making
  <2>2. \A other \in Identity!Files \ {file} : disk'[other] = disk[other]
    BY <1>1 DEF IdentityTyped
  <2>3. disk'[file] = Empty
    BY <1>1 DEF IdentityTyped
  <2>4. /\ file = "node_id" => disk["node_pub"] # Absent /\ disk["node_pub"] = ask[w].pub
        /\ file = "node_key" => disk["node_pub"] = Absent
        /\ file = "node_pub" => disk["node_key"] = ask[w].new
        /\ file # "node_id" => ask[w].new = ask[w].pub
    BY <1>1, <1>4 DEF IdentityKept, PubOnDisk, Identity!At
  <2>5. PairOnDisk'
    BY <1>4, <2>2, <2>3, <2>4 DEF IdentityKept, PairOnDisk, Identity!Files
  <2> QED
    BY <1>1, <1>3, <2>1, <2>2, <2>4, <2>5, AloneKeeps DEF Identity!At, Identity!Files
<1> QED
  BY <1>1, <1>3, <1>4

LEMMA FillKeeps ==
  ASSUME IdentityInv, NEW w \in Askers, NEW file \in Identity!Files, Identity!Fill(w, file)
  PROVE  IdentityInv'
<1> USE DEF IdentityInv
<1>1. /\ ask[w].pc = "fill" /\ ask[w].file = file
      /\ disk' = [disk EXCEPT ![file] = ask[w].new] /\ Identity!After(w, file)
      /\ UNCHANGED <<raced, lost>>
  BY DEF Identity!Fill, Identity!At
<1>2. ask[w] \in Identity!Asking /\ ask[w].new \in Identity!Content
  BY DEF IdentityTyped, Identity!Asking
<1>3. disk' \in [Identity!Files -> Identity!Content \cup {Absent}]
      /\ disk'[file] = ask[w].new
      /\ \A other \in Identity!Files \ {file} : disk'[other] = disk[other]
  BY <1>1, <1>2 DEF IdentityTyped
<1>4. IdentityKept =>
        /\ told = {} /\ \A v \in Askers \ {w} : ask[v].pc = "idle"
        /\ file = "node_id" => disk["node_pub"] # Absent /\ disk["node_pub"] = ask[w].pub
        /\ file = "node_key" => disk["node_pub"] = Absent
        /\ file = "node_pub" => disk["node_key"] = ask[w].new
        /\ file # "node_id" => ask[w].new = ask[w].pub
        /\ PairOnDisk
  BY <1>1, MakerIsAlone DEF IdentityKept, PubOnDisk, Identity!At, Identity!Making
<1>5. CASE file = "node_key"
  <2> DEFINE row == [ask[w] EXCEPT !.pc = "create", !.file = "node_pub"]
  <2>1. told' = told /\ ask' = [ask EXCEPT ![w] = row]
    BY <1>1, <1>5 DEF Identity!After, Identity!Open, Identity!KeyPair
  <2>2. /\ row \in Identity!Asking /\ row.pc = "create" /\ row.file = "node_pub"
        /\ row.new = ask[w].new /\ row.pub = ask[w].pub
    BY <1>2 DEF Identity!Asking, Identity!Files
  <2> HIDE DEF row
  <2>3. IdentityTyped' /\ ask'[w] = row /\ \A v \in Askers \ {w} : ask'[v] = ask[v]
    BY <1>3, <2>1, <2>2 DEF IdentityTyped
  <2>4. IdentityKept => IdentityKept'
    BY <1>3, <1>4, <1>5, <2>1, <2>2, <2>3, AloneKeeps DEF Identity!At, PairOnDisk, Identity!Files
  <2> QED
    BY <1>1, <2>3, <2>4
<1>6. CASE file = "node_pub"
  <2> DEFINE row == [ask[w] EXCEPT !.pc = "read_id"]
  <2>1. told' = told /\ ask' = [ask EXCEPT ![w] = row]
    BY <1>1, <1>6 DEF Identity!After, Identity!KeyPair
  <2>2. row \in Identity!Asking /\ row.pc = "read_id" /\ row.pub = ask[w].pub
    BY <1>2 DEF Identity!Asking, Identity!Files
  <2> HIDE DEF row
  <2>3. IdentityTyped' /\ ask'[w] = row /\ \A v \in Askers \ {w} : ask'[v] = ask[v]
    BY <1>3, <2>1, <2>2 DEF IdentityTyped
  <2>4. ask[w].new # Absent
    BY <1>2, NewContent
  <2>5. IdentityKept => IdentityKept'
    BY <1>3, <1>4, <1>6, <2>1, <2>2, <2>3, <2>4, AloneKeeps
       DEF Identity!At, PairOnDisk, Identity!Files
  <2> QED
    BY <1>1, <2>3, <2>5
<1>7. CASE file = "node_id"
  <2>1. /\ told' = told \cup {<<ask[w].pub, ask[w].new>>}
        /\ ask' = [ask EXCEPT ![w] = Identity!Resting]
    BY <1>1, <1>7 DEF Identity!After, Identity!Tell, Identity!KeyPair
  <2>2. Identity!Resting \in Identity!Asking /\ Identity!Resting.pc = "idle"
    BY NewContent DEF Identity!Resting, Identity!Asking, Identity!Files
  <2>3. /\ IdentityTyped' /\ ask'[w].pc = "idle" /\ \A v \in Askers \ {w} : ask'[v] = ask[v]
    BY <1>3, <2>1, <2>2 DEF IdentityTyped
  <2>4. ASSUME IdentityKept PROVE IdentityKept'
    <3>1. \A v \in Askers : ask'[v].pc = "idle"
      BY <1>4, <2>3, <2>4
    <3>2. OneMaker' /\ PubOnDisk'
      BY <3>1 DEF OneMaker, PubOnDisk, Identity!Making, Identity!At
    <3>3. /\ disk'["node_pub"] = ask[w].pub /\ disk'["node_pub"] # Absent
          /\ disk'["node_id"] = ask[w].new /\ disk'["node_id"] # Absent
      BY <1>2, <1>3, <1>4, <1>7, <2>4, NewContent DEF Identity!Files
    <3>4. ToldIsOnDisk'
      BY <1>4, <2>1, <2>4, <3>1, <3>3 DEF ToldIsOnDisk, Identity!Making
    <3>5. PairOnDisk'
      BY <1>3, <1>4, <1>7, <2>4 DEF PairOnDisk, Identity!Files
    <3> QED
      BY <3>2, <3>4, <3>5 DEF IdentityKept
  <2> QED
    BY <1>1, <2>3, <2>4
<1> QED
  BY <1>5, <1>6, <1>7 DEF Identity!Files

(* Once a write has failed, nothing but the types is claimed.              *)
LEMMA IdentityWriteFailsKeeps ==
  ASSUME IdentityInv, NEW w \in Askers, NEW file \in Identity!Files, Identity!WriteFails(w, file)
  PROVE  IdentityInv'
<1>1. lost' = TRUE /\ disk' = disk /\ Identity!After(w, file)
  BY DEF Identity!WriteFails
<1>2. ask[w] \in Identity!Asking
  BY DEF IdentityInv, IdentityTyped
<1>3. PICK row \in Identity!Asking : ask' = [ask EXCEPT ![w] = row]
  <2>1. /\ [ask[w] EXCEPT !.pc = "create", !.file = "node_pub"] \in Identity!Asking
        /\ [ask[w] EXCEPT !.pc = "read_id"] \in Identity!Asking
        /\ Identity!Resting \in Identity!Asking
    BY <1>2, NewContent DEF Identity!Asking, Identity!Files, Identity!Resting
  <2>2. \/ ask' = [ask EXCEPT ![w] = [ask[w] EXCEPT !.pc = "create", !.file = "node_pub"]]
        \/ ask' = [ask EXCEPT ![w] = [ask[w] EXCEPT !.pc = "read_id"]]
        \/ ask' = [ask EXCEPT ![w] = Identity!Resting]
    BY <1>1 DEF Identity!After, Identity!Open, Identity!Tell, Identity!KeyPair, Identity!Files
  <2> QED
    BY <2>1, <2>2
<1> QED
  BY <1>1, <1>3 DEF IdentityInv, IdentityTyped

LEMMA StopKeeps ==
  ASSUME IdentityInv, Identity!Stop
  PROVE  IdentityInv'
<1>1. /\ ask' = [w \in Askers |-> Identity!Resting] /\ UNCHANGED <<disk, told, raced, lost>>
      /\ Identity!Resting \in Identity!Asking /\ Identity!Resting.pc = "idle"
  BY NewContent DEF Identity!Stop, Identity!Resting, Identity!Asking, Identity!Files
<1>2. IdentityTyped' /\ \A w \in Askers : ask'[w].pc = "idle"
  BY <1>1 DEF IdentityInv, IdentityTyped
<1>3. ASSUME IdentityKept PROVE IdentityKept'
  BY <1>1, <1>2, <1>3
     DEF IdentityKept, OneMaker, PubOnDisk, PairOnDisk, ToldIsOnDisk, Identity!Making, Identity!At
<1> QED
  BY <1>1, <1>2, <1>3 DEF IdentityInv

LEMMA IdentityNext == IdentityInv /\ [Identity!Next]_(Identity!vars) => IdentityInv'
<1> SUFFICES ASSUME IdentityInv, [Identity!Next]_(Identity!vars)
             PROVE  IdentityInv'
  OBVIOUS
<1>1. CASE UNCHANGED Identity!vars
  BY <1>1 DEF Identity!vars, IdentityInv, IdentityTyped, IdentityKept, OneMaker, PubOnDisk,
              PairOnDisk, ToldIsOnDisk, Identity!Making, Identity!At
<1> QED
  BY <1>1, ReadPubKeeps, ReadIdKeeps, CreateKeeps, FillKeeps, IdentityWriteFailsKeeps, StopKeeps
     DEF Identity!Next

LEMMA IdentityAlways == Identity!Spec => []IdentityInv
BY IdentityStarts, IdentityNext, PTL DEF Identity!Spec

(* All peers are told one identity, if no request begins while another     *)
(* makes the files and no write fails, though the process die between any  *)
(* two writes (communication.go:29 and 94, read before write).             *)
THEOREM NodeHasOneIdentity == Identity!Spec => []OneIdentity
<1>1. IdentityInv => OneIdentity
  <2> SUFFICES ASSUME IdentityKept, ~raced, ~lost
               PROVE  Identity!Cardinality(told) <= 1
    BY DEF IdentityInv, OneIdentity, Identity!OneIdentity
  <2>1. told = {} \/ told = {<<disk["node_pub"], disk["node_id"]>>}
    BY DEF IdentityKept, ToldIsOnDisk
  <2>2. Cardinality(told) <= 1
    BY <2>1, FS_EmptySet, FS_Singleton
  <2> QED
    BY <2>2 DEF Identity!Cardinality, Cardinality
<1> QED
  BY <1>1, IdentityAlways, PTL

(* Under the same conditions the node has the private key of the public    *)
(* key it has told (communication.go:53-54).                               *)
THEOREM NodeCanProveItsKey == Identity!Spec => []KeyBehindIdentity
<1>1. IdentityInv => KeyBehindIdentity
  BY DEF IdentityInv, IdentityKept, ToldIsOnDisk, PairOnDisk, KeyBehindIdentity,
         Identity!KeyBehindIdentity
<1> QED
  BY <1>1, IdentityAlways, PTL
-----------------------------------------------------------------------------
(* The session of the dashboard.                                           *)

Accepted == Session!Server!Accepted
Pair == Tokens \cup {None}
CallSteps == {"answered", "rotating", "refreshed"}
Replies == {"", "ok", "denied", "failed"}
Row == [pc : {"idle", "sent", "answered", "refreshing", "rotating", "refreshed"},
        kind : Session!Kinds, sent : Pair, refused : Pair, refresh : Pair,
        reply : Replies, pair : Pair]

SessionTyped ==
  /\ store \in [access : Pair, refresh : Pair]
  /\ req \in [Requests -> Row]
  /\ holds \in [Tokens -> Pair] /\ spent \subseteq Tokens

(* Storage has a pair; a token is that of one session.                     *)
PairStored == store.access = store.refresh
OneHolder == \A s, t \in Tokens : holds[s] = holds[t] /\ holds[s] # None => s = t

(* Whatever token is kept or under way was issued, so that a fresh one is  *)
(* none of them: what a refresh brings is not what it was refused with.    *)
Issued == Accepted \cup spent \cup {None}

RequestKnown(q) ==
  /\ q.sent \in Issued
  /\ q.reply = "ok" /\ (q.pc = "refreshed" \/ (q.pc = "answered" /\ q.kind = "login")) =>
       q.pair \in Issued \ {None}
  /\ q.reply = "ok" /\ q.pc = "refreshed" => q.pair # q.sent
  /\ q.pc = "sent" /\ q.refused # None => q.sent # q.refused

TokensKnown == store.access \in Issued /\ \A r \in Requests : RequestKnown(req[r])

SessionKnown == SessionTyped /\ PairStored /\ OneHolder /\ TokensKnown

(* One exchange at a time; and, at each step of it, what of the session is *)
(* in the browser's hands.                                                 *)
Exchange(q) ==
  \/ q.pc # "idle" /\ q.kind \in {"login", "logout"}
  \/ q.pc \in {"refreshing", "rotating", "refreshed"}

OneExchange == \A q, r \in Requests : Exchange(req[q]) /\ Exchange(req[r]) => q = r

RequestSound(q) ==
  /\ q.pair # None =>
       q.reply = "ok" /\ (q.pc = "refreshed" \/ (q.pc = "answered" /\ q.kind = "login"))
  /\ q.pc \in {"answered", "refreshed"} => q.reply \in {"ok", "denied"}
  /\ q.pc \in {"refreshing", "rotating"} => q.refresh = store.refresh /\ q.refresh # None
  /\ q.pc = "refreshed" => Accepted \subseteq (IF q.reply = "ok" THEN {q.pair} ELSE {})
  /\ q.kind = "logout" /\ q.pc # "idle" =>
       \/ q.pc = "sent" /\ q.refresh = store.refresh
       \/ q.pc = "answered" /\ q.reply = "ok" /\ Accepted = {}

ExchangeSound == \A r \in Requests : RequestSound(req[r])

(* Once out, no exchange but another logout is under way.                  *)
OutSound ==
  out => /\ store.refresh = None /\ Accepted = {}
         /\ \A r \in Requests : Exchange(req[r]) => req[r].kind = "logout"

SessionKept == OneExchange /\ ExchangeSound /\ OutSound /\ NothingLost

SessionInv == SessionKnown /\ (mishap \/ SessionKept)

LEMMA SessionStarts == Session!Init => SessionInv
<1> SUFFICES ASSUME Session!Init PROVE SessionInv
  OBVIOUS
<1>1. /\ holds = [s \in Tokens |-> None] /\ spent = {}
      /\ store = [access |-> None, refresh |-> None] /\ out = FALSE
      /\ req = [r \in Requests |-> Session!Idle]
  BY DEF Session!Init, Session!Server!Init
<1>2. Accepted = {}
  BY <1>1 DEF Accepted, Session!Server!Accepted
<1>3. /\ Session!Idle \in Row /\ Session!Idle.pc = "idle" /\ Session!Idle.pair = None
      /\ Session!Idle.sent = None
  BY DEF Session!Idle, Row, Pair, Session!Kinds, Replies
<1>4. SessionTyped /\ PairStored /\ OneHolder
  BY <1>1, <1>3 DEF SessionTyped, PairStored, OneHolder, Pair
<1>5. TokensKnown
  BY <1>1, <1>3 DEF TokensKnown, RequestKnown, Issued
<1>6. OneExchange /\ ExchangeSound /\ OutSound
  BY <1>1, <1>3 DEF OneExchange, ExchangeSound, RequestSound, OutSound, Exchange
<1>7. NothingLost
  BY <1>2 DEF NothingLost, Session!NothingLost, Accepted
<1> QED
  BY <1>4, <1>5, <1>6, <1>7 DEF SessionInv, SessionKnown, SessionKept

-----------------------------------------------------------------------------
(* What the server's steps do to the tokens it accepts.                    *)

LEMMA AcceptedIs ==
  ASSUME SessionTyped
  PROVE  /\ \A t : t \in Accepted <=> t # None /\ \E s \in Tokens : holds[s] = t
         /\ Accepted \subseteq Tokens
BY DEF Accepted, Session!Server!Accepted, SessionTyped, Pair

LEMMA NextTokenFresh ==
  ASSUME NEW t \in Session!NextToken
  PROVE  t \in Tokens /\ t # None /\ t \notin Issued
BY StorageAssumption DEF Session!NextToken, Session!Server!Fresh, Issued, Accepted

LEMMA OpenDoes ==
  ASSUME SessionTyped, OneHolder, NEW t \in Tokens, t \notin Issued, Session!Server!Open(t)
  PROVE  /\ holds' \in [Tokens -> Pair] /\ spent' \subseteq Tokens /\ OneHolder'
         /\ Accepted' = Accepted \cup {t} /\ Issued' = Issued \cup {t}
<1>1. holds' = [holds EXCEPT ![t] = t] /\ spent' = spent /\ holds[t] = None
  BY DEF Session!Server!Open
<1>2. holds' \in [Tokens -> Pair] /\ spent' \subseteq Tokens
  BY <1>1 DEF SessionTyped, Pair
<1>3. \A s \in Tokens : holds[s] # t
  BY AcceptedIs DEF Issued
<1>4. OneHolder'
  BY <1>1, <1>3 DEF OneHolder, SessionTyped
<1>5. \A u : u \in Accepted' <=> u # None /\ \E s \in Tokens : holds'[s] = u
  BY DEF Accepted, Session!Server!Accepted
<1>6. t # None
  BY DEF Issued
<1>7. Accepted' = Accepted \cup {t}
  BY <1>1, <1>5, <1>6, AcceptedIs DEF SessionTyped
<1> QED
  BY <1>1, <1>2, <1>4, <1>7 DEF Issued

LEMMA RenewDoes ==
  ASSUME SessionTyped, OneHolder, NEW s \in Tokens, NEW t \in Tokens, t \notin Issued,
         Session!Server!Renew(s, t)
  PROVE  /\ holds' \in [Tokens -> Pair] /\ spent' \subseteq Tokens /\ OneHolder'
         /\ Accepted' = (Accepted \ {holds[s]}) \cup {t} /\ Issued' = Issued \cup {t}
<1>1. holds[s] # None /\ holds' = [holds EXCEPT ![s] = t] /\ spent' = spent \cup {holds[s]}
  BY DEF Session!Server!Renew
<1>2. holds' \in [Tokens -> Pair] /\ spent' \subseteq Tokens
  BY <1>1 DEF SessionTyped, Pair
<1>3. \A u \in Tokens : holds[u] # t
  BY AcceptedIs DEF Issued
<1>4. OneHolder'
  BY <1>1, <1>3 DEF OneHolder, SessionTyped
<1>5. \A u : u \in Accepted' <=> u # None /\ \E v \in Tokens : holds'[v] = u
  BY DEF Accepted, Session!Server!Accepted
<1>6. t # None
  BY DEF Issued
<1>7. \A v \in Tokens \ {s} : holds'[v] = holds[v] /\ (holds[v] # None => holds[v] # holds[s])
  BY <1>1 DEF OneHolder, SessionTyped
<1>8. holds'[s] = t
  BY <1>1 DEF SessionTyped
<1>9. Accepted' = (Accepted \ {holds[s]}) \cup {t}
  <2>1. ASSUME NEW u \in Accepted' PROVE u \in (Accepted \ {holds[s]}) \cup {t}
    BY <1>5, <1>7, <1>8, <2>1, AcceptedIs
  <2>2. ASSUME NEW u \in (Accepted \ {holds[s]}) \cup {t} PROVE u \in Accepted'
    BY <1>5, <1>6, <1>7, <1>8, <2>2, AcceptedIs
  <2> QED
    BY <2>1, <2>2
<1>10. holds[s] \in Accepted
  BY <1>1, AcceptedIs
<1> QED
  BY <1>1, <1>2, <1>4, <1>9, <1>10 DEF Issued

LEMMA CloseDoes ==
  ASSUME SessionTyped, OneHolder, NEW S \in SUBSET Tokens, Session!Server!Close(S)
  PROVE  /\ holds' \in [Tokens -> Pair] /\ spent' \subseteq Tokens /\ OneHolder'
         /\ Accepted' = Accepted \ {holds[s] : s \in S} /\ Issued' = Issued
<1>1. /\ \A s \in S : holds[s] # None
      /\ holds' = [s \in Tokens |-> IF s \in S THEN None ELSE holds[s]]
      /\ spent' = spent \cup {holds[s] : s \in S}
  BY DEF Session!Server!Close
<1>2. holds' \in [Tokens -> Pair] /\ spent' \subseteq Tokens
  BY <1>1 DEF SessionTyped, Pair
<1>3. OneHolder'
  BY <1>1 DEF OneHolder
<1>4. \A u : u \in Accepted' <=> u # None /\ \E v \in Tokens : holds'[v] = u
  BY DEF Accepted, Session!Server!Accepted
<1>5. Accepted' = Accepted \ {holds[s] : s \in S}
  <2>1. ASSUME NEW u \in Accepted' PROVE u \in Accepted /\ \A s \in S : holds[s] # u
    <3>1. PICK v \in Tokens : v \notin S /\ holds[v] = u /\ u # None
      BY <1>1, <1>4, <2>1
    <3> QED
      BY <3>1, AcceptedIs DEF OneHolder
  <2>2. ASSUME NEW u \in Accepted, \A s \in S : holds[s] # u PROVE u \in Accepted'
    <3>1. PICK v \in Tokens : holds[v] = u /\ u # None
      BY <2>2, AcceptedIs
    <3> QED
      BY <1>1, <1>4, <2>2, <3>1
  <2> QED
    BY <2>1, <2>2
<1>6. {holds[s] : s \in S} \subseteq Accepted
  BY <1>1, AcceptedIs
<1> QED
  BY <1>1, <1>2, <1>3, <1>5, <1>6 DEF Issued

LEMMA WasteDoes ==
  ASSUME SessionTyped, OneHolder, NEW t \in Tokens, Session!Server!Waste(t)
  PROVE  /\ holds' \in [Tokens -> Pair] /\ spent' \subseteq Tokens /\ OneHolder'
         /\ Accepted' = Accepted /\ Issued' = Issued \cup {t}
<1>1. holds' = holds /\ spent' = spent \cup {t}
  BY DEF Session!Server!Waste
<1>2. Accepted' = Accepted /\ OneHolder'
  BY <1>1 DEF Accepted, Session!Server!Accepted, OneHolder
<1> QED
  BY <1>1, <1>2 DEF SessionTyped, Issued

LEMMA TablesUnchanged ==
  ASSUME SessionTyped, OneHolder, UNCHANGED <<holds, spent>>
  PROVE  /\ holds' \in [Tokens -> Pair] /\ spent' \subseteq Tokens /\ OneHolder'
         /\ Accepted' = Accepted /\ Issued' = Issued
BY DEF SessionTyped, OneHolder, Accepted, Session!Server!Accepted, Issued

-----------------------------------------------------------------------------
(* What one request does to the others.                                    *)

LEMMA KnownKeeps ==
  ASSUME SessionKnown, NEW r \in Requests, NEW row \in Row, req' = [req EXCEPT ![r] = row],
         store' \in [access : Pair, refresh : Pair], PairStored', store'.access \in Issued',
         holds' \in [Tokens -> Pair], spent' \subseteq Tokens, OneHolder',
         Issued \subseteq Issued', (RequestKnown(row))'
  PROVE  SessionKnown'
<1>1. req' = [req EXCEPT ![r] = row] /\ req \in [Requests -> Row]
  BY DEF SessionKnown, SessionTyped
<1>2. SessionTyped'
  BY <1>1 DEF SessionTyped
<1>3. \A v \in Requests : (RequestKnown(req[v]))'
  <2>1. ASSUME NEW v \in Requests, v # r PROVE (RequestKnown(req[v]))'
    BY <1>1, <2>1 DEF SessionKnown, TokensKnown, RequestKnown
  <2>2. (RequestKnown(req[r]))'
    BY <1>1 DEF RequestKnown
  <2> QED
    BY <2>1, <2>2
<1> QED
  BY <1>2, <1>3 DEF SessionKnown, TokensKnown

(* A request that makes no exchange of its own, or ends, and leaves the    *)
(* tokens be.                                                              *)
LEMMA BystanderKeeps ==
  ASSUME SessionTyped, SessionKept, NEW r \in Requests, NEW row \in Row, req' = [req EXCEPT ![r] = row],
         store' = store, Accepted' = Accepted, out' => out, ~mishap,
         ~Exchange(row), req[r].pair = None, row.pair = None,
         row.pc = "answered" => row.reply \in {"ok", "denied"}
  PROVE  SessionKept'
<1>1. /\ req' \in [Requests -> Row] /\ req'[r] = row
      /\ \A v \in Requests \ {r} : req'[v] = req[v]
  BY DEF SessionTyped
<1>2. OneExchange'
  BY <1>1 DEF SessionKept, OneExchange
<1>3. ExchangeSound'
  <2>1. ASSUME NEW v \in Requests, v # r PROVE (RequestSound(req[v]))'
    BY <1>1, <2>1 DEF SessionKept, ExchangeSound, RequestSound
  <2>2. (RequestSound(req[r]))'
    BY <1>1 DEF Exchange, RequestSound
  <2> QED
    BY <2>1, <2>2 DEF ExchangeSound
<1>4. OutSound'
  BY <1>1 DEF SessionKept, OutSound
<1>5. NothingLost'
  <2> SUFFICES ASSUME NEW t \in Accepted PROVE Session!InHand(t)'
    BY DEF NothingLost, Session!NothingLost, Accepted
  <2>1. Session!InHand(t) /\ t # None
    BY DEF SessionKept, NothingLost, Session!NothingLost, Accepted, Session!Server!Accepted
  <2>2. CASE store.refresh = t
    BY <2>2 DEF Session!InHand
  <2>3. CASE store.refresh # t
    <3>1. PICK v \in Requests : req[v].pc \in {"answered", "refreshed"} /\ req[v].pair = t
      BY <2>1, <2>3 DEF Session!InHand
    <3>2. v # r
      BY <2>1, <3>1
    <3> QED
      BY <1>1, <3>1, <3>2 DEF Session!InHand
  <2> QED
    BY <2>2, <2>3
<1> QED
  BY <1>2, <1>3, <1>4, <1>5 DEF SessionKept

(* The request that makes the exchange: the others hold nothing.           *)
LEMMA AloneInHand ==
  ASSUME SessionTyped, SessionKept, ~mishap, NEW r \in Requests,
         \A v \in Requests \ {r} : ~Exchange(req[v])
  PROVE  Accepted \subseteq {store.refresh, req[r].pair}
<1> SUFFICES ASSUME NEW t \in Accepted, store.refresh # t PROVE req[r].pair = t
  OBVIOUS
<1>1. Session!InHand(t) /\ t # None
  BY DEF SessionKept, NothingLost, Session!NothingLost, Accepted, Session!Server!Accepted
<1>2. PICK v \in Requests : req[v].pc \in {"answered", "refreshed"} /\ req[v].pair = t
  BY <1>1 DEF Session!InHand
<1>3. Exchange(req[v])
  BY <1>1, <1>2 DEF SessionKept, ExchangeSound, RequestSound, Exchange
<1> QED
  BY <1>2, <1>3

LEMMA ExchangeKeeps ==
  ASSUME SessionTyped, SessionKept, NEW r \in Requests, NEW row \in Row, req' = [req EXCEPT ![r] = row],
         \A v \in Requests \ {r} : ~Exchange(req[v]),
         (RequestSound(row))',
         Accepted' \subseteq {store'.refresh}
           \cup (IF row.pc \in {"answered", "refreshed"} THEN {row.pair} ELSE {}),
         out' => store'.refresh = None /\ Accepted' = {} /\ (Exchange(row) => row.kind = "logout")
  PROVE  SessionKept'
<1>1. /\ req' \in [Requests -> Row] /\ req'[r] = row
      /\ \A v \in Requests \ {r} : req'[v] = req[v]
  BY DEF SessionTyped
<1>2. OneExchange'
  BY <1>1 DEF OneExchange
<1>3. ExchangeSound'
  <2>1. ASSUME NEW v \in Requests, v # r PROVE (RequestSound(req[v]))'
    <3>1. RequestSound(req[v]) /\ ~Exchange(req[v])
      BY <2>1 DEF SessionKept, ExchangeSound
    <3> QED
      BY <1>1, <2>1, <3>1 DEF RequestSound, Exchange
  <2>2. (RequestSound(req[r]))'
    BY <1>1 DEF RequestSound
  <2> QED
    BY <2>1, <2>2 DEF ExchangeSound
<1>4. OutSound'
  BY <1>1 DEF OutSound
<1>5. NothingLost'
  <2> SUFFICES ASSUME NEW t \in Accepted' PROVE Session!InHand(t)'
    BY DEF NothingLost, Session!NothingLost, Accepted
  <2>1. store'.refresh = t \/ (row.pc \in {"answered", "refreshed"} /\ row.pair = t)
    OBVIOUS
  <2> QED
    BY <1>1, <2>1 DEF Session!InHand
<1> QED
  BY <1>2, <1>3, <1>4, <1>5 DEF SessionKept

(* An exchange that begins without a mishap is the only one; one under way *)
(* is the only one.                                                        *)
LEMMA BeginsAlone ==
  ASSUME NEW r \in Requests, Session!BeginExchange(r), ~mishap'
  PROVE  ~mishap /\ \A v \in Requests \ {r} : ~Exchange(req[v])
BY DEF Session!BeginExchange, Session!Exchanging, Exchange

LEMMA GoesOnAlone ==
  ASSUME SessionKept, NEW r \in Requests, Exchange(req[r])
  PROVE  /\ \A v \in Requests \ {r} : ~Exchange(req[v])
         /\ out => req[r].kind = "logout"
BY DEF SessionKept, OneExchange, OutSound

LEMMA RowsAreSound ==
  ASSUME SessionKept, NEW r \in Requests
  PROVE  RequestSound(req[r])
BY DEF SessionKept, ExchangeSound

(* Answers.                                                                *)
AnswerRow(q, step, reply, t) ==
  [q EXCEPT !.pc = step, !.reply = reply, !.pair = t,
            !.refresh = IF step = "rotating" THEN @ ELSE None,
            !.sent = IF reply \in {"ok", "failed"} /\ step = "answered" THEN None ELSE @,
            !.refused = None]

LEMMA AnswerRowIs ==
  ASSUME NEW q \in Row, NEW step \in CallSteps,
         NEW reply \in Replies, NEW t \in Pair
  PROVE  \E row \in Row :
         /\ row = AnswerRow(q, step, reply, t)
         /\ row.pc = step /\ row.kind = q.kind /\ row.reply = reply /\ row.pair = t
         /\ row.refused = None /\ row.sent \in {q.sent, None}
         /\ step # "answered" => row.sent = q.sent
         /\ step = "rotating" => row.refresh = q.refresh
<1> DEFINE refresh == IF step = "rotating" THEN q.refresh ELSE None
           sent == IF reply \in {"ok", "failed"} /\ step = "answered" THEN None ELSE q.sent
           row == [q EXCEPT !.pc = step, !.reply = reply, !.pair = t,
                     !.refresh = refresh, !.sent = sent, !.refused = None]
<1>1. AnswerRow(q, step, reply, t) = row
  BY DEF AnswerRow
<1>2. /\ refresh \in Pair /\ sent \in {q.sent, None} /\ sent \in Pair
      /\ step # "answered" => sent = q.sent
      /\ step = "rotating" => refresh = q.refresh
  BY DEF Row, Pair
<1> HIDE DEF refresh, sent
<1>3. /\ row \in Row
      /\ row.pc = step /\ row.kind = q.kind /\ row.reply = reply /\ row.pair = t
      /\ row.refused = None /\ row.sent \in {q.sent, None}
      /\ step # "answered" => row.sent = q.sent
      /\ step = "rotating" => row.refresh = q.refresh
  BY <1>2, ZenonT(60) DEF Row, Pair, CallSteps, Replies
<1> HIDE DEF row
<1> QED
  BY <1>1, <1>3

LEMMA AnswerIs ==
  ASSUME SessionTyped, NEW r \in Requests,
         NEW step \in CallSteps, NEW reply \in Replies, NEW t \in Pair
  PROVE  \E row \in Row :
           /\ row = AnswerRow(req[r], step, reply, t)
           /\ row.pc = step /\ row.kind = req[r].kind /\ row.reply = reply /\ row.pair = t
           /\ row.refused = None /\ row.sent \in {req[r].sent, None}
           /\ step # "answered" => row.sent = req[r].sent
           /\ step = "rotating" => row.refresh = req[r].refresh
<1>1. PICK q \in Row : q = req[r]
  BY DEF SessionTyped
<1>2. PICK row \in Row :
        /\ row = AnswerRow(q, step, reply, t)
        /\ row.pc = step /\ row.kind = q.kind /\ row.reply = reply /\ row.pair = t
        /\ row.refused = None /\ row.sent \in {q.sent, None}
        /\ step # "answered" => row.sent = q.sent
        /\ step = "rotating" => row.refresh = q.refresh
  BY AnswerRowIs
<1> QED
  BY <1>1, <1>2

LEMMA Literals ==
  /\ "answered" \in CallSteps /\ "rotating" \in CallSteps /\ "refreshed" \in CallSteps
  /\ "" \in Replies /\ "ok" \in Replies /\ "denied" \in Replies /\ "failed" \in Replies
  /\ None \in Pair /\ Tokens \subseteq Pair
BY DEF CallSteps, Replies, Pair

LEMMA IdleRow ==
  /\ Session!Idle \in Row /\ Session!Idle.pc = "idle" /\ Session!Idle.pair = None
  /\ Session!Idle.sent = None
  /\ ~Exchange(Session!Idle)
BY DEF Session!Idle, Row, Pair, Session!Kinds, Replies, Exchange

(* A request that ends and leaves the tokens be.                           *)
LEMMA DoneKeeps ==
  ASSUME SessionInv, NEW r \in Requests, req' = [req EXCEPT ![r] = Session!Idle],
         UNCHANGED <<store, holds, spent>>,
         out' => out, ~mishap' => ~mishap /\ req[r].pair = None
  PROVE  SessionInv'
<1>1. req' = [req EXCEPT ![r] = Session!Idle] /\ SessionKnown /\ SessionTyped
  BY DEF SessionInv, SessionKnown
<1>2. /\ holds' \in [Tokens -> Pair] /\ spent' \subseteq Tokens /\ OneHolder'
      /\ Accepted' = Accepted /\ Issued' = Issued
  BY TablesUnchanged DEF SessionInv, SessionKnown
<1>3. (RequestKnown(Session!Idle))'
  BY IdleRow DEF RequestKnown, Issued
<1>4. SessionKnown'
  <2>1. /\ store' \in [access : Pair, refresh : Pair] /\ PairStored'
        /\ store'.access \in Issued'
    BY <1>1, <1>2 DEF SessionKnown, SessionTyped, PairStored, TokensKnown
  <2> QED
    BY <1>1, <1>2, <1>3, <2>1, IdleRow, KnownKeeps
<1>5. ASSUME ~mishap' PROVE SessionKept'
  <2>1. SessionKept /\ ~mishap /\ req[r].pair = None
    BY <1>5 DEF SessionInv
  <2> QED
    BY <1>1, <1>2, <2>1, IdleRow, BystanderKeeps
<1> QED
  BY <1>4, <1>5 DEF SessionInv

LEMMA SameStoreKnown ==
  ASSUME SessionKnown, NEW r \in Requests, NEW row \in Row, req' = [req EXCEPT ![r] = row],
         store' = store, holds' \in [Tokens -> Pair], spent' \subseteq Tokens, OneHolder',
         Issued \subseteq Issued', (RequestKnown(row))'
  PROVE  SessionKnown'
<1>1. /\ store' \in [access : Pair, refresh : Pair] /\ PairStored' /\ store'.access \in Issued'
  BY DEF SessionKnown, SessionTyped, PairStored, TokensKnown
<1> QED
  BY <1>1, KnownKeeps

LEMMA StoreIs ==
  ASSUME SessionKnown
  PROVE  /\ store = [access |-> store.access, refresh |-> store.refresh]
         /\ store.access = store.refresh /\ store.access \in Pair /\ store.access \in Issued
BY DEF SessionKnown, SessionTyped, PairStored, TokensKnown

-----------------------------------------------------------------------------
(* The actions of the browser that send.                                   *)
LEMMA SendKeeps ==
  ASSUME SessionInv, NEW r \in Requests, NEW kind \in Session!Kinds, Session!Send(r, kind)
  PROVE  SessionInv'
<1> USE DEF SessionInv
<1> DEFINE sent == IF kind \in {"call", "me"} THEN store.access ELSE None
           refresh == IF kind = "logout" THEN store.refresh ELSE None
           mine == [Session!Idle EXCEPT !.pc = "sent", !.kind = kind, !.sent = sent,
                      !.refresh = refresh]
<1>1. /\ req[r].pc = "idle" /\ req' = [req EXCEPT ![r] = mine] /\ out' = (out /\ kind # "login")
      /\ UNCHANGED <<store, holds, spent>>
      /\ IF kind \in {"login", "logout"} THEN Session!BeginExchange(r) ELSE UNCHANGED mishap
  BY DEF Session!Send, Session!Become, Session!serverVars
<1>2. sent \in Pair /\ sent \in Issued /\ refresh \in Pair /\ (kind = "logout" => refresh = store.refresh)
  BY StoreIs DEF Pair, Issued
<1> HIDE DEF sent, refresh
<1>3. /\ mine \in Row /\ mine.pc = "sent" /\ mine.kind = kind /\ mine.sent = sent
      /\ mine.refresh = refresh /\ mine.refused = None /\ mine.reply = "" /\ mine.pair = None
  BY <1>2 DEF Session!Idle, Row, Pair, Replies
<1> HIDE DEF mine
<1>4. PICK row \in Row :
        /\ req' = [req EXCEPT ![r] = row]
        /\ row.pc = "sent" /\ row.kind = kind /\ row.sent \in Issued /\ row.refused = None
        /\ row.reply = "" /\ row.pair = None /\ (kind = "logout" => row.refresh = store.refresh)
  BY <1>1, <1>2, <1>3
<1>5. /\ holds' \in [Tokens -> Pair] /\ spent' \subseteq Tokens /\ OneHolder'
      /\ Accepted' = Accepted /\ Issued' = Issued
  BY <1>1, TablesUnchanged DEF SessionKnown
<1>6. SessionKnown'
  BY <1>1, <1>4, <1>5, SameStoreKnown DEF RequestKnown
<1>7. ASSUME ~mishap', kind \notin {"login", "logout"} PROVE SessionKept'
  <2>1. SessionKept /\ ~mishap
    BY <1>1, <1>7
  <2>2. req[r].pair = None
    BY <1>1, <2>1, RowsAreSound DEF RequestSound
  <2> QED
    BY <1>1, <1>4, <1>5, <1>7, <2>1, <2>2, BystanderKeeps DEF Exchange, SessionKnown
<1>8. ASSUME ~mishap', kind \in {"login", "logout"} PROVE SessionKept'
  <2>1. SessionKept /\ ~mishap /\ \A v \in Requests \ {r} : ~Exchange(req[v])
    BY <1>1, <1>8, BeginsAlone
  <2>2. req[r].pair = None
    BY <1>1, <2>1, RowsAreSound DEF RequestSound
  <2>3. Accepted' \subseteq {store'.refresh}
    <3>1. None \notin Accepted
      BY AcceptedIs DEF SessionKnown
    <3> QED
      BY <1>1, <1>5, <2>1, <2>2, <3>1, AloneInHand DEF SessionKnown
  <2>4. (RequestSound(row))'
    BY <1>1, <1>4, <1>8 DEF RequestSound
  <2>5. out' => store'.refresh = None /\ Accepted' = {} /\ row.kind = "logout"
    BY <1>1, <1>4, <1>5, <1>8, <2>1 DEF SessionKept, OutSound
  <2> QED
    BY <1>4, <2>1, <2>3, <2>4, <2>5, ExchangeKeeps DEF SessionKnown
<1> QED
  BY <1>6, <1>7, <1>8

-----------------------------------------------------------------------------
(* The actions of the server.                                              *)
LEMMA ServeCallKeeps ==
  ASSUME SessionInv, NEW r \in Requests, Session!ServeCall(r)
  PROVE  SessionInv'
<1> USE DEF SessionInv
<1>1. /\ req[r].pc = "sent" /\ req[r].kind \in {"call", "me"}
      /\ UNCHANGED <<store, holds, spent, out, mishap>>
  BY DEF Session!ServeCall, Session!serverVars
<1>2. PICK reply \in {"ok", "denied"} : Session!Answer(r, "answered", reply, None)
  BY DEF Session!ServeCall
<1>3. PICK row \in Row :
        /\ req' = [req EXCEPT ![r] = row]
        /\ row.pc = "answered" /\ row.kind = req[r].kind /\ row.reply = reply /\ row.pair = None
        /\ row.sent \in {req[r].sent, None}
  <2>1. req' = [req EXCEPT ![r] = AnswerRow(req[r], "answered", reply, None)]
    BY <1>2 DEF Session!Answer, Session!Become, AnswerRow
  <2>2. reply \in Replies
    BY Literals
  <2>4. "answered" \in CallSteps /\ None \in Pair /\ SessionTyped
    BY Literals DEF SessionKnown
  <2>3. PICK row \in Row :
        /\ row = AnswerRow(req[r], "answered", reply, None)
        /\ row.pc = "answered" /\ row.kind = req[r].kind /\ row.reply = reply /\ row.pair = None
        /\ row.sent \in {req[r].sent, None}
    BY <2>2, <2>4, AnswerIs
  <2> QED
    BY <2>1, <2>3
<1>4. /\ holds' \in [Tokens -> Pair] /\ spent' \subseteq Tokens /\ OneHolder'
      /\ Accepted' = Accepted /\ Issued' = Issued
  BY <1>1, TablesUnchanged DEF SessionKnown
<1>5. (RequestKnown(row))'
  BY <1>1, <1>3, <1>4 DEF SessionKnown, TokensKnown, RequestKnown, Issued
<1>6. SessionKnown'
  BY <1>1, <1>3, <1>4, <1>5, SameStoreKnown
<1>7. ASSUME ~mishap' PROVE SessionKept'
  <2>1. SessionKept /\ ~mishap
    BY <1>1, <1>7
  <2>2. req[r].pair = None
    BY <1>1, <2>1, RowsAreSound DEF RequestSound
  <2> QED
    BY <1>1, <1>3, <1>4, <2>1, <2>2, BystanderKeeps DEF Exchange, SessionKnown
<1> QED
  BY <1>6, <1>7

LEMMA ServeLoginKeeps ==
  ASSUME SessionInv, NEW r \in Requests, Session!ServeLogin(r)
  PROVE  SessionInv'
<1> USE DEF SessionInv
<1>1. /\ req[r].pc = "sent" /\ req[r].kind = "login" /\ Exchange(req[r])
      /\ UNCHANGED <<store, out, mishap>>
  BY DEF Session!ServeLogin, Exchange
<1>2. ASSUME ~mishap
      PROVE  /\ SessionKept /\ ~out /\ \A v \in Requests \ {r} : ~Exchange(req[v])
             /\ Accepted \subseteq {store.refresh}
  <2>1. SessionKept /\ (\A v \in Requests \ {r} : ~Exchange(req[v])) /\ ~out
    BY <1>1, <1>2, GoesOnAlone
  <2>2. req[r].pair = None /\ None \notin Accepted
    BY <1>1, <2>1, RowsAreSound, AcceptedIs DEF RequestSound, SessionKnown
  <2> QED
    BY <1>2, <2>1, <2>2, AloneInHand DEF SessionKnown
<1>3. CASE Session!Answer(r, "answered", "denied", None) /\ UNCHANGED <<holds, spent>>
  <2>1. PICK row \in Row :
          /\ req' = [req EXCEPT ![r] = row]
          /\ row.pc = "answered" /\ row.kind = "login" /\ row.reply = "denied"
          /\ row.pair = None /\ row.sent \in {req[r].sent, None}
    <3>1. req' = [req EXCEPT ![r] = AnswerRow(req[r], "answered", "denied", None)]
      BY <1>3 DEF Session!Answer, Session!Become, AnswerRow
    <3>2. PICK row \in Row :
            /\ row = AnswerRow(req[r], "answered", "denied", None)
            /\ row.pc = "answered" /\ row.kind = req[r].kind /\ row.reply = "denied"
            /\ row.pair = None /\ row.sent \in {req[r].sent, None}
      <4>1. PICK reply \in Replies : reply = "denied"
        BY Literals
      <4>2. PICK row \in Row :
              /\ row = AnswerRow(req[r], "answered", reply, None)
              /\ row.pc = "answered" /\ row.kind = req[r].kind /\ row.reply = reply
              /\ row.pair = None /\ row.sent \in {req[r].sent, None}
        <5>1. SessionTyped /\ "answered" \in CallSteps /\ None \in Pair
          BY Literals DEF SessionKnown
        <5> QED
          BY <5>1, AnswerIs
      <4> QED
        BY <4>1, <4>2
    <3> QED
      BY <1>1, <3>1, <3>2
  <2>2. /\ holds' \in [Tokens -> Pair] /\ spent' \subseteq Tokens /\ OneHolder'
        /\ Accepted' = Accepted /\ Issued' = Issued
    BY <1>3, TablesUnchanged DEF SessionKnown
  <2>3. (RequestKnown(row))'
    BY <2>1, <2>2 DEF SessionKnown, TokensKnown, RequestKnown, Issued
  <2>4. SessionKnown'
    BY <1>1, <2>1, <2>2, <2>3, SameStoreKnown
  <2>5. ASSUME ~mishap' PROVE SessionKept'
    <3>1. (RequestSound(row))'
      BY <2>1 DEF RequestSound
    <3> QED
      BY <1>1, <1>2, <2>1, <2>2, <2>5, <3>1, ExchangeKeeps DEF SessionKnown
  <2> QED
    BY <2>4, <2>5
<1>4. CASE \E t \in Session!NextToken :
             Session!Server!Open(t) /\ Session!Answer(r, "answered", "ok", t)
  <2>1. PICK t \in Session!NextToken :
          Session!Server!Open(t) /\ Session!Answer(r, "answered", "ok", t)
    BY <1>4
  <2>2. t \in Tokens /\ t # None /\ t \notin Issued
    BY NextTokenFresh
  <2>3. PICK row \in Row :
          /\ req' = [req EXCEPT ![r] = row]
          /\ row.pc = "answered" /\ row.kind = "login" /\ row.reply = "ok"
          /\ row.pair = t /\ row.sent \in {req[r].sent, None}
    <3>1. req' = [req EXCEPT ![r] = AnswerRow(req[r], "answered", "ok", t)]
      BY <2>1 DEF Session!Answer, Session!Become, AnswerRow
    <3>2. PICK row \in Row :
            /\ row = AnswerRow(req[r], "answered", "ok", t)
            /\ row.pc = "answered" /\ row.kind = req[r].kind /\ row.reply = "ok"
            /\ row.pair = t /\ row.sent \in {req[r].sent, None}
      <4>1. PICK reply \in Replies : reply = "ok"
        BY Literals
      <4>2. PICK row \in Row :
              /\ row = AnswerRow(req[r], "answered", reply, t)
              /\ row.pc = "answered" /\ row.kind = req[r].kind /\ row.reply = reply
              /\ row.pair = t /\ row.sent \in {req[r].sent, None}
        <5>1. SessionTyped /\ "answered" \in CallSteps /\ t \in Pair
          BY <2>2, Literals DEF SessionKnown
        <5> QED
          BY <5>1, AnswerIs
      <4> QED
        BY <4>1, <4>2
    <3> QED
      BY <1>1, <3>1, <3>2
  <2>4. /\ holds' \in [Tokens -> Pair] /\ spent' \subseteq Tokens /\ OneHolder'
        /\ Accepted' = Accepted \cup {t} /\ Issued' = Issued \cup {t}
    BY <2>1, <2>2, OpenDoes DEF SessionKnown
  <2>5. (RequestKnown(row))'
    BY <2>2, <2>3, <2>4 DEF SessionKnown, TokensKnown, RequestKnown, Issued
  <2>6. SessionKnown'
    BY <1>1, <2>3, <2>4, <2>5, SameStoreKnown
  <2>7. ASSUME ~mishap' PROVE SessionKept'
    <3>1. (RequestSound(row))'
      BY <2>3 DEF RequestSound
    <3>2. Accepted' \subseteq {store'.refresh} \cup {row.pair}
      BY <1>1, <1>2, <2>3, <2>4, <2>7
    <3> QED
      BY <1>1, <1>2, <2>3, <2>7, <3>1, <3>2, ExchangeKeeps DEF SessionKnown
  <2> QED
    BY <2>6, <2>7
<1> QED
  BY <1>3, <1>4 DEF Session!ServeLogin

(* A logout closes the session whose token was stored at the click, which  *)
(* is the only one there can be.                                           *)
LEMMA ServeLogoutKeeps ==
  ASSUME SessionInv, NEW r \in Requests, Session!ServeLogout(r)
  PROVE  SessionInv'
<1> USE DEF SessionInv
<1> DEFINE S == {s \in Tokens : holds[s] = req[r].refresh /\ holds[s] # None}
<1>1. /\ req[r].pc = "sent" /\ req[r].kind = "logout" /\ Exchange(req[r])
      /\ UNCHANGED <<store, out, mishap>>
      /\ Session!Server!Close(S) /\ Session!Answer(r, "answered", "ok", None)
  BY DEF Session!ServeLogout, Exchange
<1>2. PICK row \in Row :
        /\ req' = [req EXCEPT ![r] = row]
        /\ row.pc = "answered" /\ row.kind = "logout" /\ row.reply = "ok"
        /\ row.pair = None /\ row.sent \in {req[r].sent, None}
  <2>1. req' = [req EXCEPT ![r] = AnswerRow(req[r], "answered", "ok", None)]
    BY <1>1 DEF Session!Answer, Session!Become, AnswerRow
  <2>2. PICK row \in Row :
          /\ row = AnswerRow(req[r], "answered", "ok", None)
          /\ row.pc = "answered" /\ row.kind = req[r].kind /\ row.reply = "ok"
          /\ row.pair = None /\ row.sent \in {req[r].sent, None}
    <3>1. PICK reply \in Replies : reply = "ok"
      BY Literals
    <3>2. PICK row \in Row :
            /\ row = AnswerRow(req[r], "answered", reply, None)
            /\ row.pc = "answered" /\ row.kind = req[r].kind /\ row.reply = reply
            /\ row.pair = None /\ row.sent \in {req[r].sent, None}
      <4>1. SessionTyped /\ "answered" \in CallSteps /\ None \in Pair
        BY Literals DEF SessionKnown
      <4> QED
        BY <4>1, AnswerIs
    <3> QED
      BY <3>1, <3>2
  <2> QED
    BY <1>1, <2>1, <2>2
<1>3. /\ holds' \in [Tokens -> Pair] /\ spent' \subseteq Tokens /\ OneHolder'
      /\ Accepted' = Accepted \ {holds[s] : s \in S} /\ Issued' = Issued
  BY <1>1, CloseDoes DEF SessionKnown
<1>4. (RequestKnown(row))'
  BY <1>2, <1>3 DEF SessionKnown, TokensKnown, RequestKnown, Issued
<1>5. SessionKnown'
  BY <1>1, <1>2, <1>3, <1>4, SameStoreKnown
<1>6. ASSUME ~mishap' PROVE SessionKept'
  <2>1. /\ ~mishap /\ SessionKept /\ \A v \in Requests \ {r} : ~Exchange(req[v])
        /\ req[r].pair = None /\ req[r].refresh = store.refresh
    BY <1>1, <1>6, GoesOnAlone, RowsAreSound DEF RequestSound
  <2>2. Accepted \subseteq {store.refresh, None}
    BY <2>1, AloneInHand DEF SessionKnown
  <2>3. Accepted' = {}
    <3> SUFFICES ASSUME NEW t \in Accepted' PROVE FALSE
      OBVIOUS
    <3>1. t \in Accepted /\ \A s \in S : holds[s] # t
      BY <1>3
    <3>2. t = store.refresh /\ t # None /\ \E s \in Tokens : holds[s] = t
      BY <2>2, <3>1, AcceptedIs DEF SessionKnown
    <3> QED
      BY <2>1, <3>1, <3>2
  <2>4. (RequestSound(row))'
    BY <1>2, <2>3 DEF RequestSound
  <2>5. out' => store'.refresh = None
    BY <1>1, <2>1 DEF SessionKept, OutSound
  <2> QED
    BY <1>1, <1>2, <2>1, <2>3, <2>4, <2>5, ExchangeKeeps DEF SessionKnown
<1> QED
  BY <1>5, <1>6

(* An exchange in its last steps: what the session consists of.            *)
LEMMA RefreshAlone ==
  ASSUME SessionTyped, SessionKept, ~mishap, NEW r \in Requests,
         req[r].pc \in {"refreshing", "rotating"}
  PROVE  /\ \A v \in Requests \ {r} : ~Exchange(req[v])
         /\ ~out /\ req[r].kind # "logout" /\ req[r].pair = None
         /\ req[r].refresh = store.refresh /\ req[r].refresh # None
         /\ Accepted \subseteq {req[r].refresh}
<1>1. Exchange(req[r])
  BY DEF Exchange
<1>2. RequestSound(req[r])
  BY RowsAreSound
<1>3. /\ req[r].pair = None /\ req[r].refresh = store.refresh /\ req[r].refresh # None
      /\ req[r].kind # "logout"
  BY <1>2 DEF RequestSound
<1>4. (\A v \in Requests \ {r} : ~Exchange(req[v])) /\ ~out
  BY <1>1, <1>3, GoesOnAlone
<1>5. Accepted \subseteq {store.refresh, None} /\ None \notin Accepted
  BY <1>3, <1>4, AloneInHand, AcceptedIs
<1> QED
  BY <1>3, <1>4, <1>5

LEMMA RefreshSelectKeeps ==
  ASSUME SessionInv, NEW r \in Requests, Session!RefreshSelect(r)
  PROVE  SessionInv'
<1> USE DEF SessionInv
<1>1. /\ req[r].pc = "refreshing" /\ SessionTyped
      /\ UNCHANGED <<store, holds, spent, out, mishap>>
  BY DEF Session!RefreshSelect, Session!serverVars, SessionKnown
<1>2. PICK step \in CallSteps, reply \in Replies :
        /\ req' = [req EXCEPT ![r] = AnswerRow(req[r], step, reply, None)]
        /\ \/ step = "rotating" /\ reply = ""
           \/ step = "refreshed" /\ reply = "denied" /\ req[r].refresh \notin Accepted
  <2>1. CASE req[r].refresh \in Accepted
    <3>1. req' = [req EXCEPT ![r] = AnswerRow(req[r], "rotating", "", None)]
      BY <2>1 DEF Session!RefreshSelect, Session!Answer, Session!Become, AnswerRow, Accepted
    <3> QED
      BY <3>1, Literals
  <2>2. CASE req[r].refresh \notin Accepted
    <3>1. req' = [req EXCEPT ![r] = AnswerRow(req[r], "refreshed", "denied", None)]
      BY <2>2 DEF Session!RefreshSelect, Session!Answer, Session!Become, AnswerRow, Accepted
    <3> QED
      BY <2>2, <3>1, Literals
  <2> QED
    BY <2>1, <2>2
<1>3. PICK row \in Row :
        /\ row = AnswerRow(req[r], step, reply, None)
        /\ row.pc = step /\ row.kind = req[r].kind /\ row.reply = reply /\ row.pair = None
        /\ row.refused = None /\ row.sent \in {req[r].sent, None}
        /\ step = "rotating" => row.refresh = req[r].refresh
  <2>1. None \in Pair
    BY Literals
  <2> QED
    BY <1>1, <2>1, AnswerIs
<1>4. req' = [req EXCEPT ![r] = row]
  BY <1>2, <1>3
<1>5. /\ holds' \in [Tokens -> Pair] /\ spent' \subseteq Tokens /\ OneHolder'
      /\ Accepted' = Accepted /\ Issued' = Issued
  BY <1>1, TablesUnchanged DEF SessionKnown
<1>6. (RequestKnown(row))'
  BY <1>2, <1>3, <1>5 DEF SessionKnown, TokensKnown, RequestKnown, Issued
<1>7. SessionKnown'
  BY <1>1, <1>4, <1>5, <1>6, SameStoreKnown
<1>8. ASSUME ~mishap' PROVE SessionKept'
  <2>1. SessionKept /\ ~mishap
    BY <1>1, <1>8
  <2>2. /\ \A v \in Requests \ {r} : ~Exchange(req[v])
        /\ ~out /\ req[r].kind # "logout"
        /\ req[r].refresh = store.refresh /\ req[r].refresh # None
        /\ Accepted \subseteq {req[r].refresh}
    BY <1>1, <2>1, RefreshAlone
  <2>3. (RequestSound(row))'
    BY <1>1, <1>2, <1>3, <1>5, <2>2 DEF RequestSound
  <2> QED
    BY <1>1, <1>4, <1>5, <2>1, <2>2, <2>3, ExchangeKeeps
<1> QED
  BY <1>7, <1>8

(* The rotation brings a token that nobody has yet, whether or not the     *)
(* session it was to be given to is still there.                           *)
LEMMA RefreshRotateKeeps ==
  ASSUME SessionInv, NEW r \in Requests, Session!RefreshRotate(r)
  PROVE  SessionInv'
<1> USE DEF SessionInv
<1>1. req[r].pc = "rotating" /\ SessionTyped /\ OneHolder /\ UNCHANGED <<store, out, mishap>>
  BY DEF Session!RefreshRotate, SessionKnown
<1>2. PICK t \in Session!NextToken :
        /\ IF req[r].refresh \in Accepted
           THEN \E s \in Tokens : holds[s] = req[r].refresh /\ Session!Server!Renew(s, t)
           ELSE Session!Server!Waste(t)
        /\ req' = [req EXCEPT ![r] = AnswerRow(req[r], "refreshed", "ok", t)]
  BY DEF Session!RefreshRotate, Session!Answer, Session!Become, AnswerRow, Accepted
<1>3. t \in Tokens /\ t # None /\ t \notin Issued
  BY NextTokenFresh
<1>4. PICK step \in CallSteps, reply \in Replies : step = "refreshed" /\ reply = "ok"
  BY Literals
<1>5. PICK row \in Row :
        /\ row = AnswerRow(req[r], step, reply, t)
        /\ row.pc = step /\ row.kind = req[r].kind /\ row.reply = reply /\ row.pair = t
        /\ row.refused = None /\ row.sent = req[r].sent
  <2>1. t \in Pair /\ step # "answered"
    BY <1>3, <1>4, Literals
  <2> QED
    BY <1>1, <2>1, AnswerIs
<1>6. /\ req' = [req EXCEPT ![r] = row]
      /\ row.pc = "refreshed" /\ row.reply = "ok"
  BY <1>2, <1>4, <1>5
<1>7. /\ holds' \in [Tokens -> Pair] /\ spent' \subseteq Tokens /\ OneHolder'
      /\ Accepted' \subseteq (Accepted \ {req[r].refresh}) \cup {t} /\ Issued' = Issued \cup {t}
  <2>1. CASE req[r].refresh \in Accepted
    <3>1. PICK s \in Tokens : holds[s] = req[r].refresh /\ Session!Server!Renew(s, t)
      BY <1>2, <2>1
    <3> QED
      BY <1>1, <1>3, <3>1, RenewDoes
  <2>2. CASE req[r].refresh \notin Accepted
    <3>1. Session!Server!Waste(t)
      BY <1>2, <2>2
    <3> QED
      BY <1>1, <1>3, <2>2, <3>1, WasteDoes
  <2> QED
    BY <2>1, <2>2
<1>8. (RequestKnown(row))'
  <2>1. req[r].sent \in Issued
    BY DEF SessionKnown, TokensKnown, RequestKnown
  <2>2. row.sent \in Issued /\ row.sent # t
    BY <1>3, <1>5, <2>1
  <2>3. t \in Issued'
    BY <1>7
  <2> QED
    BY <1>3, <1>5, <1>6, <1>7, <2>2, <2>3 DEF RequestKnown
<1>9. SessionKnown'
  BY <1>1, <1>6, <1>7, <1>8, SameStoreKnown
<1>10. ASSUME ~mishap' PROVE SessionKept'
  <2>1. SessionKept /\ ~mishap
    BY <1>1, <1>10
  <2>2. /\ \A v \in Requests \ {r} : ~Exchange(req[v])
        /\ ~out /\ req[r].kind # "logout" /\ Accepted \subseteq {req[r].refresh}
    BY <1>1, <2>1, RefreshAlone
  <2>3. Accepted' \subseteq {row.pair}
    BY <1>5, <1>7, <2>2
  <2>4. (RequestSound(row))'
    BY <1>5, <1>6, <2>2, <2>3 DEF RequestSound
  <2> QED
    BY <1>1, <1>6, <2>1, <2>2, <2>3, <2>4, ExchangeKeeps
<1> QED
  BY <1>9, <1>10

LEMMA AccessExpiresKeeps ==
  ASSUME SessionInv, NEW t, Session!AccessExpires(t)
  PROVE  SessionInv'
<1>1. UNCHANGED <<store, req, holds, spent, out, mishap>>
  BY DEF Session!AccessExpires
<1>2. Accepted' = Accepted /\ Issued' = Issued
  BY <1>1 DEF Accepted, Session!Server!Accepted, Issued
<1>3. SessionKnown' = SessionKnown
  BY <1>1, <1>2 DEF SessionKnown, SessionTyped, PairStored, OneHolder, TokensKnown, RequestKnown
<1>4. OneExchange' = OneExchange /\ OutSound' = OutSound
  BY <1>1, <1>2 DEF OneExchange, Exchange, OutSound
<1>5. ExchangeSound' = ExchangeSound
  BY <1>1, <1>2 DEF ExchangeSound, RequestSound
<1>6. NothingLost' = NothingLost
  BY <1>1, <1>2 DEF NothingLost, Session!NothingLost, Session!InHand, Accepted
<1> QED
  BY <1>1, <1>3, <1>4, <1>5, <1>6 DEF SessionInv, SessionKept

(* A session that the server ends leaves fewer tokens to account for.      *)
LEMMA SessionEndsKeeps ==
  ASSUME SessionInv, NEW s \in Tokens, Session!SessionEnds(s)
  PROVE  SessionInv'
<1> USE DEF SessionInv
<1>1. UNCHANGED <<store, req, out, mishap>> /\ Session!Server!Close({s})
  BY DEF Session!SessionEnds
<1>2. /\ holds' \in [Tokens -> Pair] /\ spent' \subseteq Tokens /\ OneHolder'
      /\ Accepted' \subseteq Accepted /\ Issued' = Issued
  <2>1. {s} \in SUBSET Tokens
    OBVIOUS
  <2> QED
    BY <1>1, <2>1, CloseDoes DEF SessionKnown
<1>3. SessionKnown'
  BY <1>1, <1>2 DEF SessionKnown, SessionTyped, PairStored, TokensKnown, RequestKnown
<1>4. ASSUME ~mishap' PROVE SessionKept'
  <2>1. SessionKept /\ ~mishap
    BY <1>1, <1>4
  <2>2. OneExchange' /\ OutSound'
    BY <1>1, <1>2, <2>1 DEF SessionKept, OneExchange, Exchange, OutSound
  <2>3. ExchangeSound'
    BY <1>1, <1>2, <2>1 DEF SessionKept, ExchangeSound, RequestSound
  <2>4. NothingLost'
    <3> SUFFICES ASSUME NEW t \in Accepted' PROVE Session!InHand(t)'
      BY DEF NothingLost, Session!NothingLost, Accepted
    <3>1. Session!InHand(t)
      BY <1>2, <2>1 DEF SessionKept, NothingLost, Session!NothingLost, Accepted
    <3> QED
      BY <1>1, <3>1 DEF Session!InHand
  <2> QED
    BY <2>2, <2>3, <2>4 DEF SessionKept
<1> QED
  BY <1>3, <1>4

-----------------------------------------------------------------------------
(* The actions of the browser that wait no longer.                         *)
LEMMA FailKeeps ==
  ASSUME SessionInv, NEW r \in Requests, Session!Fail(r)
  PROVE  SessionInv'
<1> USE DEF SessionInv
<1>1. SessionTyped /\ mishap' /\ UNCHANGED <<store, holds, spent>>
  BY DEF Session!Fail, Session!serverVars, SessionKnown
<1>2. PICK step \in CallSteps, reply \in Replies :
        /\ req' = [req EXCEPT ![r] = AnswerRow(req[r], step, reply, None)]
        /\ reply = "failed" /\ step # "rotating"
  <2>1. CASE Session!Answer(r, "answered", "failed", None)
    <3>1. req' = [req EXCEPT ![r] = AnswerRow(req[r], "answered", "failed", None)]
      BY <2>1 DEF Session!Answer, Session!Become, AnswerRow
    <3> QED
      BY <3>1, Literals
  <2>2. CASE Session!Answer(r, "refreshed", "failed", None)
    <3>1. req' = [req EXCEPT ![r] = AnswerRow(req[r], "refreshed", "failed", None)]
      BY <2>2 DEF Session!Answer, Session!Become, AnswerRow
    <3> QED
      BY <3>1, Literals
  <2> QED
    BY <2>1, <2>2 DEF Session!Fail
<1>3. PICK row \in Row :
        /\ row = AnswerRow(req[r], step, reply, None)
        /\ row.pc = step /\ row.reply = reply /\ row.sent \in {req[r].sent, None}
  <2>1. None \in Pair
    BY Literals
  <2> QED
    BY <1>1, <2>1, AnswerIs
<1>4. req' = [req EXCEPT ![r] = row]
  BY <1>2, <1>3
<1>5. /\ holds' \in [Tokens -> Pair] /\ spent' \subseteq Tokens /\ OneHolder'
      /\ Issued' = Issued
  BY <1>1, TablesUnchanged DEF SessionKnown
<1>6. (RequestKnown(row))'
  <2>1. row.pc # "sent" /\ row.reply # "ok"
    BY <1>2, <1>3 DEF CallSteps
  <2> QED
    BY <1>3, <1>5, <2>1 DEF SessionKnown, TokensKnown, RequestKnown, Issued
<1>7. SessionKnown'
  BY <1>1, <1>4, <1>5, <1>6, SameStoreKnown
<1> QED
  BY <1>1, <1>7

LEMMA LeaveKeeps ==
  ASSUME SessionInv, NEW r \in Requests, Session!Leave(r)
  PROVE  SessionInv'
<1>1. /\ req[r].pc \in {"sent", "answered", "refreshing", "refreshed"}
      /\ mishap' = (mishap \/ Exchange(req[r]))
      /\ req' = [req EXCEPT ![r] = Session!Idle]
      /\ out' = out /\ UNCHANGED <<store, holds, spent>>
  BY DEF Session!Leave, Session!Exchanging, Exchange, Session!Done, Session!Become,
     Session!serverVars
<1>2. ASSUME ~mishap' PROVE ~mishap /\ req[r].pair = None
  <2>1. ~mishap /\ SessionKept /\ ~Exchange(req[r])
    BY <1>1, <1>2 DEF SessionInv
  <2> QED
    BY <1>1, <2>1, RowsAreSound DEF RequestSound, Exchange
<1> QED
  BY <1>1, <1>2, DoneKeeps

(* The tokens are taken out of storage at the end of an exchange.          *)
LEMMA ClearedKeeps ==
  ASSUME SessionInv, NEW r \in Requests, req' = [req EXCEPT ![r] = Session!Idle],
         Session!ClearTokens, UNCHANGED <<holds, spent>>,
         ~mishap' => /\ ~mishap /\ Accepted = {}
                     /\ \A v \in Requests \ {r} : ~Exchange(req[v])
  PROVE  SessionInv'
<1> USE DEF SessionInv
<1>1. store' = [access |-> None, refresh |-> None]
  BY DEF Session!ClearTokens
<1>2. /\ holds' \in [Tokens -> Pair] /\ spent' \subseteq Tokens /\ OneHolder'
      /\ Accepted' = Accepted /\ Issued' = Issued
  BY TablesUnchanged DEF SessionKnown
<1>3. (RequestKnown(Session!Idle))' /\ (RequestSound(Session!Idle))'
  BY IdleRow DEF RequestKnown, RequestSound, Issued
<1>4. SessionKnown'
  <2>1. /\ store' \in [access : Pair, refresh : Pair] /\ PairStored'
        /\ store'.access \in Issued
    BY <1>1 DEF Pair, PairStored, Issued
  <2> QED
    BY <1>2, <1>3, <2>1, IdleRow, KnownKeeps
<1>5. ASSUME ~mishap' PROVE SessionKept'
  <2>1. store'.refresh = None
    BY <1>1
  <2> QED
    BY <1>2, <1>3, <1>5, <2>1, IdleRow, ExchangeKeeps DEF SessionKnown
<1> QED
  BY <1>4, <1>5

(* Storage takes the pair of an answer.                                    *)
LEMMA StoredKeeps ==
  ASSUME SessionInv, NEW r \in Requests, NEW row \in Row, req' = [req EXCEPT ![r] = row],
         NEW t, t = req[r].pair, t \in Issued, Session!SetTokens(t),
         UNCHANGED <<holds, spent>>, out' => out,
         RequestKnown(row), row.pair = None, row.pc \in {"idle", "sent"},
         ~mishap' => /\ ~mishap /\ ~out /\ Accepted \subseteq {t} /\ row.kind # "logout"
                     /\ \A v \in Requests \ {r} : ~Exchange(req[v])
  PROVE  SessionInv'
<1> USE DEF SessionInv
<1>1. store' = [access |-> t, refresh |-> t]
  BY DEF Session!SetTokens
<1>2. /\ holds' \in [Tokens -> Pair] /\ spent' \subseteq Tokens /\ OneHolder'
      /\ Accepted' = Accepted /\ Issued' = Issued
  BY TablesUnchanged DEF SessionKnown
<1>3. (RequestKnown(row))'
  BY <1>2 DEF RequestKnown
<1>4. t \in Pair
  BY DEF SessionKnown, SessionTyped, Row
<1>5. SessionKnown'
  <2>1. /\ store' \in [access : Pair, refresh : Pair] /\ PairStored'
        /\ store'.access \in Issued
    BY <1>1, <1>4 DEF PairStored
  <2> QED
    BY <1>2, <1>3, <2>1, KnownKeeps
<1>6. ASSUME ~mishap' PROVE SessionKept'
  <2>1. Accepted' \subseteq {store'.refresh} /\ ~out'
    BY <1>1, <1>2, <1>6
  <2>2. (RequestSound(row))'
    BY <1>6 DEF RequestSound
  <2> QED
    BY <1>2, <1>6, <2>1, <2>2, ExchangeKeeps DEF SessionKnown
<1> QED
  BY <1>5, <1>6

LEMMA ReceiveOkKeeps ==
  ASSUME SessionInv, NEW r \in Requests, Session!ReceiveOk(r)
  PROVE  SessionInv'
<1>1. /\ req[r].pc = "answered" /\ req[r].reply = "ok" /\ SessionTyped
      /\ req[r].kind \in Session!Kinds
      /\ mishap' = (mishap \/ (req[r].kind = "login" /\ store.refresh # None))
      /\ out' = (out \/ req[r].kind = "logout")
      /\ req' = [req EXCEPT ![r] = Session!Idle] /\ UNCHANGED <<holds, spent>>
  BY DEF Session!ReceiveOk, Session!Done, Session!Become, Session!serverVars, SessionInv,
     SessionKnown, SessionTyped, Row
<1>2. ~mishap' => ~mishap /\ SessionKept /\ RequestSound(req[r])
  BY <1>1, RowsAreSound DEF SessionInv
<1>3. CASE req[r].kind \in {"call", "me"}
  <2>1. store' = store /\ (out' => out)
    BY <1>1, <1>3 DEF Session!ReceiveOk, Session!SetTokens, Session!ClearTokens
  <2>2. ~mishap' => ~mishap /\ req[r].pair = None
    BY <1>1, <1>2, <1>3 DEF RequestSound
  <2>3. UNCHANGED <<store, holds, spent>> /\ (out' => out)
    BY <1>1, <2>1
  <2> QED
    BY <1>1, <2>2, <2>3, DoneKeeps
<1>4. CASE req[r].kind = "login"
  <2>1. Session!SetTokens(req[r].pair) /\ Exchange(req[r]) /\ (out' => out)
    BY <1>1, <1>4 DEF Session!ReceiveOk, Session!SetTokens, Session!ClearTokens, Exchange
  <2>2. PICK t : t = req[r].pair
    OBVIOUS
  <2>3. t \in Issued
    BY <1>1, <1>4, <2>2 DEF SessionInv, SessionKnown, TokensKnown, RequestKnown
  <2>4. ASSUME ~mishap'
        PROVE  /\ ~mishap /\ ~out /\ Accepted \subseteq {t}
               /\ \A v \in Requests \ {r} : ~Exchange(req[v])
    <3>1. ~mishap /\ SessionKept /\ store.refresh = None
      BY <1>1, <1>2, <1>4, <2>4
    <3>2. (\A v \in Requests \ {r} : ~Exchange(req[v])) /\ ~out
      BY <1>4, <2>1, <3>1, GoesOnAlone
    <3>3. Accepted \subseteq {None, t} /\ None \notin Accepted
      BY <1>1, <2>2, <3>1, <3>2, AloneInHand, AcceptedIs
    <3> QED
      BY <3>1, <3>2, <3>3
  <2>5. RequestKnown(Session!Idle) /\ Session!Idle.kind # "logout"
    BY DEF RequestKnown, Session!Idle, Issued
  <2>6. Session!SetTokens(t)
    BY <2>1, <2>2 DEF Session!SetTokens
  <2> QED
    BY <1>1, <2>1, <2>2, <2>3, <2>4, <2>5, <2>6, IdleRow, StoredKeeps DEF Session!SetTokens
<1>5. CASE req[r].kind = "logout"
  <2>1. Session!ClearTokens /\ Exchange(req[r])
    BY <1>1, <1>5 DEF Session!ReceiveOk, Session!SetTokens, Session!ClearTokens, Exchange
  <2>2. ~mishap' => Accepted = {} /\ \A v \in Requests \ {r} : ~Exchange(req[v])
    BY <1>1, <1>2, <1>5, <2>1, GoesOnAlone DEF RequestSound
  <2> QED
    BY <1>1, <1>2, <2>1, <2>2, ClearedKeeps DEF Session!ClearTokens
<1> QED
  BY <1>1, <1>3, <1>4, <1>5 DEF Session!Kinds

LEMMA ReceiveFailureKeeps ==
  ASSUME SessionInv, NEW r \in Requests, Session!ReceiveFailure(r)
  PROVE  SessionInv'
<1>1. /\ req[r].pc = "answered" /\ req[r].reply = "failed" /\ mishap' = mishap /\ out' = out
      /\ req' = [req EXCEPT ![r] = Session!Idle] /\ UNCHANGED <<holds, spent>>
      /\ store' = store \/ Session!ClearTokens
  BY DEF Session!ReceiveFailure, Session!Done, Session!Become, Session!serverVars,
     Session!ClearTokens
<1>2. mishap
  BY <1>1, RowsAreSound DEF SessionInv, RequestSound
<1>3. CASE store' = store
  BY <1>1, <1>2, <1>3, DoneKeeps
<1>4. CASE Session!ClearTokens
  BY <1>1, <1>2, <1>4, ClearedKeeps DEF Session!ClearTokens
<1> QED
  BY <1>1, <1>3, <1>4

(* A refused request takes the refresh token from storage; if there is     *)
(* none, there is nothing to clear.                                        *)
LEMMA ReceiveDeniedKeeps ==
  ASSUME SessionInv, NEW r \in Requests, Session!ReceiveDenied(r)
  PROVE  SessionInv'
<1> USE DEF SessionInv
<1>1. /\ req[r].pc = "answered" /\ req[r].reply = "denied" /\ out' = out
      /\ UNCHANGED <<holds, spent>> /\ SessionTyped
  BY DEF Session!ReceiveDenied, Session!serverVars, SessionKnown
<1>2. CASE store.refresh # None
  <2> DEFINE mine == [req[r] EXCEPT !.pc = "refreshing", !.refresh = store.refresh]
  <2>1. req' = [req EXCEPT ![r] = mine] /\ Session!BeginExchange(r) /\ store' = store
    BY <1>2 DEF Session!ReceiveDenied, Session!Become
  <2>2. req[r] \in Row /\ store.refresh \in Pair
    BY <1>1 DEF SessionTyped
  <2>3. /\ mine \in Row /\ mine.pc = "refreshing" /\ mine.refresh = store.refresh
        /\ mine.kind = req[r].kind /\ mine.sent = req[r].sent /\ mine.pair = req[r].pair
        /\ mine.reply = req[r].reply
    BY <2>2 DEF Row
  <2> HIDE DEF mine
  <2>4. PICK row \in Row :
          /\ req' = [req EXCEPT ![r] = row]
          /\ row.pc = "refreshing" /\ row.refresh = store.refresh
          /\ row.kind = req[r].kind /\ row.sent = req[r].sent /\ row.pair = req[r].pair
          /\ row.reply = "denied"
    BY <1>1, <2>1, <2>3
  <2>5. /\ holds' \in [Tokens -> Pair] /\ spent' \subseteq Tokens /\ OneHolder'
        /\ Accepted' = Accepted /\ Issued' = Issued
    BY <1>1, TablesUnchanged DEF SessionKnown
  <2>6. (RequestKnown(row))'
    BY <2>4, <2>5 DEF SessionKnown, TokensKnown, RequestKnown
  <2>7. SessionKnown'
    BY <2>1, <2>4, <2>5, <2>6, SameStoreKnown
  <2>8. ASSUME ~mishap' PROVE SessionKept'
    <3>1. SessionKept /\ ~mishap /\ \A v \in Requests \ {r} : ~Exchange(req[v])
      <4>1. ~mishap /\ \A v \in Requests \ {r} : ~Exchange(req[v])
        BY <2>1, <2>8, BeginsAlone DEF Session!BeginExchange, Session!Exchanging, Exchange
      <4> QED
        BY <4>1
    <3>2. req[r].pair = None /\ req[r].kind # "logout"
      BY <1>1, <3>1, RowsAreSound DEF RequestSound
    <3>3. Accepted \subseteq {store.refresh}
      <4>1. Accepted \subseteq {store.refresh, None} /\ None \notin Accepted
        BY <1>1, <3>1, <3>2, AloneInHand, AcceptedIs
      <4> QED
        BY <4>1
    <3>4. (RequestSound(row))'
      BY <1>2, <2>1, <2>4, <3>2 DEF RequestSound
    <3>5. ~out'
      BY <1>1, <1>2, <3>1 DEF SessionKept, OutSound
    <3> QED
      BY <1>1, <2>1, <2>4, <2>5, <3>1, <3>3, <3>4, <3>5, ExchangeKeeps
  <2> QED
    BY <2>7, <2>8
<1>3. CASE store.refresh = None
  <2>1. req' = [req EXCEPT ![r] = Session!Idle] /\ mishap' = mishap
        /\ store' = [access |-> None, refresh |-> None]
    BY <1>3 DEF Session!ReceiveDenied, Session!Done, Session!Become, Session!ClearTokens
  <2>2. store' = store
    BY <1>3, <2>1, StoreIs
  <2>3. ~mishap' => ~mishap /\ req[r].pair = None
    BY <1>1, <2>1, RowsAreSound DEF RequestSound
  <2> QED
    BY <1>1, <2>1, <2>2, <2>3, DoneKeeps
<1> QED
  BY <1>2, <1>3

LEMMA ReceiveRefreshedKeeps ==
  ASSUME SessionInv, NEW r \in Requests, Session!ReceiveRefreshed(r)
  PROVE  SessionInv'
<1> USE DEF SessionInv
<1> DEFINE sent == IF req[r].kind \in {"call", "me"} THEN store'.access ELSE None
           mine == [req[r] EXCEPT !.pc = "sent", !.refused = req[r].sent, !.reply = "",
                      !.pair = None, !.sent = sent]
<1>1. /\ req[r].pc = "refreshed" /\ req[r].reply = "ok" /\ SessionTyped
      /\ UNCHANGED <<holds, spent, out, mishap>>
      /\ store' = [access |-> req[r].pair, refresh |-> req[r].pair]
      /\ req' = [req EXCEPT ![r] = mine]
  BY DEF Session!ReceiveRefreshed, Session!SetTokens, Session!Become, Session!serverVars,
     SessionKnown
<1>2. PICK t : t = req[r].pair
  OBVIOUS
<1>3. RequestKnown(req[r]) /\ req[r] \in Row
  BY DEF SessionKnown, TokensKnown, SessionTyped
<1>4. t \in Issued /\ t # None /\ t # req[r].sent /\ t \in Pair /\ req[r].sent \in Pair
  BY <1>1, <1>2, <1>3 DEF RequestKnown, Row
<1>5. sent \in {t, None}
  BY <1>1, <1>2
<1> HIDE DEF sent
<1>6. /\ mine \in Row /\ mine.pc = "sent" /\ mine.kind = req[r].kind /\ mine.sent = sent
      /\ mine.refused = req[r].sent /\ mine.reply = "" /\ mine.pair = None
  BY <1>3, <1>4, <1>5 DEF Row, Pair, Replies
<1> HIDE DEF mine
<1>7. PICK row \in Row :
        /\ req' = [req EXCEPT ![r] = row]
        /\ row.pc = "sent" /\ row.kind = req[r].kind /\ row.sent \in {t, None}
        /\ row.refused = req[r].sent /\ row.reply = "" /\ row.pair = None
  BY <1>1, <1>5, <1>6
<1>8. RequestKnown(row)
  BY <1>4, <1>7 DEF RequestKnown, Issued
<1>9. ASSUME ~mishap'
      PROVE  /\ ~mishap /\ ~out /\ Accepted \subseteq {t} /\ req[r].kind # "logout"
             /\ \A v \in Requests \ {r} : ~Exchange(req[v])
  <2>1. SessionKept /\ ~mishap /\ RequestSound(req[r]) /\ Exchange(req[r])
    BY <1>1, <1>9, RowsAreSound DEF Exchange
  <2>2. Accepted \subseteq {t} /\ req[r].kind # "logout"
    BY <1>1, <1>2, <2>1 DEF RequestSound
  <2> QED
    BY <2>1, <2>2, GoesOnAlone
<1>10. Session!SetTokens(t)
  BY <1>1, <1>2 DEF Session!SetTokens
<1> QED
  BY <1>1, <1>2, <1>4, <1>7, <1>8, <1>9, <1>10, StoredKeeps DEF Session!SetTokens

LEMMA ReceiveRefusedKeeps ==
  ASSUME SessionInv, NEW r \in Requests, Session!ReceiveRefused(r)
  PROVE  SessionInv'
<1>1. /\ req[r].pc = "refreshed" /\ req[r].reply \in {"denied", "failed"}
      /\ mishap' = mishap /\ Session!ClearTokens
      /\ req' = [req EXCEPT ![r] = Session!Idle] /\ UNCHANGED <<holds, spent>>
  BY DEF Session!ReceiveRefused, Session!Done, Session!Become, Session!serverVars
<1>2. ASSUME ~mishap'
      PROVE  ~mishap /\ Accepted = {} /\ \A v \in Requests \ {r} : ~Exchange(req[v])
  <2>1. ~mishap /\ SessionKept /\ Exchange(req[r]) /\ RequestSound(req[r])
    BY <1>1, <1>2, RowsAreSound DEF SessionInv, Exchange
  <2> QED
    BY <1>1, <2>1, GoesOnAlone DEF RequestSound
<1> QED
  BY <1>1, <1>2, ClearedKeeps DEF Session!ClearTokens

-----------------------------------------------------------------------------
LEMMA SessionNext == SessionInv /\ [Session!Next]_(Session!vars) => SessionInv'
<1> SUFFICES ASSUME SessionInv, [Session!Next]_(Session!vars) PROVE SessionInv'
  OBVIOUS
<1>1. CASE UNCHANGED Session!vars
  BY <1>1 DEF Session!vars, SessionInv, SessionKnown, SessionTyped, PairStored, OneHolder,
     TokensKnown, RequestKnown, Issued, Accepted, Session!Server!Accepted, SessionKept,
     OneExchange, Exchange, ExchangeSound, RequestSound, OutSound, NothingLost,
     Session!NothingLost, Session!InHand
<1>2. ASSUME NEW r \in Requests, NEW kind \in Session!Kinds, Session!Send(r, kind)
      PROVE  SessionInv'
  BY <1>2, SendKeeps
<1>3. ASSUME NEW r \in Requests,
             \/ Session!ServeCall(r) \/ Session!ServeLogin(r) \/ Session!ServeLogout(r)
             \/ Session!RefreshSelect(r) \/ Session!RefreshRotate(r)
      PROVE  SessionInv'
  BY <1>3, ServeCallKeeps, ServeLoginKeeps, ServeLogoutKeeps, RefreshSelectKeeps,
     RefreshRotateKeeps
<1>4. ASSUME NEW r \in Requests, Session!Fail(r) \/ Session!Leave(r)
      PROVE  SessionInv'
  BY <1>4, FailKeeps, LeaveKeeps
<1>5. ASSUME NEW r \in Requests,
             \/ Session!ReceiveOk(r) \/ Session!ReceiveFailure(r) \/ Session!ReceiveDenied(r)
             \/ Session!ReceiveRefreshed(r) \/ Session!ReceiveRefused(r)
      PROVE  SessionInv'
  BY <1>5, ReceiveOkKeeps, ReceiveFailureKeeps, ReceiveDeniedKeeps, ReceiveRefreshedKeeps,
     ReceiveRefusedKeeps
<1>6. ASSUME NEW t \in Tokens, Session!AccessExpires(t) \/ Session!SessionEnds(t)
      PROVE  SessionInv'
  BY <1>6, AccessExpiresKeeps, SessionEndsKeeps
<1> QED
  BY <1>1, <1>2, <1>3, <1>4, <1>5, <1>6 DEF Session!Next

LEMMA SessionAlways == Session!Spec => []SessionInv
BY SessionStarts, SessionNext, PTL DEF Session!Spec

(* As long as exchanges do not overlap, no answer of one is lost and no    *)
(* login replaces a session, every token the server accepts is in storage  *)
(* or in an answer about to be put there, whatever other requests are      *)
(* refused, repeated or left meanwhile (api.ts:33-55).                     *)
THEOREM NoSessionIsLost == Session!Spec => []NothingLost
<1>1. SessionInv => NothingLost
  BY DEF SessionInv, SessionKept, NothingLost, Session!NothingLost
<1> QED
  BY <1>1, SessionAlways, PTL

(* Under the same conditions, after a logout nothing is stored and the     *)
(* server accepts nothing, until somebody logs in (api.ts:82-88).          *)
THEOREM LoggedOutStaysOut == Session!Spec => []LogoutIsFinal
<1>1. SessionInv => LogoutIsFinal
  BY DEF SessionInv, SessionKnown, PairStored, SessionKept, OutSound, LogoutIsFinal,
     Session!LogoutIsFinal, Accepted
<1> QED
  BY <1>1, SessionAlways, PTL

(* However requests overlap and fail, a request repeated after a refresh   *)
(* goes out with another access token (api.ts:45-46).                      *)
THEOREM RetriesAreFresh == Session!Spec => []NoBlindRetry
<1>1. SessionInv => NoBlindRetry
  BY DEF SessionInv, SessionKnown, TokensKnown, RequestKnown, NoBlindRetry,
     Session!NoBlindRetry
<1> QED
  BY <1>1, SessionAlways, PTL
-----------------------------------------------------------------------------
(* The parts side by side.                                                 *)

LEMMA StorageStep ==
  ASSUME [AllNext]_allVars
  PROVE  [Next]_vars /\ [Identity!Next]_(Identity!vars) /\ [Session!Next]_(Session!vars)
<1>1. CASE AllNext
  BY <1>1 DEF AllNext, identityVars, sessionVars, Identity!vars, Session!vars
<1>2. CASE UNCHANGED allVars
  BY <1>2 DEF allVars, identityVars, sessionVars, Identity!vars, Session!vars
<1> QED
  BY <1>1, <1>2

(* In the instance that TLC explores the start of the program, the files   *)
(* of its identity and the session of the dashboard behave by their own    *)
(* specifications, so that what is proved of each (main.go:36,             *)
(* communication.go:28, api.ts:33) holds there as well.                    *)
THEOREM StorageIsItsParts == AllSpec => Spec /\ Identity!Spec /\ Session!Spec
<1>1. AllInit => Init /\ Identity!Init /\ Session!Init
  BY DEF AllInit
<1> QED
  BY <1>1, StorageStep, PTL DEF AllSpec, Spec, Identity!Spec, Session!Spec
=============================================================================

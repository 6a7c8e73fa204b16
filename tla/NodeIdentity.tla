----------------------------- MODULE NodeIdentity ------------------------------
(***************************************************************************)
(* The identity of this node (api/handlers/communication.go:28-102): a key *)
(* pair and an id, made by the first request that finds no public key or   *)
(* no id, each kept in a file that is created, then filled.  Nothing locks *)
(* the files and the errors of writing them are ignored.                   *)
(***************************************************************************)
EXTENDS Naturals, FiniteSets

CONSTANTS
  Askers,        (* requests for the identity served at the same time        *)
  Values,        (* random keys and ids                                      *)
  Absent, Empty, (* no file; a file created and not filled                   *)
  MaxStops       (* bound: how often the process dies                        *)

Files == {"node_key", "node_pub", "node_id"}

VARIABLES
  disk,    (* what each file holds                                           *)
  ask,     (* what each request has come to, and the key it will tell        *)
  used,    (* values generated so far                                        *)
  told,    (* history: the identities answered, <<public key, id>>           *)
  raced,   (* history: a request began while another was making the files    *)
  failed,  (* history: a write has failed                                    *)
  stops    (* how often the process has died                                 *)

vars == <<disk, ask, used, told, raced, failed, stops>>

Content == Values \cup {Empty}
Asking ==
  [pc : {"idle", "read_id", "create", "fill"}, file : Files, pub : Content, new : Content]
Resting == [pc |-> "idle", file |-> "node_id", pub |-> Empty, new |-> Empty]

Init ==
  /\ disk = [f \in Files |-> Absent]
  /\ ask = [w \in Askers |-> Resting]
  /\ used = {} /\ told = {} /\ raced = FALSE /\ failed = FALSE /\ stops = 0

-----------------------------------------------------------------------------
(* Mutant: the public key, which the next request looks for, comes first.  *)
PubThenKey == <<"node_pub", "node_key">>

(* The files of the key pair, in the order they are written.               *)
KeyPair == <<"node_key", "node_pub">>

Open(w, file) == ask' = [ask EXCEPT ![w].pc = "create", ![w].file = file]
At(w, pc, file) == ask[w].pc = pc /\ ask[w].file = file
Tell(w, id) == told' = told \cup {<<ask[w].pub, id>>} /\ ask' = [ask EXCEPT ![w] = Resting]

(* A request that is writing one of the files, or is about to.             *)
Making(w) ==
  \/ ask[w].pc \in {"create", "fill"}
  \/ ask[w].pc = "read_id" /\ disk["node_id"] = Absent

(* os.ReadFile(nodePubPath): an empty file is an answer, without a          *)
(* fingerprint; without a file, a key pair is generated.                   *)
ReadPub(w) ==
  /\ ask[w].pc = "idle"
  /\ IF disk["node_pub"] # Absent
     THEN /\ ask' = [ask EXCEPT ![w] = [Resting EXCEPT !.pc = "read_id", !.pub = disk["node_pub"]]]
          /\ UNCHANGED used
     ELSE \E k \in Values \ used :
          /\ ask' = [ask EXCEPT ![w] = [pc |-> "create", file |-> KeyPair[1], pub |-> k, new |-> k]]
          /\ used' = used \cup {k}
  /\ raced' = (raced \/ \E v \in Askers \ {w} : Making(v))
  /\ UNCHANGED <<disk, told, failed, stops>>

(* What follows the write of a file, whether it succeeded or not.          *)
After(w, file) ==
  CASE file = KeyPair[1] -> Open(w, KeyPair[2]) /\ UNCHANGED told
    [] file = KeyPair[2] -> ask' = [ask EXCEPT ![w].pc = "read_id"] /\ UNCHANGED told
    [] file = "node_id"  -> Tell(w, ask[w].new)

(* os.WriteFile is two steps: O_CREATE|O_TRUNC, and the write.             *)
Create(w, file) ==
  /\ At(w, "create", file)
  /\ disk' = [disk EXCEPT ![file] = Empty]
  /\ ask' = [ask EXCEPT ![w].pc = "fill"]
  /\ UNCHANGED <<used, told, raced, failed, stops>>

Fill(w, file) ==
  /\ At(w, "fill", file)
  /\ disk' = [disk EXCEPT ![file] = ask[w].new]
  /\ After(w, file)
  /\ UNCHANGED <<used, raced, failed, stops>>

(* A directory or file that may not be written: the error is dropped.      *)
WriteFails(w, file) ==
  /\ At(w, "create", file) \/ At(w, "fill", file)
  /\ failed' = TRUE
  /\ After(w, file)
  /\ UNCHANGED <<disk, used, raced, stops>>

(* Mutant: the id found is not returned, and another one replaces it.      *)
ReadIdAnew(w) ==
  /\ ask[w].pc = "read_id"
  /\ \E i \in Values \ used :
       /\ ask' = [ask EXCEPT ![w] = [pc |-> "create", file |-> "node_id", pub |-> @.pub, new |-> i]]
       /\ used' = used \cup {i}
  /\ UNCHANGED <<disk, told, raced, failed, stops>>

ReadId(w) ==
  /\ ask[w].pc = "read_id"
  /\ IF disk["node_id"] # Absent
     THEN Tell(w, disk["node_id"]) /\ UNCHANGED used
     ELSE \E i \in Values \ used :
          /\ ask' = [ask EXCEPT ![w] = [pc |-> "create", file |-> "node_id", pub |-> @.pub, new |-> i]]
          /\ used' = used \cup {i}
          /\ UNCHANGED told
  /\ UNCHANGED <<disk, raced, failed, stops>>

Stop ==
  /\ stops < MaxStops
  /\ stops' = stops + 1
  /\ ask' = [w \in Askers |-> Resting]
  /\ UNCHANGED <<disk, used, told, raced, failed>>

Next ==
  \/ Stop
  \/ \E w \in Askers :
       \/ ReadPub(w) \/ ReadId(w)
       \/ \E f \in Files : Create(w, f) \/ Fill(w, f) \/ WriteFails(w, f)

Spec == Init /\ [][Next]_vars

-----------------------------------------------------------------------------
(* If no request begins while another makes the files, and writes succeed, *)
(* all peers are told one identity, across crashes between any two writes  *)
(* and restarts (communication.go:29 and 94, read before write).           *)
OneIdentity == raced \/ failed \/ Cardinality(told) <= 1

(* Under the same conditions, whoever was told a public key can be proved  *)
(* to: its private key is the one on disk (communication.go:53-54).        *)
KeyBehindIdentity ==
  \A t \in told : raced \/ failed \/ t[1] = Empty \/ disk["node_key"] = t[1]
=============================================================================

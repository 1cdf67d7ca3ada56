----------------------------- MODULE FollowLoad -----------------------------
(***************************************************************************)
(* What loading a document with 'follow' promises: one step from the call  *)
(* to the answer, and the answer is a function of the files.  A document   *)
(* stands for its own entries with every followed document pasted in the   *)
(* place of the entry that follows it; of a cycle there is no such text.   *)
(***************************************************************************)
EXTENDS Integers, FiniteSets, Sequences

CONSTANTS Threads, Files, NoFile, Kind, Keys, Override, Disks, Absent, Corrupt

EmptyNode == [k \in Keys |-> NoFile]
Failure(kind) == [status |-> kind, node |-> EmptyNode]

(***************************************************************************)
(* The parts of a document put together.  The first part that is a failure *)
(* is the answer; the later definition of a key wins with Override, and is *)
(* an error without.                                                       *)
(***************************************************************************)
Defining(parts, k) == {i \in DOMAIN parts : parts[i].node[k] # NoFile}
Clash(parts, i) == ~Override /\ \E k \in Keys : \E j \in Defining(parts, k) : j < i /\ i \in Defining(parts, k)
Failing(parts) == {i \in DOMAIN parts : parts[i].status # "ok" \/ Clash(parts, i)}

Pasted(parts) ==
  LET first == CHOOSE i \in Failing(parts) : \A j \in Failing(parts) : i <= j
      last(k) == CHOOSE i \in Defining(parts, k) : \A j \in Defining(parts, k) : j <= i
  IN CASE Failing(parts) = {} ->
            [status |-> "ok",
             node |-> [k \in Keys |-> IF Defining(parts, k) = {} THEN NoFile ELSE parts[last(k)].node[k]]]
       [] Failing(parts) # {} /\ parts[first].status # "ok" -> parts[first]
       [] OTHER -> Failure("conflict")

\* What an entry of f stands for, where inner has the texts of the followed documents.
Part(disk, f, e, inner) ==
  CASE ~e.follow -> [status |-> "ok", node |-> [EmptyNode EXCEPT ![e.to] = f]]
    [] e.follow /\ Kind[e.to] = "other" -> Failure("extension")
    [] e.follow /\ Kind[e.to] # "other"
         /\ (disk[e.to] = Absent \/ (Kind[e.to] = "schema" /\ Kind[f] # "schema")) -> Failure("missing")
    [] OTHER -> inner[e.to]
Parts(disk, f, inner) == [i \in DOMAIN disk[f] |-> Part(disk, f, disk[f][i], inner)]

(***************************************************************************)
(* Text(disk)[n][f] is what f stands for when n documents may be nested.   *)
(* Without a cycle no chain of documents has more than one of each file    *)
(* besides the root, so a text that needs more than Nesting documents is   *)
(* infinite.                                                               *)
(***************************************************************************)
Nesting == Cardinality(Files) + 1

Meaning(disk, f, n, inner) ==
  CASE n = 0 -> Failure("cycle")
    [] n # 0 /\ disk[f] \in {Absent, Corrupt} -> Failure("parse")
    [] OTHER -> Pasted(Parts(disk, f, inner))

Text(disk) ==
  LET text[n \in 0..Nesting] ==
        [f \in Files |-> Meaning(disk, f, n, IF n = 0 THEN <<>> ELSE text[n - 1])]
  IN text

Answer(disk, f) == IF disk[f] = Absent THEN Failure("missing") ELSE Text(disk)[Nesting][f]

VARIABLES disk, root, result
vars == <<disk, root, result>>

Init ==
  /\ disk \in Disks
  /\ root = [t \in Threads |-> NoFile]
  /\ result = [t \in Threads |-> [root |-> NoFile, status |-> "none", node |-> EmptyNode]]

\* The answer to a request for f.
Give(t, f) ==
  LET answer == Answer(disk, f)
  IN result' = [result EXCEPT ![t] =
       [root |-> f, status |-> answer.status, node |-> answer.node]]

Request(t, f) ==
  /\ root[t] = NoFile
  /\ disk[f] # Absent
  /\ root' = [root EXCEPT ![t] = f]
  /\ UNCHANGED <<disk, result>>

Refuse(t, f) ==
  /\ root[t] = NoFile
  /\ disk[f] = Absent
  /\ UNCHANGED <<disk, root>>
  /\ Give(t, f)

Reply(t) ==
  /\ root[t] # NoFile
  /\ root' = [root EXCEPT ![t] = NoFile]
  /\ UNCHANGED disk
  /\ Give(t, root[t])

Next == \E t \in Threads :
  Reply(t) \/ \E f \in Files : Request(t, f) \/ Refuse(t, f)

Spec == Init /\ [][Next]_vars

=============================================================================

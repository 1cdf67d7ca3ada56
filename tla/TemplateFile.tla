---------------------------- MODULE TemplateFile ----------------------------
(***************************************************************************)
(* How generateTemplate (src/src/yaml_generator.cpp) finds a name for the  *)
(* template that it writes, when several processes write templates for the *)
(* same output file.  The names are numbered: 0 is the output file as the  *)
(* caller named it, n the same with the suffix "_n".                       *)
(***************************************************************************)
EXTENDS Integers, FiniteSets

CONSTANTS Processes,  \* the callers
          User,       \* who wrote the files that are there initially
          Existing,   \* sets of names of which files may exist initially
          MaxSuffix,  \* bound: the largest number of a name
          MaxCalls    \* bound: calls until the folder is cleaned up

Names == 0..MaxSuffix
ASSUME ProcessesAssumption == IsFiniteSet(Processes)
ASSUME UserAssumption == User \notin Processes
ASSUME SuffixAssumption == /\ MaxSuffix \in Nat /\ MaxCalls \in Nat /\ MaxCalls <= MaxSuffix + 1
                           /\ \A files \in Existing : files \subseteq 0..(MaxSuffix - MaxCalls)

VARIABLES files,  \* the names of which a file exists
          text,   \* whose texts each file holds: none when it is empty
          pc,     \* where in generateTemplate each process is
          at,     \* the number of new_fp
          old,    \* history: the files that existed when the call began
          cut,    \* history: the names of files of which a writing failed
          calls   \* calls since the folder was cleaned up

vars == <<files, text, pc, at, old, cut, calls>>

\* The folder holds files of the user, and nobody is generating anything.
Folder(existing) == [n \in Names |-> IF n \in existing THEN {User} ELSE {}]

Init ==
  /\ files \in Existing
  /\ text = Folder(files)
  /\ pc = [p \in Processes |-> "idle"]
  /\ at = [p \in Processes |-> 0]
  /\ old = [p \in Processes |-> {}]
  /\ cut = {}
  /\ calls = 0

Goto(p, label) == pc' = [pc EXCEPT ![p] = label]

Call(p) ==
  /\ pc[p] = "idle" /\ calls < MaxCalls
  /\ calls' = calls + 1
  /\ at' = [at EXCEPT ![p] = 0]
  /\ old' = [old EXCEPT ![p] = files]
  /\ Goto(p, "probe")
  /\ UNCHANGED <<files, text, cut>>

\* Slips: only the name that the caller gave is looked up, the first time or
\* every time; the name is reserved by creating the file.
Taken_once(p) == at[p] = 0 /\ 0 \in files
Taken_original(p) == 0 \in files
Claim_reserve(p) == files' = files \cup {at[p]}

\* filesystem::exists of the name that is tried, which is left alone so far.
Taken(p) == at[p] \in files
Claim(p) == UNCHANGED files

Probe(p) ==
  /\ pc[p] = "probe"
  /\ \/ /\ Taken(p)
        /\ at' = [at EXCEPT ![p] = @ + 1]
        /\ UNCHANGED <<files, pc>>
     \/ /\ ~Taken(p)
        /\ Claim(p)
        /\ Goto(p, "generate")
        /\ UNCHANGED at
  /\ UNCHANGED <<text, old, cut, calls>>

\* generateYaml and writeTemplate; generateYaml throws if the schema is no good.
Generate(p) ==
  /\ pc[p] = "generate"
  /\ Goto(p, "open") \/ Goto(p, "idle")
  /\ UNCHANGED <<files, text, at, old, cut, calls>>

\* std::ofstream creates the file or truncates it, or cannot and the call throws.
Open(p) ==
  /\ pc[p] = "open"
  /\ \/ /\ files' = files \cup {at[p]}
        /\ text' = [text EXCEPT ![at[p]] = {}]
        /\ Goto(p, "write")
     \/ /\ Goto(p, "idle")
        /\ UNCHANGED <<files, text>>
  /\ UNCHANGED <<at, old, cut, calls>>

\* The text is written and the file closed.  Two that write at once mix their texts.
Write(p) ==
  /\ pc[p] = "write"
  /\ text' = [text EXCEPT ![at[p]] = @ \cup {p}]
  /\ Goto(p, "idle")
  /\ UNCHANGED <<files, at, old, cut, calls>>

\* The disk is full, which nobody notices, or the process is killed.
WriteFails(p) ==
  /\ pc[p] = "write"
  /\ cut' = cut \cup {at[p]}
  /\ Goto(p, "idle")
  /\ UNCHANGED <<files, text, at, old, calls>>

\* Somebody clears the folder away when nobody is using it.
CleanUp ==
  /\ calls > 0 /\ \A p \in Processes : pc[p] = "idle"
  /\ files' \in Existing /\ text' = Folder(files')
  /\ calls' = 0 /\ cut' = {}
  /\ UNCHANGED <<pc, at, old>>

Next ==
  \/ CleanUp
  \/ \E p \in Processes : Call(p) \/ Probe(p) \/ Generate(p) \/ Open(p) \/ Write(p) \/ WriteFails(p)

Spec == Init /\ [][Next]_vars

-----------------------------------------------------------------------------
(***************************************************************************)
(* The types; the search for a name ends: the numbers that are tried stay  *)
(* below the largest one of a user's file and one more for every call.     *)
(***************************************************************************)
TypeOK ==
  /\ files \subseteq Names
  /\ text \in [Names -> SUBSET (Processes \cup {User})]
  /\ pc \in [Processes -> {"idle", "probe", "generate", "open", "write"}]
  /\ at \in [Processes -> Names]
  /\ old \in [Processes -> SUBSET Names]
  /\ cut \subseteq Names
  /\ calls \in 0..MaxCalls
  /\ \A n \in Names \ files : text[n] = {}

(***************************************************************************)
(* A file that existed before a call is not the one that the call writes   *)
(* to, whatever the other processes do meanwhile.                          *)
(***************************************************************************)
OldFilesSafe ==
  \A p \in Processes : pc[p] \in {"generate", "open", "write"} => at[p] \notin old[p]

(***************************************************************************)
(* A call that throws because of the schema leaves no file behind: the     *)
(* template is complete before its file is created, so that a file without *)
(* a text is about to get one, or is all that a failed writing left.       *)
(***************************************************************************)
NoEmptyFile ==
  \A n \in files \ cut : text[n] = {} => \E p \in Processes : pc[p] = "write" /\ at[p] = n

=============================================================================

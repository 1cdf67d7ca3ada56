------------------------- MODULE TemplateFileProofs -------------------------
(***************************************************************************)
(* That no call of generateTemplate writes to a file that existed when the *)
(* call began, that its search for a name ends, and that only a writing    *)
(* that failed leaves a file without a text, for any number of processes,  *)
(* files and calls.                                                        *)
(***************************************************************************)
EXTENDS TemplateFile, FiniteSetTheorems, TLAPS

\* The shape of what the argument is about.
Shape ==
  /\ pc \in [Processes -> {"idle", "probe", "generate", "open", "write"}]
  /\ DOMAIN at = Processes
  /\ DOMAIN old = Processes

\* What was there when a call began is still there: nobody removes files while
\* a call runs.
Kept == \A p \in Processes : pc[p] # "idle" => old[p] \subseteq files

\* The inductive invariant: a name that is free when it is chosen is none of
\* those that were taken when the call began.
IInv == Shape /\ Kept /\ OldFilesSafe

\* Initially nobody has chosen a name.
LEMMA InitIInv == Init => IInv
  BY DEF Init, IInv, Shape, Kept, OldFilesSafe

\* Every action of generateTemplate, and clearing the folder, keeps IInv.
LEMMA NextIInv == IInv /\ [Next]_vars => IInv'
<1> SUFFICES ASSUME IInv, [Next]_vars PROVE IInv'
  OBVIOUS
<1> USE DEF IInv, Shape, Kept, OldFilesSafe, Goto
<1>1. CASE CleanUp
  BY <1>1 DEF CleanUp
<1>2. ASSUME NEW p \in Processes, Call(p) PROVE IInv'
  BY <1>2 DEF Call
<1>3. ASSUME NEW p \in Processes, Probe(p) PROVE IInv'
  <2>1. CASE Taken(p) /\ at' = [at EXCEPT ![p] = @ + 1] /\ UNCHANGED <<files, pc>>
    \* The search goes on, and no name is chosen yet.
    BY <1>3, <2>1 DEF Probe
  <2>2. CASE ~Taken(p) /\ Claim(p) /\ pc' = [pc EXCEPT ![p] = "generate"] /\ UNCHANGED at
    \* The name is not in files, which has all that is in old[p].
    <3>1. at[p] \notin old[p]
      BY <1>3, <2>2 DEF Probe, Taken
    <3> QED
      BY <1>3, <2>2, <3>1 DEF Probe, Claim
  <2> QED
    BY <1>3, <2>1, <2>2 DEF Probe
<1>4. ASSUME NEW p \in Processes, Generate(p) PROVE IInv'
  BY <1>4 DEF Generate
<1>5. ASSUME NEW p \in Processes, Open(p) PROVE IInv'
  BY <1>5 DEF Open
<1>6. ASSUME NEW p \in Processes, Write(p) PROVE IInv'
  BY <1>6 DEF Write
<1>7. ASSUME NEW p \in Processes, WriteFails(p) PROVE IInv'
  BY <1>7 DEF WriteFails
<1>8. CASE UNCHANGED vars
  BY <1>8 DEF vars
<1> QED
  BY <1>1, <1>2, <1>3, <1>4, <1>5, <1>6, <1>7, <1>8 DEF Next

\* No call writes to a file that existed when it began (generateTemplate).
THEOREM OldFilesKept == Spec => []OldFilesSafe
<1>1. IInv => OldFilesSafe
  BY DEF IInv
<1> QED
  BY <1>1, InitIInv, NextIInv, PTL DEF Spec

-----------------------------------------------------------------------------
(***************************************************************************)
(* The search ends: every call that is still looking for a name, or has    *)
(* not created its file yet, is one of the calls that were counted, so the *)
(* files reach no further than the calls that have created theirs.         *)
(***************************************************************************)
Seekers == {p \in Processes : pc[p] \in {"probe", "generate", "open"}}
Base == MaxSuffix - MaxCalls

\* k calls have created a file.
Created(k) ==
  /\ k + Cardinality(Seekers) <= calls
  /\ files \subseteq 0..(Base + k)
  /\ \A p \in Seekers : at[p] <= Base + k + 1

\* Who writes has created its file.
Opened == \A p \in Processes : pc[p] = "write" => at[p] \in files

TInv == TypeOK /\ Opened /\ \E k \in Nat : Created(k)

\* What the processes that seek a name count to.
LEMMA SeekersFinite == IsFiniteSet(Seekers) /\ Cardinality(Seekers) \in Nat
  BY ProcessesAssumption, FS_Subset, FS_CardinalityType DEF Seekers

\* A process that begins to seek is one more, one that ends is one less.
LEMMA SeekersChange ==
  ASSUME NEW p \in Processes
  PROVE  /\ p \notin Seekers => Cardinality(Seekers \cup {p}) = Cardinality(Seekers) + 1
         /\ p \in Seekers => /\ Cardinality(Seekers \ {p}) = Cardinality(Seekers) - 1
                             /\ Cardinality(Seekers) >= 1
<1>1. p \notin Seekers => Cardinality(Seekers \cup {p}) = Cardinality(Seekers) + 1
  BY SeekersFinite, FS_AddElement
<1>2. ASSUME p \in Seekers
      PROVE  Cardinality(Seekers \ {p}) = Cardinality(Seekers) - 1 /\ Cardinality(Seekers) >= 1
  <2>1. IsFiniteSet(Seekers \ {p}) /\ Cardinality(Seekers \ {p}) = Cardinality(Seekers) - 1
    BY <1>2, SeekersFinite, FS_RemoveElement
  <2>2. Cardinality(Seekers \ {p}) \in Nat
    BY <2>1, FS_CardinalityType
  <2> QED
    BY <2>1, <2>2, SeekersFinite
<1> QED
  BY <1>1, <1>2

\* Initially nobody seeks, and the files are the user's.
LEMMA InitTInv == Init => TInv
<1> SUFFICES ASSUME Init PROVE TInv
  OBVIOUS
<1>1. files \subseteq 0..Base /\ files \subseteq Names
  BY SuffixAssumption DEF Init, Base, Names
<1>2. TypeOK
  BY <1>1, SuffixAssumption DEF Init, TypeOK, Folder, Names
<1>3. Seekers = {}
  BY DEF Init, Seekers
<1>4. Created(0)
  BY <1>1, <1>3, FS_EmptySet, SuffixAssumption DEF Init, Created, Base
<1>5. Opened
  BY DEF Init, Opened
<1> QED
  BY <1>2, <1>4, <1>5 DEF TInv

\* Every action keeps TInv.
LEMMA NextTInv == TInv /\ [Next]_vars => TInv'
<1> SUFFICES ASSUME TypeOK, Opened, NEW k \in Nat, Created(k), [Next]_vars PROVE TInv'
  BY DEF TInv
<1> USE DEF Goto
<1>8. Opened'
  BY DEF Next, vars, CleanUp, Call, Probe, Claim, Generate, Open, Write, WriteFails, Opened, TypeOK
<1>0. Base \in Int /\ Base >= -1 /\ Base + MaxCalls = MaxSuffix /\ calls \in Nat /\ calls <= MaxCalls
      /\ MaxSuffix \in Nat /\ MaxCalls \in Nat
  BY SuffixAssumption DEF Base, TypeOK
<1>00. Cardinality(Seekers) \in Nat
  BY SeekersFinite
<1>1. CASE CleanUp
  <2>1. files' \subseteq 0..Base /\ files' \subseteq Names
    BY <1>1, SuffixAssumption DEF CleanUp, Base, Names
  <2>2. TypeOK'
    BY <1>1, <2>1, SuffixAssumption DEF CleanUp, TypeOK, Folder
  <2>3. Seekers' = {}
    BY <1>1 DEF CleanUp, Seekers
  <2>4. Created(0)'
    BY <1>1, <2>1, <2>3, <1>0, FS_EmptySet DEF CleanUp, Created
  <2> QED
    BY <2>2, <2>4, <1>8 DEF TInv
<1>2. ASSUME NEW p \in Processes, Call(p) PROVE TInv'
  <2>1. Seekers' = Seekers \cup {p} /\ p \notin Seekers
    BY <1>2 DEF Call, Seekers, TypeOK
  <2>2. Cardinality(Seekers') = Cardinality(Seekers) + 1
    BY <2>1, SeekersChange
  <2>3. Created(k)'
    BY <1>2, <2>1, <2>2, <1>0, <1>00 DEF Call, Created, TypeOK
  <2>4. 0 \in Names /\ calls + 1 \in 0..MaxCalls
    BY <1>2, <1>0, SuffixAssumption DEF Call, Names
  <2>5. TypeOK'
    BY <1>2, <2>4 DEF Call, TypeOK
  <2> QED
    BY <2>3, <2>5, <1>8 DEF TInv
<1>3. ASSUME NEW p \in Processes, Probe(p) PROVE TInv'
  <2>1. Seekers' = Seekers /\ p \in Seekers
    BY <1>3 DEF Probe, Seekers, TypeOK
  <2>2. Cardinality(Seekers) >= 1
    BY <2>1, SeekersChange
  <2>3. CASE Taken(p) /\ at' = [at EXCEPT ![p] = @ + 1] /\ UNCHANGED <<files, pc>>
    \* The name that is taken is the name of a file, so the next one is in reach.
    <3>1. at[p] \in 0..(Base + k)
      BY <2>3 DEF Taken, Created
    <3>2. Created(k)'
      BY <1>3, <2>1, <2>3, <3>1, <1>0, <1>00 DEF Probe, Created, TypeOK
    <3>3. at[p] + 1 \in Names
      <4>1. k + Cardinality(Seekers) <= calls
        BY DEF Created
      <4>2. Base + k + 1 <= MaxSuffix
        BY <4>1, <2>2, <1>0, <1>00
      <4> QED
        BY <3>1, <4>2, <1>0 DEF Names
    <3>4. TypeOK'
      BY <1>3, <2>3, <3>3 DEF Probe, TypeOK
    <3> QED
      BY <3>2, <3>4, <1>8 DEF TInv
  <2>4. CASE ~Taken(p) /\ Claim(p) /\ pc' = [pc EXCEPT ![p] = "generate"] /\ UNCHANGED at
    <3>1. TypeOK'
      BY <1>3, <2>4 DEF Probe, Claim, TypeOK
    <3>2. Created(k)'
      BY <1>3, <2>1, <2>4 DEF Probe, Claim, Created
    <3> QED
      BY <3>1, <3>2, <1>8 DEF TInv
  <2> QED
    BY <1>3, <2>3, <2>4 DEF Probe
<1>4. ASSUME NEW p \in Processes, Generate(p) PROVE TInv'
  <2>1. TypeOK'
    BY <1>4 DEF Generate, TypeOK
  <2>2. p \in Seekers /\ (Seekers' = Seekers \/ Seekers' = Seekers \ {p})
    BY <1>4 DEF Generate, Seekers, TypeOK
  <2>3. Cardinality(Seekers') <= Cardinality(Seekers) /\ Cardinality(Seekers') \in Int
    BY <2>2, <1>00, SeekersChange
  <2>4. Created(k)'
    BY <1>4, <2>2, <2>3, <1>0, <1>00 DEF Generate, Created
  <2> QED
    BY <2>1, <2>4, <1>8 DEF TInv
<1>5. ASSUME NEW p \in Processes, Open(p) PROVE TInv'
  <2>1. p \in Seekers /\ Seekers' = Seekers \ {p}
    BY <1>5 DEF Open, Seekers, TypeOK
  <2>2. Cardinality(Seekers') = Cardinality(Seekers) - 1 /\ Cardinality(Seekers) >= 1
    BY <2>1, SeekersChange
  <2>3. TypeOK'
    BY <1>5 DEF Open, TypeOK
  <2>4. CASE files' = files \cup {at[p]}
    <3>1. at[p] \in 0..(Base + k + 1)
      BY <2>1, <1>0 DEF Created, TypeOK, Names
    <3>2. (k + 1) + Cardinality(Seekers') <= calls' /\ calls' = calls
      BY <1>5, <2>2, <1>0, <1>00 DEF Open, Created
    <3>3. files' \subseteq 0..(Base + (k + 1))
      <4>1. files \subseteq 0..(Base + k)
        BY DEF Created
      <4>2. 0..(Base + k) \subseteq 0..(Base + (k + 1)) /\ Base + k + 1 = Base + (k + 1)
        BY <1>0
      <4> QED
        BY <2>4, <3>1, <4>1, <4>2
    <3>4. \A q \in Seekers' : at'[q] \in Int /\ at'[q] <= Base + (k + 1) + 1
      BY <1>5, <2>1, <1>0 DEF Open, Created, TypeOK, Names, Seekers
    <3>5. Created(k + 1)'
      BY <3>2, <3>3, <3>4 DEF Created, Base
    <3> QED
      BY <2>3, <3>5, <1>8 DEF TInv
  <2>5. CASE UNCHANGED files
    <3>1. Created(k)'
      BY <1>5, <2>1, <2>2, <2>5, <1>0, <1>00 DEF Open, Created
    <3> QED
      BY <2>3, <3>1, <1>8 DEF TInv
  <2> QED
    BY <1>5, <2>4, <2>5 DEF Open
<1>6. ASSUME NEW p \in Processes, Write(p) \/ WriteFails(p) PROVE TInv'
  <2>1. Seekers' = Seekers
    BY <1>6 DEF Write, WriteFails, Seekers, TypeOK
  <2>2. Created(k)'
    BY <1>6, <2>1 DEF Write, WriteFails, Created
  <2>3. at[p] \in Names /\ at[p] \in files
    BY <1>6 DEF TypeOK, Opened, Write, WriteFails
  <2>4. text' \in [Names -> SUBSET (Processes \cup {User})] /\ cut' \subseteq Names
    BY <1>6, <2>3 DEF Write, WriteFails, TypeOK
  <2>5. pc' \in [Processes -> {"idle", "probe", "generate", "open", "write"}]
    BY <1>6 DEF Write, WriteFails, TypeOK
  <2>6. \A n \in Names \ files' : text'[n] = {}
    BY <1>6, <2>3 DEF Write, WriteFails, TypeOK
  <2>7. UNCHANGED <<files, at, old, calls>>
    BY <1>6 DEF Write, WriteFails
  <2>8. TypeOK'
    BY <2>4, <2>5, <2>6, <2>7 DEF TypeOK
  <2> QED
    BY <2>2, <2>8, <1>8 DEF TInv
<1>7. CASE UNCHANGED vars
  BY <1>7, <1>8 DEF vars, TInv, TypeOK, Created, Seekers
<1> QED
  BY <1>1, <1>2, <1>3, <1>4, <1>5, <1>6, <1>7 DEF Next

\* The types, with a bound on the numbers that the search for a name tries
\* (generateTemplate): it ends for any number of processes and files.
THEOREM TypeCorrect == Spec => []TypeOK
<1>1. TInv => TypeOK
  BY DEF TInv
<1> QED
  BY <1>1, InitTInv, NextTInv, PTL DEF Spec

\* What is written makes a text; what is not written after it was opened is cut.
LEMMA NextNoEmptyFile == TypeOK /\ NoEmptyFile /\ [Next]_vars => NoEmptyFile'
<1> SUFFICES ASSUME TypeOK, NoEmptyFile, [Next]_vars PROVE NoEmptyFile'
  OBVIOUS
<1> USE DEF Goto, NoEmptyFile
<1>1. CASE CleanUp
  <2>1. files' \subseteq Names
    BY <1>1, SuffixAssumption DEF CleanUp, Names
  <2> QED
    BY <1>1, <2>1 DEF CleanUp, Folder
<1>2. ASSUME NEW p \in Processes, Call(p) \/ Generate(p) PROVE NoEmptyFile'
  BY <1>2 DEF Call, Generate, TypeOK
<1>3. ASSUME NEW p \in Processes, Probe(p) PROVE NoEmptyFile'
  BY <1>3 DEF Probe, Claim, TypeOK
<1>4. ASSUME NEW p \in Processes, Open(p) PROVE NoEmptyFile'
  BY <1>4 DEF Open, TypeOK
<1>5. ASSUME NEW p \in Processes, Write(p) PROVE NoEmptyFile'
  BY <1>5 DEF Write, TypeOK
<1>6. ASSUME NEW p \in Processes, WriteFails(p) PROVE NoEmptyFile'
  BY <1>6 DEF WriteFails, TypeOK
<1>7. CASE UNCHANGED vars
  BY <1>7 DEF vars
<1> QED
  BY <1>1, <1>2, <1>3, <1>4, <1>5, <1>6, <1>7 DEF Next

\* No call leaves an empty file because its schema is wrong, or for any other
\* reason but a writing that failed (generateTemplate).
THEOREM NoFileLeftEmpty == Spec => []NoEmptyFile
<1>1. Init => NoEmptyFile
  BY SuffixAssumption DEF Init, NoEmptyFile, Folder, Names
<1> QED
  BY <1>1, TypeCorrect, NextNoEmptyFile, PTL DEF Spec

=============================================================================

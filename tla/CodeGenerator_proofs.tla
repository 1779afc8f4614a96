------------------------ MODULE CodeGenerator_proofs ------------------------
(***************************************************************************)
(* Proofs about CodeGenerator, for any versions of the proto file, any     *)
(* generators run by hand, and any number of deaths and edits.             *)
(*                                                                         *)
(* A generator goes through its list of files once, so what it has passed  *)
(* is there, and what is rewritten has its version (RunInv).  That it came *)
(* to its end with the saved proto file is what suspect remembers, hence   *)
(* FreshInv and RoutesAgree.  Two generators never share a file, so while  *)
(* one writes, those of the others keep agreeing.                          *)
(*                                                                         *)
(* NoDeathInv is about the files that are not rewritten: as long as no     *)
(* generator died, each is there with the files it belongs to and of their *)
(* version.  It is stated over the files as a generator finds them         *)
(* (source), for which the two names of the client's header are one.       *)
(***************************************************************************)
EXTENDS CodeGenerator, WellFoundedInduction, TLAPS

\* The four generators.
Gens == {"pb2client", "pb2service", "pb2server", "pb2tool"}

\* A file is absent, or of a version of the proto file.
FileState == {Absent} \union [v : Versions, whole : BOOLEAN, hand : BOOLEAN]

\* Types of the state, with the bounds of the place in the list of files.
GeneratorTypes ==
    /\ proto \in Versions
    /\ file \in [Files \union {"client.hpp"} -> FileState]
    /\ \/ run = NotRunning
       \/ /\ run \in [gen : Gens, v : Versions, k : Nat \ {0}, open : BOOLEAN]
          /\ run.k <= Len(Plan[run.gen]) + 1
          /\ run.open => run.k <= Len(Plan[run.gen])
    /\ newer \subseteq Headers
    /\ make \in 0..7
    /\ deaths \in Nat
    /\ suspect \subseteq Gens

\* Nothing written by hand is in a file that is rewritten, and the header of the
\* client has one name.
HandInv ==
    /\ \A f \in Copyright : ~file[f].hand
    /\ Exists("client.hpp") => ~Exists("client.h")

\* The files as a generator finds them.
source == [f \in Files |-> IF f = "client.h" THEN ClientHeader ELSE file[f]]

\* The generator finds the file.
Present(f) == source[f].v # 0

\* What the generator that runs has done so far.
RunInv ==
    Running =>
        LET plan == Plan[run.gen] IN
        /\ \A k \in 1..(run.k - 1) :
              /\ Present(plan[k])
              /\ plan[k] \in Copyright => source[plan[k]].v = run.v
        /\ run.open => file[plan[run.k]].v = run.v /\ run.gen \in suspect

\* A generator that came to its end has written what belongs to its header.
FreshInv ==
    \A g \in DOMAIN HeaderOf : HeaderOf[g] \in newer /\ g \notin suspect =>
        \A k \in DOMAIN Plan[g] :
            /\ Present(Plan[g][k])
            /\ Plan[g][k] \in Copyright => source[Plan[g][k]].v = proto

\* Only the file being written is not whole.
WholeInv ==
    \A f \in Files : Present(f) =>
        source[f].whole \/ (run.open /\ f = Plan[run.gen][run.k])

\* A generator leaves all its files behind; make clean takes those away that the
\* next run writes again.
PresentInv ==
    \A g \in Gens : run.gen # g =>
        \A i, j \in DOMAIN Plan[g] :
            /\ Present(Plan[g][i])
            /\ Plan[g][i] \in Copyright \/ Plan[g][j] \notin Copyright
            => Present(Plan[g][j])

\* The files of g that are rewritten together, and those edited together.
Rewritten(g) == {k \in DOMAIN Plan[g] : Plan[g][k] \in Copyright}

Kept == [pb2client |-> {3, 4}, pb2service |-> 3..6, pb2server |-> {}, pb2tool |-> {3, 4}]

\* The files at these places are of one version.
Agree(g, indices) == \A i, j \in indices : source[Plan[g][i]].v = source[Plan[g][j]].v

\* The files of a generator that does not run agree.  Of one that runs, those that
\* are not rewritten were all there before, or it is writing all of them.
VersionInv ==
    \A g \in Gens :
        /\ run.gen # g => Agree(g, Rewritten(g)) /\ Agree(g, Kept[g])
        /\ run.gen = g =>
              \/ /\ Agree(g, Kept[g])
                 /\ \A k \in Kept[g] : Present(Plan[g][k])
              \/ \A k \in Kept[g] : source[Plan[g][k]].v =
                    IF k < run.k \/ (k = run.k /\ run.open) THEN run.v ELSE 0

\* What make goes by is there, and make runs only the generator of its step.
MakeInv ==
    /\ \A h \in newer : Present(h)
    /\ MakeRuns =>
          /\ Present("Makefile")
          /\ make >= 2 => Present("stub.h")
          /\ make >= 4 => Present("service.h")
          /\ make >= 6 => Present("tool.h")
          /\ Running => make \in {1, 3, 5} /\ run.gen = MakeSteps[make]

\* What holds as long as no generator has died.
NoDeathInv == deaths = 0 => WholeInv /\ PresentInv /\ VersionInv /\ MakeInv

\* The inductive invariant.
IInv == GeneratorTypes /\ HandInv /\ RunInv /\ FreshInv /\ NoDeathInv

-----------------------------------------------------------------------------
(* The lists of files *)

\* A set of naturals has a least element.
LEMMA LeastElement ==
  ASSUME NEW T \in SUBSET Nat, T # {}
  PROVE  \E m \in T : \A k \in T : m <= k
<1> DEFINE Less == {ss \in Nat \X Nat : ss[1] < ss[2]}
<1>1. IsWellFoundedOn(Less, Nat)
  BY NatLessThanWellFounded DEF OpToRel
<1>2. PICK m \in T : \A k \in T : <<k, m>> \notin Less
  BY <1>1, WFMin
<1>3. \A k \in T : ~(k < m)
  BY <1>2
<1> QED
  BY <1>2, <1>3

\* Each generator has a list of five to eight files.
LEMMA PlanFiles ==
  /\ DOMAIN Plan = Gens
  /\ \A g \in Gens :
       /\ Plan[g] \in Seq(Files)
       /\ Len(Plan[g]) \in 5..8
       /\ DOMAIN Plan[g] = 1..Len(Plan[g])
       /\ \A k \in 1..Len(Plan[g]) : Plan[g][k] \in Files
<1>1. /\ Proto2Client \in Seq(Files) /\ Len(Proto2Client) = 5
      /\ \A k \in 1..5 : Proto2Client[k] \in Files
  BY DEF Proto2Client, Files
<1>2. /\ Proto2Service \in Seq(Files) /\ Len(Proto2Service) = 8
      /\ \A k \in 1..8 : Proto2Service[k] \in Files
  BY DEF Proto2Service, Files
<1>3. /\ Proto2Server \in Seq(Files) /\ Len(Proto2Server) = 5
      /\ \A k \in 1..5 : Proto2Server[k] \in Files
  BY DEF Proto2Server, Files
<1>4. /\ Proto2Tool \in Seq(Files) /\ Len(Proto2Tool) = 5
      /\ \A k \in 1..5 : Proto2Tool[k] \in Files
  BY DEF Proto2Tool, Files
<1>5. /\ DOMAIN Plan = Gens
      /\ Plan["pb2client"] = Proto2Client /\ Plan["pb2service"] = Proto2Service
      /\ Plan["pb2server"] = Proto2Server /\ Plan["pb2tool"] = Proto2Tool
  BY DEF Plan, Gens
<1>6. ASSUME NEW s \in Seq(Files), NEW n \in 5..8, Len(s) = n, \A k \in 1..n : s[k] \in Files
      PROVE  Len(s) \in 5..8 /\ DOMAIN s = 1..Len(s) /\ \A k \in 1..Len(s) : s[k] \in Files
  BY <1>6
<1> QED
  BY <1>1, <1>2, <1>3, <1>4, <1>5, <1>6 DEF Gens

\* No file is twice in a list, and none in two.
LEMMA PlanDistinct ==
  ASSUME NEW g \in Gens, NEW h \in Gens, NEW i \in DOMAIN Plan[g], NEW j \in DOMAIN Plan[h],
         Plan[g][i] = Plan[h][j]
  PROVE  g = h /\ i = j
<1>1. /\ Plan["pb2client"] = Proto2Client /\ Plan["pb2service"] = Proto2Service
      /\ Plan["pb2server"] = Proto2Server /\ Plan["pb2tool"] = Proto2Tool
  BY DEF Plan
<1>2. /\ DOMAIN Proto2Client = 1..5 /\ DOMAIN Proto2Service = 1..8
      /\ DOMAIN Proto2Server = 1..5 /\ DOMAIN Proto2Tool = 1..5
  BY DEF Proto2Client, Proto2Service, Proto2Server, Proto2Tool
<1>3. CASE g = "pb2client"
  BY <1>1, <1>2, <1>3 DEF Gens, Proto2Client, Proto2Service, Proto2Server, Proto2Tool
<1>4. CASE g = "pb2service"
  BY <1>1, <1>2, <1>4 DEF Gens, Proto2Client, Proto2Service, Proto2Server, Proto2Tool
<1>5. CASE g = "pb2server"
  BY <1>1, <1>2, <1>5 DEF Gens, Proto2Client, Proto2Service, Proto2Server, Proto2Tool
<1>6. CASE g = "pb2tool"
  BY <1>1, <1>2, <1>6 DEF Gens, Proto2Client, Proto2Service, Proto2Server, Proto2Tool
<1> QED
  BY <1>3, <1>4, <1>5, <1>6 DEF Gens

\* The files with names of their own.
LEMMA SomeFiles ==
  /\ Copyright \subseteq Files
  /\ "client.h" \in Files /\ "client.h" \notin Copyright
  /\ "client.hpp" \notin Files
  /\ Headers \subseteq Copyright
  /\ DOMAIN HeaderOf \subseteq Gens
  /\ \A g \in DOMAIN HeaderOf : HeaderOf[g] = Plan[g][1] /\ HeaderOf[g] \in Headers
BY DEF Copyright, Files, Headers, HeaderOf, Gens, Plan, Proto2Client, Proto2Service,
       Proto2Server, Proto2Tool

-----------------------------------------------------------------------------
(* The files as a generator finds them *)

\* What a generator finds is a file as it was written, or none.
LEMMA SourceTypes ==
  ASSUME GeneratorTypes
  PROVE  /\ source \in [Files -> FileState]
         /\ \A f \in Files : source[f].v \in Nat
         /\ \A f \in Files : Present(f) => source[f].v \in Versions
<1>1. source \in [Files -> FileState]
  BY SomeFiles DEF GeneratorTypes, source, ClientHeader
<1>2. ASSUME NEW f \in Files
      PROVE  source[f].v \in Nat /\ (Present(f) => source[f].v \in Versions)
  <2>1. source[f] \in FileState
    BY <1>1
  <2> QED
    BY <2>1, ProtosAssumption DEF FileState, Absent, Versions, Present
<1> QED
  BY <1>1, <1>2

\* A generator passes by the files that are there and not rewritten.
LEMMA SkipsPresent ==
  ASSUME GeneratorTypes, HandInv, NEW f \in Files
  PROVE  /\ Skips(f) <=> f \notin Copyright /\ Present(f)
         /\ ~Skips(f) /\ f = "client.h" => ~Exists("client.hpp")
         /\ f # "client.h" => source[f] = file[f]
BY SomeFiles DEF Skips, Present, source, Exists, ClientHeader, GeneratorTypes

\* Another state of the file under one name, which is not hidden by client.hpp.
LEMMA FileChanges ==
  ASSUME GeneratorTypes, NEW f \in Files, NEW x \in FileState,
         f = "client.h" => ~Exists("client.hpp"),
         file' = [file EXCEPT ![f] = x]
  PROVE  /\ source' = [source EXCEPT ![f] = x]
         /\ Exists("client.hpp")' <=> Exists("client.hpp")
<1>1. /\ file' \in [Files \union {"client.hpp"} -> FileState]
      /\ file'[f] = x /\ \A h \in Files \union {"client.hpp"} : h # f => file'[h] = file[h]
  BY DEF GeneratorTypes
<1>2. Exists("client.hpp")' <=> Exists("client.hpp")
  BY <1>1, SomeFiles DEF Exists
<1>3. DOMAIN source = Files
  BY DEF source
<1>4. ASSUME NEW h \in Files
      PROVE  source'[h] = IF h = f THEN x ELSE source[h]
  BY <1>1, <1>2, SomeFiles DEF source, ClientHeader, Exists
<1>5. source' = [h \in Files |-> source'[h]]
  BY DEF source
<1> QED
  BY <1>2, <1>3, <1>4, <1>5

\* The file that a generator opens is the first one it does not skip.
LEMMA OpenFirst ==
  ASSUME GeneratorTypes, HandInv, Open
  PROVE  \E k \in run.k..Len(Plan[run.gen]) :
           LET f == Plan[run.gen][k]
               x == [v |-> run.v, whole |-> FALSE, hand |-> FALSE] IN
           /\ \A j \in run.k..(k - 1) :
                 Present(Plan[run.gen][j]) /\ Plan[run.gen][j] \notin Copyright
           /\ f \in Copyright \/ ~Present(f)
           /\ f = "client.h" => ~Exists("client.hpp")
           /\ run' = [run EXCEPT !.k = k, !.open = TRUE]
           /\ file' = [file EXCEPT ![f] = x]
           /\ source' = [source EXCEPT ![f] = x]
           /\ newer' = newer \union ({f} \intersect Headers)
           /\ suspect' = suspect \union {run.gen}
<1>1. /\ run.gen \in Gens /\ run.v \in Versions /\ run.k \in Nat
      /\ Len(Plan[run.gen]) \in Nat /\ DOMAIN Plan[run.gen] = 1..Len(Plan[run.gen])
      /\ run.k >= 1
      /\ \A j \in 1..Len(Plan[run.gen]) : Plan[run.gen][j] \in Files
  BY PlanFiles DEF GeneratorTypes, Open, Running, NotRunning
<1>2. Remaining # {} /\ Remaining \subseteq Nat
  BY <1>1 DEF Remaining, Open
<1>3. PICK k \in Remaining : \A j \in Remaining : k <= j
  BY <1>2, LeastElement
<1>4. \A m \in Remaining : (\A j \in Remaining : m <= j) => m = k
  BY <1>2, <1>3
<1>5. Min(Remaining) = k
  BY <1>3, <1>4 DEF Min
<1>6. k \in run.k..Len(Plan[run.gen]) /\ ~Skips(Plan[run.gen][k])
  BY <1>3 DEF Remaining
<1>7. ASSUME NEW j \in run.k..(k - 1)
      PROVE  Skips(Plan[run.gen][j])
  <2>1. j \in run.k..Len(Plan[run.gen]) /\ ~(k <= j)
    BY <1>1, <1>6
  <2>2. j \notin Remaining
    BY <1>3, <2>1
  <2> QED
    BY <2>1, <2>2 DEF Remaining
<1>8. \A j \in run.k..Len(Plan[run.gen]) : Plan[run.gen][j] \in Files
  BY <1>1
<1>9. ASSUME NEW j \in run.k..(k - 1)
      PROVE  Present(Plan[run.gen][j]) /\ Plan[run.gen][j] \notin Copyright
  <2>1. j \in run.k..Len(Plan[run.gen])
    BY <1>1, <1>6
  <2> QED
    BY <1>7, <1>8, <2>1, SkipsPresent
<1>10. PICK f \in Files : f = Plan[run.gen][k]
  BY <1>8, <1>6
<1>11. PICK x \in FileState : x = [v |-> run.v, whole |-> FALSE, hand |-> FALSE]
  BY <1>1 DEF FileState
<1>12. /\ f \in Copyright \/ ~Present(f)
       /\ f = "client.h" => ~Exists("client.hpp")
  BY <1>6, <1>10, SkipsPresent
<1>13. /\ run' = [run EXCEPT !.k = k, !.open = TRUE]
       /\ file' = [file EXCEPT ![f] = x]
       /\ newer' = newer \union ({f} \intersect Headers)
       /\ suspect' = suspect \union {run.gen}
  BY <1>5, <1>10, <1>11 DEF Open
<1>14. source' = [source EXCEPT ![f] = x]
  BY <1>12, <1>13, FileChanges
<1> QED
  BY <1>6, <1>9, <1>10, <1>11, <1>12, <1>13, <1>14

\* What is closed is whole.
LEMMA CloseFile ==
  ASSUME GeneratorTypes, HandInv, RunInv, Close
  PROVE  LET f == Plan[run.gen][run.k]
             x == [source[f] EXCEPT !.whole = TRUE] IN
         /\ run.gen \in Gens /\ run.k \in 1..Len(Plan[run.gen]) /\ f \in Files
         /\ x \in FileState
         /\ f = "client.h" => ~Exists("client.hpp")
         /\ run' = [run EXCEPT !.k = run.k + 1, !.open = FALSE]
         /\ file' = [file EXCEPT ![f] = x]
         /\ source' = [source EXCEPT ![f] = x]
         /\ newer' = newer \union ({f} \intersect Headers)
<1>1. /\ run.gen \in Gens /\ run.v \in Versions /\ run.k \in 1..Len(Plan[run.gen])
      /\ run.open /\ Running
  BY PlanFiles DEF GeneratorTypes, Close, Running, NotRunning
<1>2. PICK f \in Files : f = Plan[run.gen][run.k]
  BY <1>1, PlanFiles
<1>3. file[f].v = run.v /\ file[f].v # 0
  BY <1>1, <1>2, ProtosAssumption DEF RunInv, Versions
<1>4. file[f] \in [v : Versions, whole : BOOLEAN, hand : BOOLEAN]
  BY <1>3 DEF GeneratorTypes, FileState, Absent
<1>5. f = "client.h" => ~Exists("client.hpp")
  BY <1>3 DEF HandInv, Exists
<1>6. source[f] = file[f]
  BY <1>5 DEF source, ClientHeader
<1>7. PICK x \in FileState : x = [file[f] EXCEPT !.whole = TRUE]
  BY <1>4 DEF FileState
<1>8. /\ run' = [run EXCEPT !.k = run.k + 1, !.open = FALSE]
      /\ newer' = newer \union ({f} \intersect Headers)
      /\ file' = [file EXCEPT ![f] = x]
  BY <1>2, <1>7 DEF Close, GeneratorTypes
<1>9. source' = [source EXCEPT ![f] = x]
  BY <1>5, <1>8, FileChanges
<1> QED
  BY <1>1, <1>2, <1>5, <1>6, <1>7, <1>8, <1>9

\* A generator ends when it has come by all its files.
LEMMA FinishAll ==
  ASSUME GeneratorTypes, HandInv, RunInv, Finish
  PROVE  /\ run.gen \in Gens
         /\ \A k \in DOMAIN Plan[run.gen] :
              /\ Present(Plan[run.gen][k])
              /\ Plan[run.gen][k] \in Copyright => source[Plan[run.gen][k]].v = run.v
         /\ \A k \in DOMAIN Plan[run.gen] : Plan[run.gen][k] \in Copyright => k < run.k
<1>1. /\ run.gen \in Gens /\ run.k \in Nat /\ Running
      /\ DOMAIN Plan[run.gen] = 1..Len(Plan[run.gen]) /\ Len(Plan[run.gen]) \in Nat
      /\ \A k \in DOMAIN Plan[run.gen] : Plan[run.gen][k] \in Files
  BY PlanFiles DEF GeneratorTypes, Finish, Running, NotRunning
<1>2. ASSUME NEW k \in DOMAIN Plan[run.gen], k >= run.k
      PROVE  Present(Plan[run.gen][k]) /\ Plan[run.gen][k] \notin Copyright
  <2>1. k \in run.k..Len(Plan[run.gen]) /\ k \notin Remaining
    BY <1>1, <1>2 DEF Finish
  <2>2. Skips(Plan[run.gen][k])
    BY <2>1 DEF Remaining
  <2> QED
    BY <1>1, <2>2, SkipsPresent
<1>3. ASSUME NEW k \in DOMAIN Plan[run.gen], k < run.k
      PROVE  /\ Present(Plan[run.gen][k])
             /\ Plan[run.gen][k] \in Copyright => source[Plan[run.gen][k]].v = run.v
  <2>1. k \in 1..(run.k - 1)
    BY <1>1, <1>3
  <2> QED
    BY <1>1, <2>1 DEF RunInv
<1> QED
  BY <1>1, <1>2, <1>3

\* make clean takes away what is rewritten each time.
LEMMA CleanFiles ==
  ASSUME GeneratorTypes, Clean
  PROVE  /\ source' = [f \in Files |-> IF f \in Copyright THEN Absent ELSE source[f]]
         /\ \A f \in DOMAIN file : file'[f] = IF f \in Copyright THEN Absent ELSE file[f]
<1>1. /\ \A f \in Files \union {"client.hpp"} :
              file'[f] = IF f \in Copyright THEN Absent ELSE file[f]
      /\ DOMAIN file = Files \union {"client.hpp"}
  BY DEF Clean, GeneratorTypes
<1>2. Exists("client.hpp")' <=> Exists("client.hpp")
  BY <1>1, SomeFiles DEF Exists
<1>3. ASSUME NEW f \in Files
      PROVE  source'[f] = IF f \in Copyright THEN Absent ELSE source[f]
  BY <1>1, <1>2, SomeFiles DEF source, ClientHeader, Exists
<1>4. source' = [f \in Files |-> source'[f]]
  BY DEF source
<1> QED
  BY <1>1, <1>3, <1>4

\* Renamed, the header of the client is found as it was.
LEMMA RenamedIsFound ==
  ASSUME GeneratorTypes, HandInv, RenameClientHeader
  PROVE  /\ source' = source
         /\ ~Exists("client.hpp") /\ Exists("client.h")
         /\ file'["client.h"] = Absent /\ file'["client.hpp"] = file["client.h"]
         /\ \A f \in DOMAIN file : f \notin {"client.h", "client.hpp"} => file'[f] = file[f]
<1>1. /\ file'["client.h"] = Absent /\ file'["client.hpp"] = file["client.h"]
      /\ DOMAIN file = Files \union {"client.hpp"}
      /\ \A f \in DOMAIN file : f \notin {"client.h", "client.hpp"} => file'[f] = file[f]
  BY SomeFiles DEF RenameClientHeader, GeneratorTypes
<1>2. file["client.h"].whole /\ file["client.h"] \in FileState
  BY SomeFiles DEF RenameClientHeader, GeneratorTypes
<1>3. Exists("client.h")
  BY <1>2, ProtosAssumption DEF FileState, Absent, Exists, Versions
<1>4. ~Exists("client.hpp") /\ Exists("client.hpp")'
  BY <1>1, <1>3 DEF HandInv, Exists
<1>5. \A f \in Files : source'[f] = source[f]
  BY <1>1, <1>4, SomeFiles DEF source, ClientHeader, Exists
<1>6. source' = [f \in Files |-> source'[f]] /\ source = [f \in Files |-> source[f]]
  BY DEF source
<1> QED
  BY <1>1, <1>3, <1>4, <1>5, <1>6

\* One part is brought up to the proto file.
LEMMA EditFiles ==
  ASSUME GeneratorTypes, HandInv, EditCode
  PROVE  \E P \in {{"serviceimpl.h", "serviceimpl.cpp", "serverhandler.h", "serverhandler.cpp"},
                   {"client.h", "client.cpp"}, {"toolimpl.h", "toolimpl.cpp"}} :
           LET x == [v |-> proto, whole |-> TRUE, hand |-> TRUE] IN
           /\ \A f \in P : Present(f)
           /\ source' = [f \in Files |-> IF f \in P THEN x ELSE source[f]]
           /\ \A f \in DOMAIN file : file'[f] = file[f] \/ (f \notin Copyright /\ file'[f] = x)
           /\ \A f \in DOMAIN file : Exists(f)' <=> Exists(f)
<1>1. PICK part \in Parts :
        /\ \A f \in part : Exists(f)
        /\ file' = [f \in DOMAIN file |->
                       IF f \in part THEN [v |-> proto, whole |-> TRUE, hand |-> TRUE] ELSE file[f]]
  BY DEF EditCode
<1>2. PICK x \in FileState : x = [v |-> proto, whole |-> TRUE, hand |-> TRUE]
  BY DEF GeneratorTypes, FileState
<1>3. /\ DOMAIN file = Files \union {"client.hpp"}
      /\ \A f \in Files \union {"client.hpp"} : file'[f] = IF f \in part THEN x ELSE file[f]
      /\ x.v # 0
  BY <1>1, <1>2, ProtosAssumption DEF GeneratorTypes, Versions
<1>4. \A f \in DOMAIN file : Exists(f)' <=> Exists(f)
  BY <1>1, <1>3 DEF Exists
<1>5. \A f \in part : f \notin Copyright
  BY DEF Parts, Copyright
<1>6. PICK P : P = IF part = {"client.hpp", "client.cpp"} THEN {"client.h", "client.cpp"} ELSE part
  OBVIOUS
<1>7. Exists("client.hpp")' <=> Exists("client.hpp")
  BY <1>3, <1>4
<1>8. /\ P \in {{"serviceimpl.h", "serviceimpl.cpp", "serverhandler.h", "serverhandler.cpp"},
                {"client.h", "client.cpp"}, {"toolimpl.h", "toolimpl.cpp"}}
      /\ "client.h" \in P <=> (IF Exists("client.hpp") THEN "client.hpp" ELSE "client.h") \in part
      /\ \A f \in Files : f # "client.h" => (f \in P <=> f \in part)
  BY <1>1, <1>6, SomeFiles DEF Parts
<1>9. ASSUME NEW f \in Files
      PROVE  source'[f] = IF f \in P THEN x ELSE source[f]
  BY <1>3, <1>7, <1>8, SomeFiles DEF source, ClientHeader, Exists
<1>10. source' = [f \in Files |-> source'[f]]
  BY DEF source
<1>11. ASSUME NEW f \in P
       PROVE  Present(f)
  <2>1. f \in Files
    BY <1>8 DEF Files, Proto2Client, Proto2Service, Proto2Tool
  <2>2. CASE f = "client.h"
    BY <1>1, <1>8, <2>1, <2>2 DEF Present, source, ClientHeader, Exists
  <2>3. CASE f # "client.h"
    BY <1>1, <1>8, <2>1, <2>3 DEF Present, source, Exists
  <2> QED
    BY <2>2, <2>3
<1>12. source' = [f \in Files |-> IF f \in P THEN x ELSE source[f]]
  BY <1>9, <1>10
<1>13. \A f \in DOMAIN file : file'[f] = file[f] \/ (f \notin Copyright /\ file'[f] = x)
  BY <1>3, <1>5
<1> QED
  BY <1>2, <1>4, <1>8, <1>11, <1>12, <1>13

-----------------------------------------------------------------------------
(* The steps *)

\* A generator starts: the programmer runs it, or make.
Starts(g) == Start(g) /\ (~MakeRuns \/ (make \in {1, 3, 5} /\ g = MakeSteps[make]))

\* Nothing but make goes on.
OnlyMakeMoves == UNCHANGED <<proto, file, run, newer, deaths, suspect>>

\* Every step is one of these; those of make alone leave the files as they are.
LEMMA StepKinds ==
  ASSUME GeneratorTypes, [Next]_vars
  PROVE  \/ \E g \in Gens : Starts(g)
         \/ Open \/ Close \/ Finish \/ Die \/ Clean \/ EditProto \/ EditCode
         \/ RenameClientHeader
         \/ OnlyMakeMoves /\ make' \in 0..7
<1>1. CASE \E g \in ByHand : RunByHand(g)
  BY <1>1, ByHandAssumption DEF RunByHand, Starts, Gens
<1>2. CASE MakeGenerates
  <2>1. MakeSteps[make] \in Gens
    BY <1>2 DEF MakeGenerates, MakeSteps, Gens
  <2>2. CASE HeaderOf[MakeSteps[make]] \in newer
    BY <1>2, <2>2 DEF MakeGenerates, OnlyMakeMoves
  <2>3. CASE HeaderOf[MakeSteps[make]] \notin newer
    BY <1>2, <2>1, <2>3 DEF MakeGenerates, Starts
  <2> QED
    BY <2>2, <2>3
<1>3. CASE StartMake \/ MakeBuilds \/ MakeFails
  BY <1>3 DEF StartMake, MakeBuilds, MakeFails, OnlyMakeMoves
<1>4. CASE UNCHANGED vars
  BY <1>4 DEF vars, OnlyMakeMoves, GeneratorTypes
<1> QED
  BY <1>1, <1>2, <1>3, <1>4 DEF Next

\* Where nothing is written, a generator finds what it found before.
LEMMA SourceOfFile ==
  ASSUME file' = file
  PROVE  source' = source
BY DEF source, ClientHeader, Exists

\* Type correctness is inductive.
LEMMA TypesStep ==
  ASSUME GeneratorTypes, HandInv, RunInv, [Next]_vars
  PROVE  GeneratorTypes'
<1> USE DEF GeneratorTypes
<1>1. ASSUME NEW g \in Gens, Starts(g)
      PROVE  GeneratorTypes'
  BY <1>1, PlanFiles DEF Starts, Start
<1>2. CASE Open
  <2>1. /\ run.gen \in Gens /\ run # NotRunning
        /\ Len(Plan[run.gen]) \in Nat
    BY <1>2, PlanFiles DEF Open, Running, NotRunning
  <2>2. PICK k \in run.k..Len(Plan[run.gen]) :
           LET f == Plan[run.gen][k]
               x == [v |-> run.v, whole |-> FALSE, hand |-> FALSE] IN
           /\ run' = [run EXCEPT !.k = k, !.open = TRUE]
           /\ file' = [file EXCEPT ![f] = x]
           /\ newer' = newer \union ({f} \intersect Headers)
           /\ suspect' = suspect \union {run.gen}
    BY <1>2, OpenFirst
  <2>3. [v |-> run.v, whole |-> FALSE, hand |-> FALSE] \in FileState
    BY <2>1 DEF FileState
  <2>4. file' \in [Files \union {"client.hpp"} -> FileState]
    BY <2>2, <2>3
  <2>5. /\ run' \in [gen : Gens, v : Versions, k : Nat \ {0}, open : BOOLEAN]
        /\ run'.k <= Len(Plan[run'.gen]) + 1
        /\ run'.open => run'.k <= Len(Plan[run'.gen])
    <3>1. run \in [gen : Gens, v : Versions, k : Nat \ {0}, open : BOOLEAN]
      BY <2>1
    <3>2. run' \in [gen : Gens, v : Versions, k : Nat \ {0}, open : BOOLEAN]
      <4>1. run' = [run EXCEPT !.k = k, !.open = TRUE]
        BY <2>2
      <4>2. k \in Nat \ {0}
        BY <2>1, <2>2, <3>1
      <4> QED
        BY ONLY <3>1, <4>1, <4>2
    <3>3. run'.gen = run.gen /\ run'.k = k
      BY ONLY <3>1, <2>2
    <3> QED
      BY <2>1, <2>2, <3>2, <3>3
  <2> QED
    BY <1>2, <2>1, <2>2, <2>4, <2>5 DEF Open
<1>3. CASE Close
  <2>1. /\ run.gen \in Gens /\ run # NotRunning
        /\ Len(Plan[run.gen]) \in Nat
    BY <1>3, PlanFiles DEF Close, Running, NotRunning
  <2>2. \E f \in Files, x \in FileState :
          /\ file' = [file EXCEPT ![f] = x]
          /\ newer' = newer \union ({f} \intersect Headers)
    BY <1>3, CloseFile
  <2>3. /\ run' = [run EXCEPT !.k = run.k + 1, !.open = FALSE]
        /\ run.k \in 1..Len(Plan[run.gen])
    BY <1>3, CloseFile
  <2>4. /\ run' \in [gen : Gens, v : Versions, k : Nat \ {0}, open : BOOLEAN]
        /\ run'.k <= Len(Plan[run'.gen]) + 1
        /\ run'.open => run'.k <= Len(Plan[run'.gen])
    <3>1. run \in [gen : Gens, v : Versions, k : Nat \ {0}, open : BOOLEAN]
      BY <2>1
    <3>2. run' \in [gen : Gens, v : Versions, k : Nat \ {0}, open : BOOLEAN]
      <4>1. run' = [run EXCEPT !.k = run.k + 1, !.open = FALSE]
        BY <2>3
      <4>2. run.k + 1 \in Nat \ {0}
        BY <2>1, <2>3, <3>1
      <4> QED
        BY ONLY <3>1, <4>1, <4>2
    <3>3. run'.gen = run.gen /\ run'.k = run.k + 1 /\ run'.open = FALSE
      BY ONLY <3>1, <2>3
    <3> QED
      BY <2>1, <2>3, <3>2, <3>3
  <2>5. file' \in [Files \union {"client.hpp"} -> FileState] /\ newer' \subseteq Headers
    BY <2>2
  <2> QED
    BY <1>3, <2>4, <2>5 DEF Close
<1>4. CASE Finish
  BY <1>4 DEF Finish, MakeRuns
<1>5. CASE Die
  BY <1>5 DEF Die
<1>6. CASE Clean
  <2>1. file' \in [Files \union {"client.hpp"} -> FileState]
    BY <1>6 DEF Clean, FileState
  <2> QED
    BY <1>6, <2>1 DEF Clean
<1>7. CASE EditProto
  <2>1. Len(Protos) \in Nat
    BY ProtosAssumption
  <2>2. proto' \in Versions
    BY <1>7, <2>1 DEF EditProto, Versions
  <2> QED
    BY <1>7, <2>2 DEF EditProto
<1>8. CASE EditCode
  <2>1. [v |-> proto, whole |-> TRUE, hand |-> TRUE] \in FileState
    BY DEF FileState
  <2>2. file' \in [Files \union {"client.hpp"} -> FileState]
    BY <1>8, <2>1 DEF EditCode
  <2>3. UNCHANGED <<proto, run, newer, deaths, suspect>> /\ make' = 0
    BY <1>8 DEF EditCode
  <2> QED
    BY <2>2, <2>3
<1>9. CASE RenameClientHeader
  <2>1. file' \in [Files \union {"client.hpp"} -> FileState]
    BY <1>9, SomeFiles DEF RenameClientHeader, FileState
  <2> QED
    BY <1>9, <2>1 DEF RenameClientHeader
<1>10. CASE OnlyMakeMoves /\ make' \in 0..7
  BY <1>10 DEF OnlyMakeMoves
<1> QED
  BY <1>1, <1>2, <1>3, <1>4, <1>5, <1>6, <1>7, <1>8, <1>9, <1>10, StepKinds

\* A file that is rewritten never holds work by hand.
LEMMA HandStep ==
  ASSUME GeneratorTypes, HandInv, RunInv, [Next]_vars
  PROVE  HandInv'
<1>1. CASE file' = file
  BY <1>1 DEF HandInv, Exists
<1>2. ASSUME NEW f \in Files, NEW x \in FileState, file' = [file EXCEPT ![f] = x],
             f \in Copyright => ~x.hand, f = "client.h" => ~Exists("client.hpp")
      PROVE  HandInv'
  <2>1. /\ file'[f] = x
        /\ \A h \in Files \union {"client.hpp"} : h # f => file'[h] = file[h]
    BY <1>2 DEF GeneratorTypes
  <2> QED
    BY <1>2, <2>1, SomeFiles DEF HandInv, Exists
<1>3. CASE Open
  <2>1. PICK k \in run.k..Len(Plan[run.gen]) :
           LET f == Plan[run.gen][k]
               x == [v |-> run.v, whole |-> FALSE, hand |-> FALSE] IN
           /\ f = "client.h" => ~Exists("client.hpp")
           /\ file' = [file EXCEPT ![f] = x]
    BY <1>3, OpenFirst
  <2>2. Plan[run.gen][k] \in Files /\ run.v \in Versions
    BY <1>3, PlanFiles DEF Open, Running, NotRunning, GeneratorTypes
  <2>3. [v |-> run.v, whole |-> FALSE, hand |-> FALSE] \in FileState
    BY <2>2 DEF FileState
  <2> QED
    BY <1>2, <2>1, <2>2, <2>3
<1>4. CASE Close
  <2>1. PICK f \in Files : f = Plan[run.gen][run.k]
    BY <1>4, CloseFile
  <2>2. /\ [source[f] EXCEPT !.whole = TRUE] \in FileState
        /\ f = "client.h" => ~Exists("client.hpp")
        /\ file' = [file EXCEPT ![f] = [source[f] EXCEPT !.whole = TRUE]]
    BY <1>4, <2>1, CloseFile
  <2>3. f \in Copyright => ~[source[f] EXCEPT !.whole = TRUE].hand
    <3>1. SUFFICES ASSUME f \in Copyright
                   PROVE  ~[source[f] EXCEPT !.whole = TRUE].hand
      OBVIOUS
    <3>2. source[f] = file[f] /\ ~file[f].hand /\ source[f] \in FileState
      BY <3>1, SomeFiles, SkipsPresent, SourceTypes DEF HandInv
    <3> QED
      BY <3>2 DEF FileState, Absent
  <2> QED
    BY <1>2, <2>2, <2>3
<1>5. CASE Clean
  BY <1>5, CleanFiles, SomeFiles DEF HandInv, Exists, Absent, GeneratorTypes
<1>6. CASE EditCode
  <2>1. /\ \A f \in DOMAIN file : f \in Copyright => file'[f] = file[f]
        /\ \A f \in DOMAIN file : Exists(f)' <=> Exists(f)
    BY <1>6, EditFiles
  <2> QED
    BY <2>1, SomeFiles DEF HandInv, GeneratorTypes
<1>7. CASE RenameClientHeader
  BY <1>7, RenamedIsFound, SomeFiles DEF HandInv, Exists, Absent, GeneratorTypes
<1> QED
  BY <1>1, <1>3, <1>4, <1>5, <1>6, <1>7, StepKinds
     DEF Starts, Start, Finish, Die, EditProto, OnlyMakeMoves

\* Writing one file of a generator leaves its other files, and those of the other
\* generators, as they were.
LEMMA OthersStay ==
  ASSUME NEW g \in Gens, NEW k \in DOMAIN Plan[g], NEW x,
         source' = [source EXCEPT ![Plan[g][k]] = x]
  PROVE  /\ source'[Plan[g][k]] = x
         /\ \A h \in Gens : \A i \in DOMAIN Plan[h] :
              (h # g \/ i # k) => source'[Plan[h][i]] = source[Plan[h][i]]
<1>1. /\ DOMAIN source = Files /\ Plan[g][k] \in Files
      /\ \A h \in Gens : \A i \in DOMAIN Plan[h] : Plan[h][i] \in Files
  BY PlanFiles DEF source
<1>2. ASSUME NEW h \in Gens, NEW i \in DOMAIN Plan[h], h # g \/ i # k
      PROVE  Plan[h][i] # Plan[g][k]
  BY <1>2, PlanDistinct
<1> QED
  BY <1>1, <1>2

\* A generator that runs.
LEMMA RunTypes ==
  ASSUME GeneratorTypes, Running
  PROVE  /\ run \in [gen : Gens, v : Versions, k : Nat \ {0}, open : BOOLEAN]
         /\ Len(Plan[run.gen]) \in Nat /\ DOMAIN Plan[run.gen] = 1..Len(Plan[run.gen])
         /\ \A k \in DOMAIN Plan[run.gen] : Plan[run.gen][k] \in Files
         /\ run.v # 0
BY PlanFiles, ProtosAssumption DEF GeneratorTypes, Running, NotRunning, Versions

\* A generator goes on from what it has written.
LEMMA RunStep ==
  ASSUME GeneratorTypes, HandInv, RunInv, [Next]_vars
  PROVE  RunInv'
<1>1. ASSUME NEW g \in Gens, Starts(g)
      PROVE  RunInv'
  <2>1. run'.k = 1 /\ run'.open = FALSE
    BY <1>1 DEF Starts, Start
  <2> QED
    BY <2>1 DEF RunInv
<1>2. CASE Open
  <2>1. PICK k \in run.k..Len(Plan[run.gen]) :
           LET f == Plan[run.gen][k]
               x == [v |-> run.v, whole |-> FALSE, hand |-> FALSE] IN
           /\ \A j \in run.k..(k - 1) :
                 Present(Plan[run.gen][j]) /\ Plan[run.gen][j] \notin Copyright
           /\ run' = [run EXCEPT !.k = k, !.open = TRUE]
           /\ file' = [file EXCEPT ![f] = x]
           /\ source' = [source EXCEPT ![f] = x]
           /\ suspect' = suspect \union {run.gen}
    BY <1>2, OpenFirst
  <2>2. PICK g \in Gens : g = run.gen
    BY <1>2, RunTypes DEF Open
  <2>3. /\ Running /\ run \in [gen : Gens, v : Versions, k : Nat \ {0}, open : BOOLEAN]
        /\ DOMAIN Plan[g] = 1..Len(Plan[g]) /\ Len(Plan[g]) \in Nat
        /\ \A j \in DOMAIN Plan[g] : Plan[g][j] \in Files
    BY <1>2, <2>2, RunTypes DEF Open
  <2>4. /\ run'.gen = g /\ run'.v = run.v /\ run'.k = k /\ run'.open = TRUE
    BY ONLY <2>1, <2>2, <2>3
  <2>5. k \in DOMAIN Plan[g]
    BY ONLY <2>1, <2>2, <2>3
  <2>0. PICK x : x = [v |-> run.v, whole |-> FALSE, hand |-> FALSE]
    OBVIOUS
  <2>9. source' = [source EXCEPT ![Plan[g][k]] = x]
    BY <2>0, <2>1, <2>2
  <2>10. \A h \in Gens : \A i \in DOMAIN Plan[h] :
              (h # g \/ i # k) => source'[Plan[h][i]] = source[Plan[h][i]]
    BY <2>5, <2>9, OthersStay
  <2>6. ASSUME NEW j \in 1..(k - 1)
        PROVE  /\ source'[Plan[g][j]].v # 0
               /\ Plan[g][j] \in Copyright => source'[Plan[g][j]].v = run.v
    <3>1. j \in DOMAIN Plan[g] /\ j # k
      BY ONLY <2>3, <2>5
    <3>2. source'[Plan[g][j]] = source[Plan[g][j]]
      BY <2>10, <3>1
    <3>3. j \in 1..(run.k - 1) \/ j \in run.k..(k - 1)
      BY ONLY <2>3, <2>5
    <3>4. CASE j \in 1..(run.k - 1)
      BY <2>2, <2>3, <3>2, <3>4 DEF RunInv, Present
    <3>5. CASE j \in run.k..(k - 1)
      BY <2>1, <2>2, <3>2, <3>5 DEF Present
    <3> QED
      BY <3>3, <3>4, <3>5
  <2>7. file'[Plan[g][k]].v = run.v /\ g \in suspect'
    BY <2>1, <2>2, <2>3, <2>5 DEF GeneratorTypes
  <2> QED
    BY <2>4, <2>6, <2>7 DEF RunInv, Present
<1>3. CASE Close
  <2>1. PICK g \in Gens : g = run.gen
    BY <1>3, CloseFile
  <2>2. PICK k \in DOMAIN Plan[g] : k = run.k
    BY <1>3, <2>1, CloseFile, PlanFiles
  <2>3. /\ Running /\ run \in [gen : Gens, v : Versions, k : Nat \ {0}, open : BOOLEAN]
        /\ DOMAIN Plan[g] = 1..Len(Plan[g]) /\ Len(Plan[g]) \in Nat
        /\ \A j \in DOMAIN Plan[g] : Plan[g][j] \in Files
    BY <1>3, <2>1, RunTypes DEF Close
  <2>4. /\ run' = [run EXCEPT !.k = run.k + 1, !.open = FALSE]
        /\ source' = [source EXCEPT ![Plan[g][k]] = [source[Plan[g][k]] EXCEPT !.whole = TRUE]]
        /\ Plan[g][k] = "client.h" => ~Exists("client.hpp")
    BY <1>3, <2>1, <2>2, CloseFile
  <2>5. /\ run'.gen = g /\ run'.v = run.v /\ run'.k = k + 1 /\ run'.open = FALSE
    BY ONLY <2>1, <2>2, <2>3, <2>4
  <2>6. file[Plan[g][k]].v = run.v /\ run.v # 0
    BY <1>3, <2>1, <2>2, RunTypes DEF RunInv, Close
  <2>7. source[Plan[g][k]] = file[Plan[g][k]] /\ source[Plan[g][k]] \in FileState
    BY <2>3, <2>4, SourceTypes DEF source, ClientHeader
  <2>10. PICK x : x = [source[Plan[g][k]] EXCEPT !.whole = TRUE]
    OBVIOUS
  <2>12. source' = [source EXCEPT ![Plan[g][k]] = x]
    BY <2>4, <2>10
  <2>11. /\ source'[Plan[g][k]] = x
         /\ \A h \in Gens : \A i \in DOMAIN Plan[h] :
              (h # g \/ i # k) => source'[Plan[h][i]] = source[Plan[h][i]]
    BY <2>12, OthersStay
  <2>8. source'[Plan[g][k]].v = run.v
    BY <2>6, <2>7, <2>10, <2>11 DEF FileState, Absent
  <2>9. ASSUME NEW j \in 1..((k + 1) - 1)
        PROVE  /\ source'[Plan[g][j]].v # 0
               /\ Plan[g][j] \in Copyright => source'[Plan[g][j]].v = run.v
    <3>1. CASE j = k
      BY <2>6, <2>8, <3>1
    <3>2. CASE j # k
      <4>1. j \in DOMAIN Plan[g] /\ j \in 1..(run.k - 1)
        BY ONLY <2>2, <2>3, <3>2
      <4>2. source'[Plan[g][j]] = source[Plan[g][j]]
        BY <2>11, <3>2, <4>1
      <4> QED
        BY <2>1, <2>3, <4>1, <4>2 DEF RunInv, Present
    <3> QED
      BY <3>1, <3>2
  <2> QED
    BY <2>5, <2>9 DEF RunInv, Present
<1>4. CASE Finish \/ Die
  BY <1>4 DEF Finish, Die, NotRunning, RunInv, Running
<1>5. CASE Clean \/ EditCode \/ RenameClientHeader
  <2>1. ~Running'
    BY <1>5 DEF Clean, EditCode, RenameClientHeader, Running
  <2> QED
    BY <2>1 DEF RunInv
<1>6. CASE EditProto \/ OnlyMakeMoves
  <2>1. UNCHANGED <<file, run, suspect>>
    BY <1>6 DEF EditProto, OnlyMakeMoves
  <2>2. source' = source
    BY <2>1, SourceOfFile
  <2> QED
    BY <2>1, <2>2 DEF RunInv, Present, Running
<1> QED
  BY <1>1, <1>2, <1>3, <1>4, <1>5, <1>6, StepKinds

\* The files of the generators, however they change.
LEMMA FreshStep ==
  ASSUME GeneratorTypes, HandInv, RunInv, FreshInv, [Next]_vars
  PROVE  FreshInv'
<1>1. CASE UNCHANGED <<source, newer, suspect, proto>>
  BY <1>1 DEF FreshInv, Present
<1>2. CASE newer' = {}
  BY <1>2 DEF FreshInv
<1>3. ASSUME NEW g \in Gens, NEW k \in DOMAIN Plan[g], NEW x,
             source' = [source EXCEPT ![Plan[g][k]] = x], g \in suspect',
             suspect' = suspect \union {g}, proto' = proto,
             newer' = newer \union ({Plan[g][k]} \intersect Headers)
      PROVE  FreshInv'
  <2>0. \A h \in Gens : \A i \in DOMAIN Plan[h] :
           (h # g \/ i # k) => source'[Plan[h][i]] = source[Plan[h][i]]
    BY <1>3, OthersStay
  <2>1. SUFFICES ASSUME NEW h \in DOMAIN HeaderOf, HeaderOf[h] \in newer', h \notin suspect',
                        NEW i \in DOMAIN Plan[h]
                 PROVE  /\ source'[Plan[h][i]].v # 0
                        /\ Plan[h][i] \in Copyright => source'[Plan[h][i]].v = proto'
    BY DEF FreshInv, Present
  <2>2. h \in Gens /\ h # g /\ h \notin suspect /\ HeaderOf[h] = Plan[h][1] /\ 1 \in DOMAIN Plan[h]
    BY <1>3, <2>1, SomeFiles, PlanFiles
  <2>3. HeaderOf[h] # Plan[g][k]
    BY <2>2, PlanDistinct
  <2>4. HeaderOf[h] \in newer
    BY <1>3, <2>1, <2>3
  <2>5. source'[Plan[h][i]] = source[Plan[h][i]]
    BY <2>0, <2>2
  <2> QED
    BY <1>3, <2>1, <2>2, <2>4, <2>5 DEF FreshInv, Present
<1>4. CASE Open
  <2>1. PICK k \in run.k..Len(Plan[run.gen]) :
           LET f == Plan[run.gen][k]
               x == [v |-> run.v, whole |-> FALSE, hand |-> FALSE] IN
           /\ source' = [source EXCEPT ![f] = x]
           /\ newer' = newer \union ({f} \intersect Headers)
           /\ suspect' = suspect \union {run.gen}
    BY <1>4, OpenFirst
  <2>2. PICK g \in Gens : g = run.gen
    BY <1>4, RunTypes DEF Open
  <2>3. k \in DOMAIN Plan[g] /\ proto' = proto
    BY <1>4, <2>1, <2>2, RunTypes DEF Open
  <2> QED
    BY <1>3, <2>1, <2>2, <2>3
<1>5. CASE Close
  <2>1. PICK g \in Gens : g = run.gen
    BY <1>5, CloseFile
  <2>2. PICK k \in DOMAIN Plan[g] : k = run.k
    BY <1>5, <2>1, CloseFile, PlanFiles
  <2>3. PICK x : x = [source[Plan[g][k]] EXCEPT !.whole = TRUE]
    OBVIOUS
  <2>4. /\ source' = [source EXCEPT ![Plan[g][k]] = x]
        /\ newer' = newer \union ({Plan[g][k]} \intersect Headers)
    BY <1>5, <2>1, <2>2, <2>3, CloseFile
  <2>5. g \in suspect /\ suspect' = suspect /\ proto' = proto
    BY <1>5, <2>1 DEF RunInv, Close
  <2> QED
    BY <1>3, <2>4, <2>5
<1>6. CASE Finish
  <2>1. source' = source /\ newer' = newer /\ proto' = proto
    BY <1>6, SourceOfFile DEF Finish
  <2>2. PICK g \in Gens : g = run.gen
    BY <1>6, FinishAll
  <2>3. CASE run.v # proto
    BY <1>1, <1>6, <2>1, <2>3 DEF Finish
  <2>4. CASE run.v = proto
    <3>1. suspect' = suspect \ {g}
      BY <1>6, <2>2, <2>4 DEF Finish
    <3>2. SUFFICES ASSUME NEW h \in DOMAIN HeaderOf, HeaderOf[h] \in newer, h \notin suspect',
                          NEW i \in DOMAIN Plan[h]
                   PROVE  /\ source[Plan[h][i]].v # 0
                          /\ Plan[h][i] \in Copyright => source[Plan[h][i]].v = proto
      BY <2>1 DEF FreshInv, Present
    <3>3. CASE h = g
      BY <1>6, <2>2, <2>4, <3>2, <3>3, FinishAll DEF Present
    <3>4. CASE h # g
      BY <3>1, <3>2, <3>4 DEF FreshInv, Present
    <3> QED
      BY <3>3, <3>4
  <2> QED
    BY <2>3, <2>4
<1>7. CASE EditCode
  <2>1. PICK P \in {{"serviceimpl.h", "serviceimpl.cpp", "serverhandler.h", "serverhandler.cpp"},
                   {"client.h", "client.cpp"}, {"toolimpl.h", "toolimpl.cpp"}} :
           source' = [f \in Files |-> IF f \in P THEN [v |-> proto, whole |-> TRUE, hand |-> TRUE]
                                      ELSE source[f]]
    BY <1>7, EditFiles
  <2>2. UNCHANGED <<newer, suspect, proto>>
    BY <1>7 DEF EditCode
  <2>3. proto # 0
    BY ProtosAssumption DEF GeneratorTypes, Versions
  <2>4. \A h \in Gens : \A i \in DOMAIN Plan[h] : Plan[h][i] \in Files
    BY PlanFiles
  <2>5. ASSUME NEW f \in Files
        PROVE  /\ source[f].v # 0 => source'[f].v # 0
               /\ source[f].v = proto => source'[f].v = proto
    BY <2>1, <2>3
  <2> QED
    BY <2>2, <2>4, <2>5, SomeFiles DEF FreshInv, Present
<1>8. CASE RenameClientHeader
  BY <1>1, <1>8, RenamedIsFound DEF RenameClientHeader
<1>9. ASSUME NEW g \in Gens, Starts(g)
      PROVE  FreshInv'
  BY <1>1, <1>9, SourceOfFile DEF Starts, Start
<1>10. CASE Die \/ OnlyMakeMoves
  BY <1>1, <1>10, SourceOfFile DEF Die, OnlyMakeMoves
<1>11. CASE Clean \/ EditProto
  BY <1>2, <1>11 DEF Clean, EditProto
<1> QED
  BY <1>4, <1>5, <1>6, <1>7, <1>8, <1>9, <1>10, <1>11, StepKinds

\* At first there are no files, and no generator runs.
LEMMA InitTypes == Init => GeneratorTypes /\ HandInv /\ RunInv /\ FreshInv
<1> SUFFICES ASSUME Init PROVE GeneratorTypes /\ HandInv /\ RunInv /\ FreshInv
  OBVIOUS
<1>1. proto \in Versions
  BY ProtosAssumption DEF Init, Versions
<1>2. GeneratorTypes
  BY <1>1 DEF Init, GeneratorTypes, FileState
<1>3. HandInv
  BY SomeFiles DEF Init, HandInv, Absent, Exists
<1>4. RunInv /\ FreshInv
  BY DEF Init, RunInv, FreshInv, Running, NotRunning
<1> QED
  BY <1>2, <1>3, <1>4

\* A step keeps what is written by hand.
LEMMA HandKept ==
  ASSUME GeneratorTypes, HandInv, RunInv, [Next]_vars, NEW f \in DOMAIN file, file[f].hand
  PROVE  file'[f].hand \/ (f = "client.h" /\ file'["client.hpp"] = file[f])
<1>1. CASE file' = file
  BY <1>1
<1>2. file[f] \in FileState /\ file[f].v # 0 /\ f \notin Copyright
      /\ DOMAIN file = Files \union {"client.hpp"}
  BY ProtosAssumption DEF GeneratorTypes, FileState, Absent, HandInv, Versions
<1>3. CASE Open
  <2>1. PICK k \in run.k..Len(Plan[run.gen]) :
           LET h == Plan[run.gen][k]
               x == [v |-> run.v, whole |-> FALSE, hand |-> FALSE] IN
           /\ h \in Copyright \/ ~Present(h)
           /\ h = "client.h" => ~Exists("client.hpp")
           /\ file' = [file EXCEPT ![h] = x]
    BY <1>3, OpenFirst
  <2>2. PICK h \in Files : h = Plan[run.gen][k]
    BY <1>3, <2>1, RunTypes DEF Open
  <2>3. f # h
    BY <1>2, <2>1, <2>2 DEF Present, source, ClientHeader, Exists
  <2> QED
    BY <1>2, <2>1, <2>2, <2>3
<1>4. CASE Close
  <2>1. PICK h \in Files : h = Plan[run.gen][run.k]
    BY <1>4, CloseFile
  <2>2. /\ file' = [file EXCEPT ![h] = [source[h] EXCEPT !.whole = TRUE]]
        /\ h = "client.h" => ~Exists("client.hpp")
    BY <1>4, <2>1, CloseFile
  <2>3. source[h] = file[h]
    BY <2>2 DEF source, ClientHeader
  <2>4. CASE f = h
    BY <1>2, <2>2, <2>3, <2>4 DEF FileState, Absent
  <2>5. CASE f # h
    BY <1>2, <2>2, <2>5
  <2> QED
    BY <2>4, <2>5
<1>5. CASE Clean
  BY <1>2, <1>5, CleanFiles
<1>6. CASE EditCode
  BY <1>2, <1>6, EditFiles
<1>7. CASE RenameClientHeader
  <2>1. f # "client.hpp"
    BY <1>2, <1>7, RenamedIsFound DEF Exists
  <2> QED
    BY <1>7, <2>1, RenamedIsFound
<1> QED
  BY <1>1, <1>3, <1>4, <1>5, <1>6, <1>7, StepKinds
     DEF Starts, Start, Finish, Die, EditProto, OnlyMakeMoves

-----------------------------------------------------------------------------
(* What the renderers write *)

\* What each renderer is for.
LEMMA TextOf ==
  ASSUME NEW v \in Versions
  PROVE  LET s == Parse(v) IN
         /\ Rendered[v]["service.h"] = ServiceHpp(s)
         /\ Rendered[v]["service.cpp"] = ServiceCpp(s)
         /\ Rendered[v]["serviceimpl.h"] = ServiceImplHpp(s)
         /\ Rendered[v]["serviceimpl.cpp"] = ServiceImplCpp(s)
         /\ Rendered[v]["serverhandler.h"] = ServerHandlerHpp(s)
         /\ Rendered[v]["serverhandler.cpp"] = ServerHandlerCpp(s)
         /\ Rendered[v]["dispatcher.h"] = DispatcherHpp(s)
         /\ Rendered[v]["dispatcher.cpp"] = DispatcherCpp(s)
         /\ Rendered[v]["stub.h"] = StubHpp(s)
         /\ Rendered[v]["stub.cpp"] = StubCpp(s)
         /\ Rendered[v]["client.h"] = ClientHpp(s)
         /\ Rendered[v]["client.cpp"] = ClientCpp(s)
         /\ Rendered[v]["tool.h"] = ToolHpp(s)
         /\ Rendered[v]["tool.cpp"] = ToolCpp(s)
         /\ Rendered[v]["toolimpl.h"] = ToolImplHpp(s)
         /\ Rendered[v]["toolimpl.cpp"] = ToolImplCpp(s)
<1>1. PICK s : s = Parse(v)
  OBVIOUS
<1>2. Rendered[v] = Render(s)
  BY <1>1 DEF Rendered
<1>3. /\ "service.h" \in Files /\ "service.cpp" \in Files
      /\ "serviceimpl.h" \in Files /\ "serviceimpl.cpp" \in Files
      /\ "serverhandler.h" \in Files /\ "serverhandler.cpp" \in Files
      /\ "dispatcher.h" \in Files /\ "dispatcher.cpp" \in Files
      /\ "stub.h" \in Files /\ "stub.cpp" \in Files
      /\ "client.h" \in Files /\ "client.cpp" \in Files
      /\ "tool.h" \in Files /\ "tool.cpp" \in Files
      /\ "toolimpl.h" \in Files /\ "toolimpl.cpp" \in Files
  BY DEF Files, Proto2Client, Proto2Service, Proto2Tool
<1>4. /\ Render(s)["service.h"] = ServiceHpp(s)
      /\ Render(s)["service.cpp"] = ServiceCpp(s)
      /\ Render(s)["serviceimpl.h"] = ServiceImplHpp(s)
      /\ Render(s)["serviceimpl.cpp"] = ServiceImplCpp(s)
  BY <1>3 DEF Render
<1>5. /\ Render(s)["serverhandler.h"] = ServerHandlerHpp(s)
      /\ Render(s)["serverhandler.cpp"] = ServerHandlerCpp(s)
      /\ Render(s)["dispatcher.h"] = DispatcherHpp(s)
      /\ Render(s)["dispatcher.cpp"] = DispatcherCpp(s)
  BY <1>3 DEF Render
<1>6. /\ Render(s)["stub.h"] = StubHpp(s)
      /\ Render(s)["stub.cpp"] = StubCpp(s)
      /\ Render(s)["client.h"] = ClientHpp(s)
      /\ Render(s)["client.cpp"] = ClientCpp(s)
  BY <1>3 DEF Render
<1>7. /\ Render(s)["tool.h"] = ToolHpp(s)
      /\ Render(s)["tool.cpp"] = ToolCpp(s)
      /\ Render(s)["toolimpl.h"] = ToolImplHpp(s)
      /\ Render(s)["toolimpl.cpp"] = ToolImplCpp(s)
  BY <1>3 DEF Render
<1> QED
  BY <1>1, <1>2, <1>4, <1>5, <1>6, <1>7

\* The methods a file declares, defines and calls, by the version it was written
\* from.
LEMMA MethodsOf ==
  ASSUME NEW v \in Versions, NEW m, NEW n, NEW h, NEW c,
         m = Methods(Parse(v)), n = Names(Parse(v)),
         h = Handled(Parse(v)), c = ClientMethods(Parse(v))
  PROVE  /\ Rendered[v]["service.h"].decl = m /\ Rendered[v]["service.cpp"].def = m
         /\ Rendered[v]["serviceimpl.h"].decl = m /\ Rendered[v]["serviceimpl.cpp"].def = m
         /\ Rendered[v]["serviceimpl.cpp"].call = h
         /\ Rendered[v]["serverhandler.h"].decl = h
         /\ Rendered[v]["serverhandler.cpp"].def = h
         /\ Rendered[v]["dispatcher.h"].decl = n
         /\ Rendered[v]["dispatcher.cpp"].def = n /\ Rendered[v]["dispatcher.cpp"].call = m
         /\ Rendered[v]["stub.h"].decl = m /\ Rendered[v]["stub.cpp"].def = m
         /\ Rendered[v]["client.h"].decl = c /\ Rendered[v]["client.cpp"].def = c
         /\ Rendered[v]["client.cpp"].call \subseteq m /\ m \subseteq c
         /\ Rendered[v]["tool.h"].decl = n /\ Rendered[v]["tool.cpp"].def = n
         /\ {e.name : e \in Rendered[v]["tool.h"].table} \subseteq n
         /\ Rendered[v]["toolimpl.h"].decl = n /\ Rendered[v]["toolimpl.cpp"].def = n
         /\ Rendered[v]["toolimpl.cpp"].call = m
<1>1. PICK s : s = Parse(v)
  OBVIOUS
<1>2. m = Methods(s) /\ n = Names(s) /\ h = Handled(s) /\ c = ClientMethods(s)
  BY <1>1
<1>3. /\ ServiceHpp(s).decl = m /\ ServiceCpp(s).def = m
      /\ ServiceImplHpp(s).decl = m /\ ServiceImplCpp(s).def = m
      /\ ServiceImplCpp(s).call = h
  BY <1>2 DEF ServiceHpp, ServiceCpp, ServiceImplHpp, ServiceImplCpp, NoText
<1>4. /\ ServerHandlerHpp(s).decl = h /\ ServerHandlerCpp(s).def = h
      /\ DispatcherHpp(s).decl = n
      /\ DispatcherCpp(s).def = n /\ DispatcherCpp(s).call = m
  BY <1>2 DEF ServerHandlerHpp, ServerHandlerCpp, DispatcherHpp, DispatcherCpp,
              DispatcherFuncs, NoText
<1>5. /\ StubHpp(s).decl = m /\ StubCpp(s).def = m
      /\ ClientHpp(s).decl = c /\ ClientCpp(s).def = c
  BY <1>2 DEF StubHpp, StubCpp, ClientHpp, ClientCpp, NoText
<1>6. ClientCpp(s).call \subseteq m /\ m \subseteq c
  <2>1. ClientCpp(s).call = {ClientFunc(x) : x \in m} \union BatchClientFunc(s)
    BY <1>2 DEF ClientCpp, NoText
  <2>2. {ClientFunc(x) : x \in m} \subseteq m
    BY DEF ClientFunc
  <2>3. BatchClientFunc(s) \subseteq m
    BY <1>2 DEF BatchClientFunc
  <2>4. m \subseteq c
    BY <1>2 DEF ClientMethods
  <2> QED
    BY <2>1, <2>2, <2>3, <2>4
<1>7. /\ ToolHpp(s).decl = n /\ ToolCpp(s).def = n
      /\ ToolImplHpp(s).decl = n /\ ToolImplCpp(s).def = n /\ ToolImplCpp(s).call = m
  BY <1>2 DEF ToolHpp, ToolCpp, ToolImplHpp, ToolImplCpp, NoText
<1>8. {e.name : e \in ToolHpp(s).table} \subseteq n
  <2>1. ToolHpp(s).table \subseteq Entries(s)
    BY DEF ToolHpp, NoText
  <2>2. \A e \in Entries(s) : e.name \in n
    BY <1>2 DEF Entries, Names
  <2> QED
    BY <2>1, <2>2
<1>9. /\ Rendered[v]["service.h"] = ServiceHpp(s)
      /\ Rendered[v]["service.cpp"] = ServiceCpp(s)
      /\ Rendered[v]["serviceimpl.h"] = ServiceImplHpp(s)
      /\ Rendered[v]["serviceimpl.cpp"] = ServiceImplCpp(s)
      /\ Rendered[v]["serverhandler.h"] = ServerHandlerHpp(s)
      /\ Rendered[v]["serverhandler.cpp"] = ServerHandlerCpp(s)
      /\ Rendered[v]["dispatcher.h"] = DispatcherHpp(s)
      /\ Rendered[v]["dispatcher.cpp"] = DispatcherCpp(s)
      /\ Rendered[v]["stub.h"] = StubHpp(s)
      /\ Rendered[v]["stub.cpp"] = StubCpp(s)
      /\ Rendered[v]["client.h"] = ClientHpp(s)
      /\ Rendered[v]["client.cpp"] = ClientCpp(s)
      /\ Rendered[v]["tool.h"] = ToolHpp(s)
      /\ Rendered[v]["tool.cpp"] = ToolCpp(s)
      /\ Rendered[v]["toolimpl.h"] = ToolImplHpp(s)
      /\ Rendered[v]["toolimpl.cpp"] = ToolImplCpp(s)
  BY <1>1, TextOf
<1> QED
  BY <1>3, <1>4, <1>5, <1>6, <1>7, <1>8, <1>9

\* When both headers are new and their generators came to their end, stub and
\* dispatcher are of the version that is saved: they hold the same entries.
LEMMA FreshRoutesAgree ==
  ASSUME GeneratorTypes, FreshInv
  PROVE  RoutesAgree
<1>1. SUFFICES ASSUME {"stub.h", "service.h"} \subseteq newer,
                      suspect \intersect {"pb2client", "pb2service"} = {},
                      NEW e \in Text("stub.cpp").table
               PROVE  HttpDispatch(e) =
                         IF Signature(e) \in Methods(Parse(file["serviceimpl.cpp"].v))
                         THEN "implementation" ELSE "unimplemented"
  BY DEF RoutesAgree
<1>2. /\ Plan["pb2client"][2] = "stub.cpp" /\ 2 \in DOMAIN Plan["pb2client"]
      /\ Plan["pb2service"][4] = "serviceimpl.cpp" /\ 4 \in DOMAIN Plan["pb2service"]
      /\ Plan["pb2service"][8] = "dispatcher.cpp" /\ 8 \in DOMAIN Plan["pb2service"]
  BY DEF Plan, Proto2Client, Proto2Service
<1>3. /\ "pb2client" \in DOMAIN HeaderOf /\ "pb2service" \in DOMAIN HeaderOf
      /\ HeaderOf["pb2client"] = "stub.h" /\ HeaderOf["pb2service"] = "service.h"
      /\ "stub.cpp" \in Copyright /\ "dispatcher.cpp" \in Copyright
  BY DEF HeaderOf, Copyright
<1>4. /\ source["stub.cpp"].v = proto /\ source["dispatcher.cpp"].v = proto
      /\ Present("serviceimpl.cpp")
  BY <1>1, <1>2, <1>3 DEF FreshInv
<1>5. /\ "stub.cpp" \in Files /\ "dispatcher.cpp" \in Files /\ "serviceimpl.cpp" \in Files
  BY DEF Files, Proto2Client, Proto2Service
<1>6. /\ file["stub.cpp"].v = proto /\ file["dispatcher.cpp"].v = proto
      /\ file["serviceimpl.cpp"].v \in Versions /\ proto \in Versions
  BY <1>4, <1>5, SourceTypes DEF source, GeneratorTypes
<1>7. /\ Text("stub.cpp") = StubCpp(Parse(proto))
      /\ Text("dispatcher.cpp") = DispatcherCpp(Parse(proto))
      /\ Text("serviceimpl.cpp") = ServiceImplCpp(Parse(file["serviceimpl.cpp"].v))
  BY <1>6, TextOf DEF Text
<1>8. /\ Text("stub.cpp").table = Entries(Parse(proto))
      /\ Text("dispatcher.cpp").table = Entries(Parse(proto))
      /\ Text("serviceimpl.cpp").def = Methods(Parse(file["serviceimpl.cpp"].v))
  BY <1>7 DEF StubCpp, DispatcherCpp, DispatcherFuncs, URIFuncMap, ServiceImplCpp, NoText
<1>9. e \in Text("dispatcher.cpp").table
  BY <1>1, <1>8
<1> QED
  BY <1>8, <1>9 DEF HttpDispatch

-----------------------------------------------------------------------------
(* While no generator has died *)

\* No generator runs, and none writes.
LEMMA NoneRuns ==
  ASSUME GeneratorTypes, ~Running
  PROVE  run = NotRunning /\ run.open = FALSE /\ run.gen \notin Gens
BY DEF GeneratorTypes, Running, NotRunning, Gens

\* What Open does, in the words of the invariants.
LEMMA Opens ==
  ASSUME GeneratorTypes, HandInv, Open
  PROVE  \E g \in Gens : \E k \in DOMAIN Plan[g] : \E x \in FileState :
           /\ g = run.gen /\ Running /\ run.open = FALSE /\ run.k <= k /\ run.k \in Nat
           /\ x.v = run.v /\ run.v # 0
           /\ run'.gen = g /\ run'.v = run.v /\ run'.k = k /\ run'.open = TRUE
           /\ \A j \in DOMAIN Plan[g] : run.k <= j /\ j < k =>
                 Present(Plan[g][j]) /\ Plan[g][j] \notin Copyright
           /\ Plan[g][k] \in Copyright \/ ~Present(Plan[g][k])
           /\ source'[Plan[g][k]] = x
           /\ \A h \in Gens : \A i \in DOMAIN Plan[h] :
                (h # g \/ i # k) => source'[Plan[h][i]] = source[Plan[h][i]]
           /\ \A f \in Files : f # Plan[g][k] => source'[f] = source[f]
           /\ newer' = newer \union ({Plan[g][k]} \intersect Headers)
<1>1. PICK k \in run.k..Len(Plan[run.gen]) :
         LET f == Plan[run.gen][k]
             x == [v |-> run.v, whole |-> FALSE, hand |-> FALSE] IN
         /\ \A j \in run.k..(k - 1) :
               Present(Plan[run.gen][j]) /\ Plan[run.gen][j] \notin Copyright
         /\ f \in Copyright \/ ~Present(f)
         /\ run' = [run EXCEPT !.k = k, !.open = TRUE]
         /\ source' = [source EXCEPT ![f] = x]
         /\ newer' = newer \union ({f} \intersect Headers)
  BY OpenFirst
<1>2. PICK g \in Gens : g = run.gen
  BY RunTypes DEF Open
<1>3. /\ Running /\ run \in [gen : Gens, v : Versions, k : Nat \ {0}, open : BOOLEAN]
      /\ DOMAIN Plan[g] = 1..Len(Plan[g]) /\ Len(Plan[g]) \in Nat
      /\ \A j \in DOMAIN Plan[g] : Plan[g][j] \in Files
      /\ run.v # 0 /\ run.open = FALSE
  BY <1>2, RunTypes DEF Open
<1>4. k \in DOMAIN Plan[g] /\ run.k <= k /\ run.k \in Nat /\ k \in Nat
  BY ONLY <1>1, <1>2, <1>3
<1>5. run'.gen = g /\ run'.v = run.v /\ run'.k = k /\ run'.open = TRUE
  BY ONLY <1>1, <1>2, <1>3
<1>6. PICK x \in FileState : x = [v |-> run.v, whole |-> FALSE, hand |-> FALSE]
  BY <1>3 DEF FileState
<1>7. source' = [source EXCEPT ![Plan[g][k]] = x]
  BY <1>1, <1>2, <1>6
<1>8. /\ source'[Plan[g][k]] = x
      /\ \A h \in Gens : \A i \in DOMAIN Plan[h] :
              (h # g \/ i # k) => source'[Plan[h][i]] = source[Plan[h][i]]
  BY <1>4, <1>7, OthersStay
<1>9. \A f \in Files : f # Plan[g][k] => source'[f] = source[f]
  BY <1>7 DEF source
<1>10. ASSUME NEW j \in DOMAIN Plan[g], run.k <= j, j < k
       PROVE  Present(Plan[g][j]) /\ Plan[g][j] \notin Copyright
  <2>1. j \in run.k..(k - 1)
    BY <1>3, <1>4, <1>10
  <2> QED
    BY <1>1, <1>2, <2>1
<1>11. /\ Plan[g][k] \in Copyright \/ ~Present(Plan[g][k])
       /\ newer' = newer \union ({Plan[g][k]} \intersect Headers)
  BY <1>1, <1>2
<1>12. x.v = run.v
  BY <1>6
<1> QED
  BY <1>2, <1>3, <1>4, <1>5, <1>8, <1>9, <1>10, <1>11, <1>12

\* What Close does.
LEMMA Closes ==
  ASSUME GeneratorTypes, HandInv, RunInv, Close
  PROVE  \E g \in Gens : \E k \in DOMAIN Plan[g] :
           /\ g = run.gen /\ k = run.k /\ run.open = TRUE /\ Running
           /\ run'.gen = g /\ run'.v = run.v /\ run'.k = k + 1 /\ run'.open = FALSE
           /\ source'[Plan[g][k]].v = source[Plan[g][k]].v
           /\ source'[Plan[g][k]].whole
           /\ \A h \in Gens : \A i \in DOMAIN Plan[h] :
                (h # g \/ i # k) => source'[Plan[h][i]] = source[Plan[h][i]]
           /\ \A f \in Files : f # Plan[g][k] => source'[f] = source[f]
           /\ newer' = newer \union ({Plan[g][k]} \intersect Headers)
           /\ source[Plan[g][k]].v = run.v /\ run.v # 0
<1>1. PICK g \in Gens : g = run.gen
  BY CloseFile
<1>2. PICK k \in DOMAIN Plan[g] : k = run.k
  BY <1>1, CloseFile, PlanFiles
<1>3. /\ Running /\ run \in [gen : Gens, v : Versions, k : Nat \ {0}, open : BOOLEAN]
      /\ run.open = TRUE /\ run.v # 0 /\ Plan[g][k] \in Files
  BY <1>1, RunTypes DEF Close
<1>4. PICK x : x = [source[Plan[g][k]] EXCEPT !.whole = TRUE]
  OBVIOUS
<1>5. /\ run' = [run EXCEPT !.k = run.k + 1, !.open = FALSE]
      /\ source' = [source EXCEPT ![Plan[g][k]] = x]
      /\ newer' = newer \union ({Plan[g][k]} \intersect Headers)
      /\ Plan[g][k] = "client.h" => ~Exists("client.hpp")
  BY <1>1, <1>2, <1>4, CloseFile
<1>6. run'.gen = g /\ run'.v = run.v /\ run'.k = k + 1 /\ run'.open = FALSE
  BY ONLY <1>1, <1>2, <1>3, <1>5
<1>7. source' = [source EXCEPT ![Plan[g][k]] = x]
  BY <1>5
<1>8. /\ source'[Plan[g][k]] = x
      /\ \A h \in Gens : \A i \in DOMAIN Plan[h] :
              (h # g \/ i # k) => source'[Plan[h][i]] = source[Plan[h][i]]
  BY <1>7, OthersStay
<1>9. \A f \in Files : f # Plan[g][k] => source'[f] = source[f]
  BY <1>7 DEF source
<1>10. source[Plan[g][k]] = file[Plan[g][k]] /\ source[Plan[g][k]] \in FileState
  BY <1>3, <1>5, SourceTypes DEF source, ClientHeader
<1>11. source[Plan[g][k]].v = run.v
  BY <1>1, <1>2, <1>3, <1>10 DEF RunInv
<1>12. x.v = source[Plan[g][k]].v /\ x.whole
  BY <1>4, <1>10 DEF FileState, Absent
<1> QED
  BY <1>1, <1>2, <1>3, <1>5, <1>6, <1>8, <1>9, <1>11, <1>12

\* Unless it dies, a generator closes what it opened.
LEMMA WholeStep ==
  ASSUME GeneratorTypes, HandInv, RunInv, WholeInv, [Next]_vars, ~Die
  PROVE  WholeInv'
<1>1. CASE UNCHANGED <<source, run>>
  BY <1>1 DEF WholeInv, Present
<1>2. CASE source' = source /\ run.open = FALSE
  BY <1>2 DEF WholeInv, Present
<1>3. CASE Open
  <2>1. PICK g \in Gens : \E k \in DOMAIN Plan[g] :
           /\ run.open = FALSE
           /\ run'.gen = g /\ run'.k = k /\ run'.open = TRUE
           /\ \A f \in Files : f # Plan[g][k] => source'[f] = source[f]
    BY <1>3, Opens
  <2> QED
    BY <2>1 DEF WholeInv, Present
<1>4. CASE Close
  <2>1. PICK g \in Gens : \E k \in DOMAIN Plan[g] :
           /\ g = run.gen /\ k = run.k
           /\ source'[Plan[g][k]].whole
           /\ \A f \in Files : f # Plan[g][k] => source'[f] = source[f]
    BY <1>4, Closes
  <2> QED
    BY <2>1 DEF WholeInv, Present
<1>5. CASE Clean
  <2>1. \A f \in Files : source'[f] = Absent \/ source'[f] = source[f]
    BY <1>5, CleanFiles
  <2>2. run' = run
    BY <1>5 DEF Clean
  <2> QED
    BY <2>1, <2>2 DEF WholeInv, Present, Absent
<1>6. CASE EditCode
  <2>1. \A f \in Files : source'[f].whole \/ source'[f] = source[f]
    BY <1>6, EditFiles
  <2>2. run' = run
    BY <1>6 DEF EditCode
  <2> QED
    BY <2>1, <2>2 DEF WholeInv, Present
<1>7. CASE RenameClientHeader
  BY <1>1, <1>7, RenamedIsFound DEF RenameClientHeader
<1>8. ASSUME NEW g \in Gens, Starts(g)
      PROVE  WholeInv'
  BY <1>2, <1>8, SourceOfFile, NoneRuns DEF Starts, Start
<1>9. CASE Finish
  BY <1>2, <1>9, SourceOfFile, RunTypes DEF Finish
<1>10. CASE EditProto \/ OnlyMakeMoves
  BY <1>1, <1>10, SourceOfFile DEF EditProto, OnlyMakeMoves
<1> QED
  BY <1>3, <1>4, <1>5, <1>6, <1>7, <1>8, <1>9, <1>10, StepKinds

\* Unless it dies, a generator leaves all its files behind.
LEMMA PresentStep ==
  ASSUME GeneratorTypes, HandInv, RunInv, PresentInv, [Next]_vars, ~Die
  PROVE  PresentInv'
<1>1. \A g \in Gens : \A i \in DOMAIN Plan[g] : Plan[g][i] \in Files
  BY PlanFiles
<1>2. CASE UNCHANGED <<source, run>>
  BY <1>2 DEF PresentInv, Present
<1>3. ASSUME NEW g \in Gens, run'.gen = g, source' = source, run.gen \notin Gens
      PROVE  PresentInv'
  BY <1>3 DEF PresentInv, Present
<1>4. ASSUME NEW g \in Gens, NEW k \in DOMAIN Plan[g], run.gen = g, run'.gen = g,
             \A h \in Gens : \A i \in DOMAIN Plan[h] :
                (h # g \/ i # k) => source'[Plan[h][i]] = source[Plan[h][i]]
      PROVE  PresentInv'
  BY <1>4 DEF PresentInv, Present
<1>5. CASE Open
  BY <1>4, <1>5, Opens
<1>6. CASE Close
  BY <1>4, <1>6, Closes
<1>7. CASE Finish
  <2>1. /\ run.gen \in Gens
        /\ \A k \in DOMAIN Plan[run.gen] : Present(Plan[run.gen][k])
    BY <1>7, FinishAll
  <2>2. source' = source
    BY <1>7, SourceOfFile DEF Finish
  <2> QED
    BY <2>1, <2>2 DEF PresentInv, Present
<1>8. CASE Clean
  <2>1. /\ run' = run
        /\ \A f \in Files : source'[f] = IF f \in Copyright THEN Absent ELSE source[f]
    BY <1>8, CleanFiles DEF Clean
  <2> QED
    BY <1>1, <2>1 DEF PresentInv, Present, Absent
<1>9. CASE EditCode
  <2>1. proto # 0
    BY ProtosAssumption DEF GeneratorTypes, Versions
  <2>2. /\ run' = run
        /\ \A f \in Files : source'[f].v # 0 <=> source[f].v # 0
    BY <1>9, <2>1, EditFiles DEF EditCode, Present
  <2> QED
    BY <1>1, <2>2 DEF PresentInv, Present
<1>10. CASE RenameClientHeader
  BY <1>2, <1>10, RenamedIsFound DEF RenameClientHeader
<1>11. ASSUME NEW g \in Gens, Starts(g)
       PROVE  PresentInv'
  BY <1>3, <1>11, SourceOfFile, NoneRuns DEF Starts, Start
<1>12. CASE EditProto \/ OnlyMakeMoves
  BY <1>2, <1>12, SourceOfFile DEF EditProto, OnlyMakeMoves
<1> QED
  BY <1>5, <1>6, <1>7, <1>8, <1>9, <1>10, <1>11, <1>12, StepKinds

\* The files that are edited together are not rewritten.
LEMMA KeptFiles ==
  ASSUME NEW g \in Gens
  PROVE  /\ Kept[g] \subseteq DOMAIN Plan[g]
         /\ \A k \in Kept[g] : k \in Nat /\ k >= 1 /\ Plan[g][k] \notin Copyright
<1>1. /\ Plan["pb2client"] = Proto2Client /\ Plan["pb2service"] = Proto2Service
      /\ Plan["pb2server"] = Proto2Server /\ Plan["pb2tool"] = Proto2Tool
  BY DEF Plan
<1>2. /\ Kept["pb2client"] = {3, 4} /\ Kept["pb2service"] = 3..6
      /\ Kept["pb2server"] = {} /\ Kept["pb2tool"] = {3, 4}
  BY DEF Kept
<1>3. /\ Proto2Client[3] = "client.h" /\ Proto2Client[4] = "client.cpp"
      /\ Proto2Tool[3] = "toolimpl.h" /\ Proto2Tool[4] = "toolimpl.cpp"
      /\ {3, 4} \subseteq DOMAIN Proto2Client /\ {3, 4} \subseteq DOMAIN Proto2Tool
  BY DEF Proto2Client, Proto2Tool
<1>4. /\ Proto2Service[3] = "serviceimpl.h" /\ Proto2Service[4] = "serviceimpl.cpp"
      /\ Proto2Service[5] = "serverhandler.h" /\ Proto2Service[6] = "serverhandler.cpp"
      /\ 3..6 \subseteq DOMAIN Proto2Service
  BY DEF Proto2Service
<1>5. CASE g = "pb2service"
  <2>1. \A k \in 3..6 : k = 3 \/ k = 4 \/ k = 5 \/ k = 6
    OBVIOUS
  <2> QED
    BY <1>1, <1>2, <1>4, <1>5, <2>1 DEF Copyright
<1>6. CASE g \in {"pb2client", "pb2tool", "pb2server"}
  BY <1>1, <1>2, <1>3, <1>6 DEF Copyright
<1> QED
  BY <1>5, <1>6 DEF Gens

\* Files that belong together are edited together.
LEMMA EditedTogether ==
  ASSUME NEW g \in Gens,
         NEW P \in {{"serviceimpl.h", "serviceimpl.cpp", "serverhandler.h", "serverhandler.cpp"},
                    {"client.h", "client.cpp"}, {"toolimpl.h", "toolimpl.cpp"}}
  PROVE  /\ P \subseteq Files
         /\ \A f \in P : f \notin Copyright
         /\ \/ \A k \in Kept[g] : Plan[g][k] \in P
            \/ \A k \in Kept[g] : Plan[g][k] \notin P
<1>1. /\ Plan["pb2client"] = Proto2Client /\ Plan["pb2service"] = Proto2Service
      /\ Plan["pb2tool"] = Proto2Tool
  BY DEF Plan
<1>2. /\ Kept["pb2client"] = {3, 4} /\ Kept["pb2service"] = 3..6
      /\ Kept["pb2server"] = {} /\ Kept["pb2tool"] = {3, 4}
  BY DEF Kept
<1>3. /\ Proto2Client[3] = "client.h" /\ Proto2Client[4] = "client.cpp"
      /\ Proto2Tool[3] = "toolimpl.h" /\ Proto2Tool[4] = "toolimpl.cpp"
  BY DEF Proto2Client, Proto2Tool
<1>4. \A k \in 3..6 : Proto2Service[k] \in
                        {"serviceimpl.h", "serviceimpl.cpp", "serverhandler.h", "serverhandler.cpp"}
  <2>1. \A k \in 3..6 : k = 3 \/ k = 4 \/ k = 5 \/ k = 6
    OBVIOUS
  <2> QED
    BY <2>1 DEF Proto2Service
<1>5. P \subseteq Files /\ \A f \in P : f \notin Copyright
  BY DEF Files, Proto2Client, Proto2Service, Proto2Tool, Copyright
<1>6. PICK own : \A k \in Kept[g] : Plan[g][k] \in own /\ own \in
         {{"serviceimpl.h", "serviceimpl.cpp", "serverhandler.h", "serverhandler.cpp"},
          {"client.h", "client.cpp"}, {"toolimpl.h", "toolimpl.cpp"}}
  <2>1. CASE g = "pb2service"
    BY <1>1, <1>2, <1>4, <2>1
  <2>2. CASE g = "pb2client"
    BY <1>1, <1>2, <1>3, <2>2
  <2>3. CASE g = "pb2tool"
    BY <1>1, <1>2, <1>3, <2>3
  <2>4. CASE g = "pb2server"
    BY <1>2, <2>4
  <2> QED
    BY <2>1, <2>2, <2>3, <2>4 DEF Gens
<1>7. CASE own = P
  BY <1>5, <1>6, <1>7
<1>8. CASE own # P
  <2>1. ASSUME NEW k \in Kept[g]
        PROVE  Plan[g][k] \notin P
    BY <1>6, <1>8
  <2> QED
    BY <1>5, <2>1
<1> QED
  BY <1>7, <1>8

\* Unless a generator dies, what belongs together stays of one version.
LEMMA VersionStep ==
  ASSUME GeneratorTypes, HandInv, RunInv, VersionInv, [Next]_vars, ~Die
  PROVE  VersionInv'
<1>1. \A g \in Gens : \A i \in DOMAIN Plan[g] : Plan[g][i] \in Files
  BY PlanFiles
<1>2. \A g \in Gens : \A i \in Kept[g] : i \in DOMAIN Plan[g] /\ i \in Nat /\ i >= 1
  BY KeptFiles
<1>3. CASE UNCHANGED <<source, run>>
  BY <1>3 DEF VersionInv, Present, Agree
<1>4. ASSUME NEW g \in Gens, NEW k \in DOMAIN Plan[g], run.gen = g, run'.gen = g,
             \A h \in Gens : \A i \in DOMAIN Plan[h] :
                (h # g \/ i # k) => source'[Plan[h][i]] = source[Plan[h][i]],
             \/ /\ Agree(g, Kept[g])'
                /\ \A i \in Kept[g] : source'[Plan[g][i]].v # 0
             \/ \A i \in Kept[g] : source'[Plan[g][i]].v =
                   IF i < run'.k \/ (i = run'.k /\ run'.open) THEN run'.v ELSE 0
      PROVE  VersionInv'
  <2>1. ASSUME NEW h \in Gens, h # g
        PROVE  Agree(h, Rewritten(h))' /\ Agree(h, Kept[h])'
    <3>1. Agree(h, Rewritten(h)) /\ Agree(h, Kept[h])
      BY <1>4, <2>1 DEF VersionInv
    <3>2. \A i \in DOMAIN Plan[h] : source'[Plan[h][i]] = source[Plan[h][i]]
      BY <1>4, <2>1
    <3> QED
      BY <1>2, <3>1, <3>2 DEF Agree, Rewritten
  <2> QED
    BY <1>4, <2>1 DEF VersionInv, Present
<1>5. CASE Open
  <2>1. PICK g \in Gens : \E k \in DOMAIN Plan[g] : \E x \in FileState :
           /\ g = run.gen /\ run.open = FALSE /\ run.k <= k /\ run.k \in Nat
           /\ x.v = run.v
           /\ run'.gen = g /\ run'.v = run.v /\ run'.k = k /\ run'.open = TRUE
           /\ \A j \in DOMAIN Plan[g] : run.k <= j /\ j < k =>
                 Present(Plan[g][j]) /\ Plan[g][j] \notin Copyright
           /\ Plan[g][k] \in Copyright \/ ~Present(Plan[g][k])
           /\ source'[Plan[g][k]] = x
           /\ \A h \in Gens : \A i \in DOMAIN Plan[h] :
                (h # g \/ i # k) => source'[Plan[h][i]] = source[Plan[h][i]]
    BY <1>5, Opens
  <2>2. PICK k \in DOMAIN Plan[g] :
           /\ g = run.gen /\ run.open = FALSE /\ run.k <= k /\ run.k \in Nat
           /\ source'[Plan[g][k]].v = run.v
           /\ run'.gen = g /\ run'.v = run.v /\ run'.k = k /\ run'.open = TRUE
           /\ \A j \in DOMAIN Plan[g] : run.k <= j /\ j < k => Present(Plan[g][j])
           /\ Plan[g][k] \in Copyright \/ ~Present(Plan[g][k])
           /\ \A h \in Gens : \A i \in DOMAIN Plan[h] :
                (h # g \/ i # k) => source'[Plan[h][i]] = source[Plan[h][i]]
    BY <2>1
  <2>3. k \in Nat
    BY PlanFiles
  <2>4. CASE Agree(g, Kept[g]) /\ \A i \in Kept[g] : Present(Plan[g][i])
    <3>1. k \notin Kept[g]
      BY <2>2, <2>4, KeptFiles
    <3>2. \A i \in Kept[g] : source'[Plan[g][i]] = source[Plan[g][i]]
      BY <1>2, <2>2, <3>1
    <3>3. Agree(g, Kept[g])' /\ \A i \in Kept[g] : source'[Plan[g][i]].v # 0
      BY <2>4, <3>2 DEF Agree, Present
    <3> QED
      BY <1>4, <2>2, <3>3
  <2>5. CASE \A i \in Kept[g] : source[Plan[g][i]].v =
                   IF i < run.k \/ (i = run.k /\ run.open) THEN run.v ELSE 0
    <3>1. ASSUME NEW i \in Kept[g]
          PROVE  source'[Plan[g][i]].v =
                   IF i < run'.k \/ (i = run'.k /\ run'.open) THEN run'.v ELSE 0
      <4>1. i \in DOMAIN Plan[g] /\ i \in Nat
        BY <1>2
      <4>2. CASE i = k
        BY <2>2, <4>2
      <4>3. CASE i # k
        <5>1. source'[Plan[g][i]] = source[Plan[g][i]]
          BY <2>2, <4>1, <4>3
        <5>2. run.k <= i /\ i < k => source[Plan[g][i]].v # 0
          BY <2>2, <4>1 DEF Present
        <5> QED
          BY <2>2, <2>3, <2>5, <4>1, <4>3, <5>1, <5>2
      <4> QED
        BY <4>2, <4>3
    <3> QED
      BY <1>4, <2>2, <3>1
  <2> QED
    BY <2>2, <2>4, <2>5 DEF VersionInv
<1>6. CASE Close
  <2>1. PICK g \in Gens : \E k \in DOMAIN Plan[g] :
           /\ g = run.gen /\ k = run.k /\ run.open = TRUE
           /\ run'.gen = g /\ run'.v = run.v /\ run'.k = k + 1 /\ run'.open = FALSE
           /\ source'[Plan[g][k]].v = source[Plan[g][k]].v
           /\ \A h \in Gens : \A i \in DOMAIN Plan[h] :
                (h # g \/ i # k) => source'[Plan[h][i]] = source[Plan[h][i]]
    BY <1>6, Closes
  <2>2. PICK k \in DOMAIN Plan[g] :
           /\ k = run.k /\ run.open = TRUE
           /\ run'.gen = g /\ run'.v = run.v /\ run'.k = k + 1 /\ run'.open = FALSE
           /\ source'[Plan[g][k]].v = source[Plan[g][k]].v
           /\ \A h \in Gens : \A i \in DOMAIN Plan[h] :
                (h # g \/ i # k) => source'[Plan[h][i]] = source[Plan[h][i]]
    BY <2>1
  <2>3. k \in Nat
    BY PlanFiles
  <2>4. \A i \in Kept[g] : source'[Plan[g][i]].v = source[Plan[g][i]].v
    BY <1>2, <2>2
  <2>5. \A i \in Kept[g] : i < k + 1 <=> i < k \/ i = k
    BY <1>2, <2>3
  <2>6. \/ /\ Agree(g, Kept[g])'
           /\ \A i \in Kept[g] : source'[Plan[g][i]].v # 0
        \/ \A i \in Kept[g] : source'[Plan[g][i]].v =
              IF i < run'.k \/ (i = run'.k /\ run'.open) THEN run'.v ELSE 0
    <3>1. CASE Agree(g, Kept[g]) /\ \A i \in Kept[g] : Present(Plan[g][i])
      BY <2>4, <3>1 DEF Agree, Present
    <3>2. CASE \A i \in Kept[g] : source[Plan[g][i]].v =
                   IF i < run.k \/ (i = run.k /\ run.open) THEN run.v ELSE 0
      BY <2>2, <2>4, <2>5, <3>2
    <3> QED
      BY <2>1, <3>1, <3>2 DEF VersionInv
  <2> QED
    BY <1>4, <2>1, <2>2, <2>6
<1>7. CASE Finish
  <2>1. PICK g \in Gens : g = run.gen
    BY <1>7, FinishAll
  <2>2. /\ \A k \in DOMAIN Plan[g] :
             /\ Present(Plan[g][k])
             /\ Plan[g][k] \in Copyright => source[Plan[g][k]].v = run.v
        /\ source' = source /\ run'.gen \notin Gens
    BY <1>7, <2>1, FinishAll, SourceOfFile DEF Finish, NotRunning, Gens
  <2>3. Agree(g, Rewritten(g))
    BY <2>2 DEF Agree, Rewritten
  <2>4. Agree(g, Kept[g])
    BY <1>2, <2>1, <2>2 DEF Agree, VersionInv, Present
  <2>5. \A h \in Gens : Agree(h, Rewritten(h)) /\ Agree(h, Kept[h])
    BY <2>1, <2>3, <2>4 DEF VersionInv
  <2> QED
    BY <2>2, <2>5 DEF VersionInv, Agree
<1>8. CASE Clean
  <2>1. /\ run' = run /\ run.gen \notin Gens
        /\ \A f \in Files : source'[f] = IF f \in Copyright THEN Absent ELSE source[f]
    BY <1>8, CleanFiles, NoneRuns DEF Clean
  <2>2. ASSUME NEW h \in Gens
        PROVE  Agree(h, Rewritten(h))' /\ Agree(h, Kept[h])'
    <3>1. Agree(h, Kept[h])
      BY <2>1 DEF VersionInv
    <3>2. \A i \in Kept[h] : source'[Plan[h][i]] = source[Plan[h][i]]
      BY <1>1, <2>1, KeptFiles
    <3>3. Agree(h, Kept[h])'
      BY <3>1, <3>2 DEF Agree
    <3>4. Agree(h, Rewritten(h))'
      BY <1>1, <2>1 DEF Agree, Rewritten
    <3> QED
      BY <3>3, <3>4
  <2> QED
    BY <2>1, <2>2 DEF VersionInv
<1>9. CASE EditCode
  <2>1. PICK P \in {{"serviceimpl.h", "serviceimpl.cpp", "serverhandler.h", "serverhandler.cpp"},
                   {"client.h", "client.cpp"}, {"toolimpl.h", "toolimpl.cpp"}} :
           source' = [f \in Files |-> IF f \in P THEN [v |-> proto, whole |-> TRUE, hand |-> TRUE]
                                      ELSE source[f]]
    BY <1>9, EditFiles
  <2>2. run' = run /\ run.gen \notin Gens
    BY <1>9, NoneRuns DEF EditCode
  <2>3. /\ \A f \in Files : f \in P => source'[f].v = proto
        /\ \A f \in Files : f \notin P => source'[f] = source[f]
    BY <2>1
  <2>4. ASSUME NEW h \in Gens
        PROVE  Agree(h, Rewritten(h))' /\ Agree(h, Kept[h])'
    <3>1. Agree(h, Kept[h]) /\ Agree(h, Rewritten(h))
      BY <2>2 DEF VersionInv
    <3>2. \A i \in Kept[h] : Plan[h][i] \in Files
      BY <1>1, <1>2
    <3>3. (\A i \in Kept[h] : Plan[h][i] \in P) => Agree(h, Kept[h])'
      BY <2>3, <3>2 DEF Agree
    <3>4. (\A i \in Kept[h] : Plan[h][i] \notin P) => Agree(h, Kept[h])'
      BY <2>3, <3>1, <3>2 DEF Agree
    <3>5. Agree(h, Kept[h])'
      BY <3>3, <3>4, EditedTogether
    <3>6. \A i \in Rewritten(h) : source'[Plan[h][i]] = source[Plan[h][i]]
      BY <1>1, <2>3, EditedTogether DEF Rewritten
    <3>7. Agree(h, Rewritten(h))'
      BY <3>1, <3>6 DEF Agree, Rewritten
    <3> QED
      BY <3>5, <3>7
  <2> QED
    BY <2>2, <2>4 DEF VersionInv
<1>10. CASE RenameClientHeader
  BY <1>3, <1>10, RenamedIsFound DEF RenameClientHeader
<1>11. ASSUME NEW g \in Gens, Starts(g)
       PROVE  VersionInv'
  <2>1. /\ run.gen \notin Gens /\ source' = source
        /\ run'.gen = g /\ run'.k = 1 /\ run'.open = FALSE
    BY <1>11, SourceOfFile, NoneRuns DEF Starts, Start
  <2>2. \A h \in Gens : Agree(h, Rewritten(h)) /\ Agree(h, Kept[h])
    BY <2>1 DEF VersionInv
  <2>3. \A i \in Kept[g] : ~(i < 1)
    BY <1>2
  <2>4. \/ \A i \in Kept[g] : source[Plan[g][i]].v # 0
        \/ \A i \in Kept[g] : source[Plan[g][i]].v = 0
    BY <2>2 DEF Agree
  <2> QED
    BY <2>1, <2>2, <2>3, <2>4 DEF VersionInv, Agree, Present, Rewritten
<1>12. CASE EditProto \/ OnlyMakeMoves
  BY <1>3, <1>12, SourceOfFile DEF EditProto, OnlyMakeMoves
<1> QED
  BY <1>5, <1>6, <1>7, <1>8, <1>9, <1>10, <1>11, <1>12, StepKinds

\* Unless a generator dies, make has found or written what it builds from.
LEMMA MakeStep ==
  ASSUME GeneratorTypes, HandInv, RunInv, MakeInv, [Next]_vars, ~Die
  PROVE  MakeInv'
<1>1. newer \subseteq Files /\ {"Makefile", "stub.h", "service.h", "tool.h"} \subseteq Files
  BY SomeFiles DEF GeneratorTypes, Files, Proto2Client, Proto2Service, Proto2Server, Proto2Tool
\* What exists stays while make runs, and make goes no further.
<1>2. ASSUME \A f \in Files : Present(f) => source'[f].v # 0,
             \A h \in newer' \ newer : source'[h].v # 0,
             make' = make \/ make' = 0,
             Running' /\ make' \in 1..6 => make \in {1, 3, 5} /\ run'.gen = MakeSteps[make]
      PROVE  MakeInv'
  <2>1. \A h \in newer' : source'[h].v # 0
    BY <1>1, <1>2 DEF MakeInv
  <2>2. CASE make' = 0
    BY <2>1, <2>2 DEF MakeInv, MakeRuns, Present
  <2>3. CASE make' = make
    BY <1>1, <1>2, <2>1, <2>3 DEF MakeInv, MakeRuns, Present
  <2> QED
    BY <1>2, <2>2, <2>3
<1>3. ASSUME NEW g \in Gens, Starts(g)
      PROVE  MakeInv'
  <2>1. source' = source /\ newer' = newer /\ make' = make /\ run'.gen = g
    BY <1>3, SourceOfFile DEF Starts, Start
  <2>2. make \in 1..6 => make \in {1, 3, 5} /\ g = MakeSteps[make]
    BY <1>3 DEF Starts, MakeRuns
  <2> QED
    BY <1>2, <2>1, <2>2 DEF Present
<1>4. CASE Open
  <2>1. PICK g \in Gens : \E k \in DOMAIN Plan[g] : \E x \in FileState :
           /\ g = run.gen /\ Running /\ x.v = run.v /\ run.v # 0
           /\ run'.gen = g
           /\ source'[Plan[g][k]] = x
           /\ \A f \in Files : f # Plan[g][k] => source'[f] = source[f]
           /\ newer' = newer \union ({Plan[g][k]} \intersect Headers)
    BY <1>4, Opens
  <2>2. PICK k \in DOMAIN Plan[g] :
           /\ source'[Plan[g][k]].v # 0
           /\ \A f \in Files : f # Plan[g][k] => source'[f] = source[f]
           /\ newer' = newer \union ({Plan[g][k]} \intersect Headers)
    BY <2>1
  <2>3. /\ \A f \in Files : Present(f) => source'[f].v # 0
        /\ \A h \in newer' \ newer : source'[h].v # 0
    BY <2>2 DEF Present
  <2>4. make' = make
    BY <1>4 DEF Open
  <2> QED
    BY <1>2, <2>1, <2>3, <2>4 DEF MakeInv, MakeRuns
<1>5. CASE Close
  <2>1. PICK g \in Gens : \E k \in DOMAIN Plan[g] :
           /\ g = run.gen /\ Running /\ run'.gen = g
           /\ source'[Plan[g][k]].v = source[Plan[g][k]].v
           /\ source[Plan[g][k]].v = run.v /\ run.v # 0
           /\ \A f \in Files : f # Plan[g][k] => source'[f] = source[f]
           /\ newer' = newer \union ({Plan[g][k]} \intersect Headers)
    BY <1>5, Closes
  <2>2. PICK k \in DOMAIN Plan[g] :
           /\ source'[Plan[g][k]].v # 0
           /\ \A f \in Files : f # Plan[g][k] => source'[f] = source[f]
           /\ newer' = newer \union ({Plan[g][k]} \intersect Headers)
    BY <2>1
  <2>3. /\ \A f \in Files : Present(f) => source'[f].v # 0
        /\ \A h \in newer' \ newer : source'[h].v # 0
    BY <2>2 DEF Present
  <2>4. make' = make
    BY <1>5 DEF Close
  <2> QED
    BY <1>2, <2>1, <2>3, <2>4 DEF MakeInv, MakeRuns
<1>6. CASE Finish
  <2>1. /\ ~Running' /\ source' = source /\ newer' = newer /\ Running
        /\ make' = IF MakeRuns THEN make + 1 ELSE make
    BY <1>6, SourceOfFile DEF Finish, Running, NotRunning
  <2>2. CASE ~MakeRuns
    BY <1>2, <2>1, <2>2 DEF MakeRuns, Present
  <2>3. CASE MakeRuns
    <3>1. make \in {1, 3, 5} /\ run.gen = MakeSteps[make] /\ make' = make + 1
      BY <2>1, <2>3 DEF MakeInv
    <3>2. run.gen \in DOMAIN HeaderOf /\ HeaderOf[run.gen] =
             IF make = 1 THEN "stub.h" ELSE IF make = 3 THEN "service.h" ELSE "tool.h"
      BY <3>1 DEF MakeSteps, HeaderOf
    <3>3. Present(HeaderOf[run.gen])
      <4>1. run.gen \in Gens /\ 1 \in DOMAIN Plan[run.gen]
        BY <3>2, SomeFiles, PlanFiles
      <4> QED
        BY <1>6, <3>2, <4>1, FinishAll, SomeFiles
    <3>4. /\ make' >= 2 => source["stub.h"].v # 0
          /\ make' >= 4 => source["service.h"].v # 0
          /\ make' >= 6 => source["tool.h"].v # 0
          /\ source["Makefile"].v # 0
      BY <2>3, <3>1, <3>2, <3>3 DEF MakeInv, Present
    <3> QED
      BY <2>1, <3>4 DEF MakeInv, Present
  <2> QED
    BY <2>2, <2>3
<1>7. CASE Clean
  BY <1>7 DEF Clean, MakeInv, MakeRuns
<1>8. CASE EditProto
  <2>1. source' = source /\ newer' = {} /\ make' = make /\ run' = run
    BY <1>8, SourceOfFile DEF EditProto
  <2> QED
    BY <1>2, <2>1 DEF Present, Running, MakeInv, MakeRuns
<1>9. CASE EditCode \/ RenameClientHeader
  <2>1. /\ newer' = newer /\ make' = 0
        /\ \A f \in Files : Present(f) => source'[f].v # 0
    <3>1. CASE EditCode
      <4>1. proto # 0
        BY ProtosAssumption DEF GeneratorTypes, Versions
      <4>2. \A f \in Files : Present(f) => source'[f].v # 0
        BY <3>1, <4>1, EditFiles DEF Present
      <4> QED
        BY <3>1, <4>2 DEF EditCode
    <3>2. CASE RenameClientHeader
      BY <3>2, RenamedIsFound DEF RenameClientHeader, Present
    <3> QED
      BY <1>9, <3>1, <3>2
  <2> QED
    BY <1>2, <2>1
<1>10. ASSUME OnlyMakeMoves, ~Running,
              make' \in 1..6 =>
                /\ Present("Makefile")
                /\ make' >= 2 => Present("stub.h")
                /\ make' >= 4 => Present("service.h")
                /\ make' >= 6 => Present("tool.h")
       PROVE  MakeInv'
  <2>1. source' = source /\ newer' = newer /\ run' = run
    BY <1>10, SourceOfFile DEF OnlyMakeMoves
  <2> QED
    BY <1>10, <2>1 DEF MakeInv, MakeRuns, Running, Present
<1>11. CASE StartMake
  <2>1. "Makefile" # "client.h" /\ "Makefile" \in Files
    BY <1>1
  <2>2. /\ file["Makefile"].whole /\ file["Makefile"] \in FileState
        /\ source["Makefile"] = file["Makefile"]
    BY <1>11, <2>1 DEF StartMake, GeneratorTypes, source
  <2>3. Present("Makefile")
    BY <2>2, ProtosAssumption DEF FileState, Absent, Present, Versions
  <2>4. make' = 1 /\ ~Running /\ OnlyMakeMoves
    BY <1>11 DEF StartMake, OnlyMakeMoves
  <2> QED
    BY <1>10, <2>3, <2>4
<1>12. CASE MakeGenerates /\ HeaderOf[MakeSteps[make]] \in newer
  <2>1. make' = make + 1 /\ ~Running /\ OnlyMakeMoves /\ make \in {1, 3, 5} /\ MakeRuns
    BY <1>12 DEF MakeGenerates, OnlyMakeMoves, MakeRuns
  <2>2. Present(HeaderOf[MakeSteps[make]])
    BY <1>12 DEF MakeInv
  <2>3. HeaderOf[MakeSteps[make]] =
             IF make = 1 THEN "stub.h" ELSE IF make = 3 THEN "service.h" ELSE "tool.h"
    BY <2>1 DEF MakeSteps, HeaderOf
  <2>4. /\ Present("Makefile")
        /\ make' >= 2 => Present("stub.h")
        /\ make' >= 4 => Present("service.h")
        /\ make' >= 6 => Present("tool.h")
    BY <2>1, <2>2, <2>3 DEF MakeInv
  <2> QED
    BY <1>10, <2>1, <2>4
<1>13. CASE MakeBuilds
  <2>1. make' = make + 1 /\ make \in {2, 4, 6} /\ MakeRuns /\ OnlyMakeMoves
    BY <1>13 DEF MakeBuilds, OnlyMakeMoves, MakeRuns
  <2>2. ~Running
    BY <2>1 DEF MakeInv
  <2>3. make' \in 1..6 =>
        /\ Present("Makefile")
        /\ make' >= 2 => Present("stub.h")
        /\ make' >= 4 => Present("service.h")
        /\ make' >= 6 => Present("tool.h")
    BY <2>1 DEF MakeInv
  <2> QED
    BY <1>10, <2>1, <2>2, <2>3
<1>14. CASE MakeFails
  <2>1. UNCHANGED <<file, run, newer>> /\ make' = 0 /\ source' = source
    BY <1>14, SourceOfFile DEF MakeFails
  <2> QED
    BY <1>2, <2>1 DEF Present
<1>15. CASE UNCHANGED vars
  <2>1. UNCHANGED <<file, run, newer, make>> /\ source' = source
    BY <1>15, SourceOfFile DEF vars
  <2> QED
    BY <1>2, <2>1 DEF Present, Running, MakeInv, MakeRuns
<1>16. CASE MakeGenerates /\ HeaderOf[MakeSteps[make]] \notin newer
  <2>1. MakeSteps[make] \in Gens
    BY <1>16 DEF MakeGenerates, MakeSteps, Gens
  <2>2. Starts(MakeSteps[make])
    BY <1>16 DEF MakeGenerates, Starts
  <2> QED
    BY <1>3, <2>1, <2>2
<1>17. CASE \E g \in ByHand : RunByHand(g)
  BY <1>3, <1>17, ByHandAssumption DEF RunByHand, Starts, Gens
<1> QED
  BY <1>4, <1>5, <1>6, <1>7, <1>8, <1>9, <1>11, <1>12, <1>13, <1>14, <1>15, <1>16, <1>17 DEF Next

\* A death is counted, so what held without one need not hold any more.
LEMMA NoDeathStep ==
  ASSUME GeneratorTypes, HandInv, RunInv, NoDeathInv, [Next]_vars
  PROVE  NoDeathInv'
<1>1. SUFFICES ASSUME deaths' = 0
               PROVE  WholeInv' /\ PresentInv' /\ VersionInv' /\ MakeInv'
  BY DEF NoDeathInv
<1>2. ~Die
  BY <1>1 DEF Die, GeneratorTypes
<1>3. deaths = 0
  BY <1>1, <1>2, StepKinds
     DEF Starts, Start, Open, Close, Finish, Clean, EditProto, EditCode, RenameClientHeader,
         OnlyMakeMoves
<1>4. WholeInv /\ PresentInv /\ VersionInv /\ MakeInv
  BY <1>3 DEF NoDeathInv
<1> QED
  BY <1>2, <1>4, WholeStep, PresentStep, VersionStep, MakeStep

\* There are no files yet that could disagree.
LEMMA InitNoDeath == Init => NoDeathInv
<1> SUFFICES ASSUME Init PROVE WholeInv /\ PresentInv /\ VersionInv /\ MakeInv
  BY DEF NoDeathInv
<1>1. \A f \in Files : source[f] = Absent
  BY SomeFiles DEF Init, source, ClientHeader
<1>2. \A g \in Gens : \A i \in DOMAIN Plan[g] : Plan[g][i] \in Files /\ source[Plan[g][i]].v = 0
  BY <1>1, PlanFiles DEF Absent
<1>3. WholeInv
  BY <1>1 DEF WholeInv, Present, Absent
<1>4. PresentInv
  BY <1>2 DEF PresentInv, Present
<1>5. VersionInv
  <2>1. \A g \in Gens : Agree(g, Rewritten(g)) /\ Agree(g, Kept[g])
    BY <1>2, KeptFiles DEF Agree, Rewritten
  <2> QED
    BY <2>1 DEF VersionInv, Init, NotRunning, Gens
<1>6. MakeInv
  BY DEF Init, MakeInv, MakeRuns
<1> QED
  BY <1>3, <1>4, <1>5, <1>6

-----------------------------------------------------------------------------
(* What make compiles *)

\* The files of a generator that has run are there, and whole.
LEMMA AllThere ==
  ASSUME GeneratorTypes, WholeInv, PresentInv, ~Running,
         NEW g \in Gens, NEW i \in DOMAIN Plan[g], Present(Plan[g][i]),
         Plan[g][i] \in Copyright \/ g = "pb2server"
  PROVE  \A j \in DOMAIN Plan[g] :
           source[Plan[g][j]].whole /\ source[Plan[g][j]].v \in Versions
<1>1. run.gen \notin Gens /\ run.open = FALSE
  BY NoneRuns
<1>2. ASSUME NEW j \in DOMAIN Plan[g]
      PROVE  Plan[g][i] \in Copyright \/ Plan[g][j] \notin Copyright
  BY DEF Plan, Proto2Server, Copyright
<1>3. \A j \in DOMAIN Plan[g] : Present(Plan[g][j]) /\ Plan[g][j] \in Files
  BY <1>1, <1>2, PlanFiles DEF PresentInv
<1> QED
  BY <1>1, <1>3, SourceTypes DEF WholeInv

\* The places of the files in the lists.
LEMMA Places ==
  /\ DOMAIN Plan["pb2client"] = 1..5 /\ DOMAIN Plan["pb2service"] = 1..8
  /\ DOMAIN Plan["pb2server"] = 1..5 /\ DOMAIN Plan["pb2tool"] = 1..5
  /\ Plan["pb2client"][1] = "stub.h" /\ Plan["pb2client"][2] = "stub.cpp"
  /\ Plan["pb2client"][3] = "client.h" /\ Plan["pb2client"][4] = "client.cpp"
  /\ Plan["pb2service"][1] = "service.h" /\ Plan["pb2service"][2] = "service.cpp"
  /\ Plan["pb2service"][3] = "serviceimpl.h" /\ Plan["pb2service"][4] = "serviceimpl.cpp"
  /\ Plan["pb2service"][5] = "serverhandler.h" /\ Plan["pb2service"][6] = "serverhandler.cpp"
  /\ Plan["pb2service"][7] = "dispatcher.h" /\ Plan["pb2service"][8] = "dispatcher.cpp"
  /\ Plan["pb2server"][1] = "server_config.h" /\ Plan["pb2server"][2] = "server_config.cpp"
  /\ Plan["pb2server"][3] = "main.cpp" /\ Plan["pb2server"][5] = "Makefile"
  /\ Plan["pb2tool"][1] = "tool.h" /\ Plan["pb2tool"][2] = "tool.cpp"
  /\ Plan["pb2tool"][3] = "toolimpl.h" /\ Plan["pb2tool"][4] = "toolimpl.cpp"
BY DEF Plan, Proto2Client, Proto2Service, Proto2Server, Proto2Tool

\* The client library: its two stubs are of one version, and so are its header
\* and its code.
LEMMA ClientFits ==
  ASSUME GeneratorTypes, WholeInv, PresentInv, VersionInv, ~Running, Present("stub.h")
  PROVE  /\ \A f \in {"stub.h", "stub.cpp", "client.cpp"} :
               file[f].whole /\ file[f].v \in Versions
         /\ ClientHeader.whole /\ ClientHeader.v \in Versions
         /\ file["stub.h"].v = file["stub.cpp"].v
         /\ ClientHeader.v = file["client.cpp"].v
<1>1. \A j \in 1..5 : /\ source[Plan["pb2client"][j]].whole
                      /\ source[Plan["pb2client"][j]].v \in Versions
  <2>1. "pb2client" \in Gens /\ "stub.h" \in Copyright /\ 1 \in 1..5
    BY DEF Gens, Copyright
  <2> QED
    BY <2>1, AllThere, Places
<1>2. Agree("pb2client", Rewritten("pb2client")) /\ Agree("pb2client", Kept["pb2client"])
  BY NoneRuns DEF VersionInv, Gens
<1>3. {1, 2} \subseteq Rewritten("pb2client") /\ {3, 4} \subseteq Kept["pb2client"]
  BY Places DEF Rewritten, Kept, Copyright
<1>4. /\ source["stub.h"] = file["stub.h"] /\ source["stub.cpp"] = file["stub.cpp"]
      /\ source["client.cpp"] = file["client.cpp"] /\ source["client.h"] = ClientHeader
  BY DEF source, Files, Proto2Client
<1>5. /\ source["stub.h"].v = source["stub.cpp"].v
      /\ source["client.h"].v = source["client.cpp"].v
  BY <1>2, <1>3, Places DEF Agree
<1>6. /\ source["stub.h"].whole /\ source["stub.h"].v \in Versions
      /\ source["stub.cpp"].whole /\ source["stub.cpp"].v \in Versions
      /\ source["client.h"].whole /\ source["client.h"].v \in Versions
      /\ source["client.cpp"].whole /\ source["client.cpp"].v \in Versions
  BY <1>1, Places
<1> QED
  BY <1>4, <1>5, <1>6

\* Under the name it was generated with, unless it was renamed.
LEMMA HeaderByName ==
  ASSUME ClientHeader.v \in Versions, ~Exists("client.hpp")
  PROVE  Exists("client.h")
BY DEF ClientHeader, Exists, Versions

\* The server builds whenever service.h is there and no generator runs.
LEMMA ServerFits ==
  ASSUME GeneratorTypes, WholeInv, PresentInv, VersionInv, ~Running,
         Present("service.h"), Present("Makefile")
  PROVE  ServerBuilds
<1>1. \A j \in 1..8 : /\ source[Plan["pb2service"][j]].whole
                      /\ source[Plan["pb2service"][j]].v \in Versions
  <2>1. "pb2service" \in Gens /\ "service.h" \in Copyright /\ 1 \in 1..8
    BY DEF Gens, Copyright
  <2> QED
    BY <2>1, AllThere, Places
<1>2. \A j \in 1..5 : source[Plan["pb2server"][j]].whole
  <2>1. "pb2server" \in Gens /\ 5 \in 1..5
    BY DEF Gens
  <2> QED
    BY <2>1, AllThere, Places
<1>3. Agree("pb2service", Rewritten("pb2service")) /\ Agree("pb2service", Kept["pb2service"])
  BY NoneRuns DEF VersionInv, Gens
<1>4. {1, 2, 7, 8} \subseteq Rewritten("pb2service") /\ {3, 4, 5, 6} \subseteq Kept["pb2service"]
  BY Places DEF Rewritten, Kept, Copyright
<1>5. PICK v \in Versions : v = source["service.h"].v
  BY <1>1, Places
<1>6. PICK w \in Versions : w = source["serviceimpl.h"].v
  BY <1>1, Places
<1>7. \A f \in Files : f # "client.h" => source[f] = file[f]
  BY DEF source
<1>8. /\ {"service.h", "service.cpp", "dispatcher.h", "dispatcher.cpp", "serviceimpl.h",
          "serviceimpl.cpp", "serverhandler.h", "serverhandler.cpp"} \subseteq Files
      /\ {"server_config.h", "server_config.cpp", "main.cpp"} \subseteq Files
  BY DEF Files, Proto2Service, Proto2Server
<1>9. /\ file["service.h"].v = v /\ file["service.cpp"].v = v
      /\ file["dispatcher.h"].v = v /\ file["dispatcher.cpp"].v = v
  BY <1>3, <1>4, <1>5, <1>7, <1>8, Places DEF Agree
<1>10. /\ file["serviceimpl.h"].v = w /\ file["serviceimpl.cpp"].v = w
       /\ file["serverhandler.h"].v = w /\ file["serverhandler.cpp"].v = w
  BY <1>3, <1>4, <1>6, <1>7, <1>8, Places DEF Agree
<1>11. PICK s, n : s = Methods(Parse(v)) /\ n = Names(Parse(v))
  OBVIOUS
<1>12. PICK t, h : t = Methods(Parse(w)) /\ h = Handled(Parse(w))
  OBVIOUS
<1>13. /\ Text("service.h").decl = s /\ Text("service.cpp").def = s
       /\ Text("dispatcher.h").decl = n
       /\ Text("dispatcher.cpp").def = n /\ Text("dispatcher.cpp").call = s
  BY <1>9, <1>11, MethodsOf DEF Text
<1>14. /\ Text("serviceimpl.h").decl = t /\ Text("serviceimpl.cpp").def = t
       /\ Text("serviceimpl.cpp").call = h
       /\ Text("serverhandler.h").decl = h
       /\ Text("serverhandler.cpp").def = h
  BY <1>10, <1>12, MethodsOf DEF Text
<1>15. \A i \in DOMAIN Proto2Service : file[Proto2Service[i]].whole
  <2>1. Proto2Service = Plan["pb2service"]
    BY DEF Plan
  <2>2. \A i \in 1..8 : Plan["pb2service"][i] \in Files /\ Plan["pb2service"][i] # "client.h"
    BY <2>1, Places DEF Proto2Service, Files
  <2> QED
    BY <1>1, <1>7, <2>1, <2>2, Places
<1>16. \A f \in {"server_config.h", "server_config.cpp", "main.cpp"} : file[f].whole
  BY <1>2, <1>7, <1>8, Places
<1> QED
  BY <1>13, <1>14, <1>15, <1>16 DEF ServerBuilds

\* The tool builds when the client has the methods it calls and a header under the
\* name it was generated with.
LEMMA ToolFits ==
  ASSUME GeneratorTypes, WholeInv, PresentInv, VersionInv, ~Running,
         Present("stub.h"), Present("tool.h"), ~Exists("client.hpp"),
         Methods(Parse(file["toolimpl.cpp"].v)) \subseteq Methods(Parse(ClientHeader.v))
  PROVE  ToolBuilds
<1>1. \A j \in 1..5 : /\ source[Plan["pb2tool"][j]].whole
                      /\ source[Plan["pb2tool"][j]].v \in Versions
  <2>1. "pb2tool" \in Gens /\ "tool.h" \in Copyright /\ 1 \in 1..5
    BY DEF Gens, Copyright
  <2> QED
    BY <2>1, AllThere, Places
<1>2. Agree("pb2tool", Rewritten("pb2tool")) /\ Agree("pb2tool", Kept["pb2tool"])
  BY NoneRuns DEF VersionInv, Gens
<1>3. {1, 2} \subseteq Rewritten("pb2tool") /\ {3, 4} \subseteq Kept["pb2tool"]
  BY Places DEF Rewritten, Kept, Copyright
<1>4. PICK v \in Versions : v = source["tool.h"].v
  BY <1>1, Places
<1>5. PICK w \in Versions : w = source["toolimpl.h"].v
  BY <1>1, Places
<1>6. \A f \in Files : f # "client.h" => source[f] = file[f]
  BY DEF source
<1>7. {"tool.h", "tool.cpp", "toolimpl.h", "toolimpl.cpp"} \subseteq Files
  BY DEF Files, Proto2Tool
<1>8. file["tool.h"].v = v /\ file["tool.cpp"].v = v
  BY <1>2, <1>3, <1>4, <1>6, <1>7, Places DEF Agree
<1>9. file["toolimpl.h"].v = w /\ file["toolimpl.cpp"].v = w
  BY <1>2, <1>3, <1>5, <1>6, <1>7, Places DEF Agree
<1>10. /\ ClientHeader.whole /\ ClientHeader.v \in Versions
       /\ file["client.cpp"].v = ClientHeader.v
  BY ClientFits
<1>11. PICK u \in Versions : u = ClientHeader.v
  BY <1>10
<1>12. PICK s, n : s = Methods(Parse(v)) /\ n = Names(Parse(v))
  OBVIOUS
<1>13. PICK t, k : t = Methods(Parse(w)) /\ k = Names(Parse(w))
  OBVIOUS
<1>14. PICK m, c : m = Methods(Parse(u)) /\ c = ClientMethods(Parse(u))
  OBVIOUS
<1>15. /\ Text("tool.h").decl = n /\ Text("tool.cpp").def = n
       /\ {e.name : e \in Text("tool.h").table} \subseteq n
  BY <1>8, <1>12, MethodsOf DEF Text
<1>16. /\ Text("toolimpl.h").decl = k /\ Text("toolimpl.cpp").def = k
       /\ Text("toolimpl.cpp").call = t
  BY <1>9, <1>13, MethodsOf DEF Text
<1>17. ClientText.decl = c /\ Text("client.cpp").def = c /\ m \subseteq c
  BY <1>10, <1>11, <1>14, MethodsOf DEF Text, ClientText
<1>18. t \subseteq c
  BY <1>9, <1>11, <1>13, <1>14, <1>17
<1>19. \A f \in {"tool.cpp", "toolimpl.cpp", "toolmain.cpp"} : FindsClientHeader(f)
  BY <1>10, HeaderByName DEF FindsClientHeader
<1>20. \A i \in DOMAIN Proto2Tool : file[Proto2Tool[i]].whole
  <2>1. Proto2Tool = Plan["pb2tool"]
    BY DEF Plan
  <2>2. \A i \in 1..5 : Plan["pb2tool"][i] \in Files /\ Plan["pb2tool"][i] # "client.h"
    BY <2>1, Places DEF Proto2Tool, Files
  <2> QED
    BY <1>1, <1>6, <2>1, <2>2, Places
<1> QED
  BY <1>15, <1>20, <1>16, <1>17, <1>18, <1>19 DEF ToolBuilds

\* The three targets one after the other.
LEMMA NoDeathBuilds ==
  ASSUME GeneratorTypes, NoDeathInv
  PROVE  OnlyStaleCodeBreaksTheBuild
<1>1. SUFFICES ASSUME make \in {2, 4, 6}, deaths = 0
               PROVE  \/ Builds(MakeSteps[make])
                      \/ make = 2 /\ ~(Methods(Parse(file["client.cpp"].v)) \subseteq
                                         Methods(Parse(file["stub.h"].v)))
                      \/ make = 6 /\ ~(Methods(Parse(file["toolimpl.cpp"].v)) \subseteq
                                         Methods(Parse(ClientHeader.v)))
                      \/ Exists("client.hpp") /\
                           (make = 6 \/ (make = 2 /\ ~file["client.cpp"].hand))
  BY DEF OnlyStaleCodeBreaksTheBuild
<1>2. WholeInv /\ PresentInv /\ VersionInv /\ MakeInv /\ MakeRuns
  BY <1>1 DEF NoDeathInv, MakeRuns
<1>3. /\ ~Running /\ Present("Makefile") /\ Present("stub.h")
      /\ make \in {4, 6} => Present("service.h")
      /\ make = 6 => Present("tool.h")
  BY <1>1, <1>2 DEF MakeInv
<1>4. CASE make = 2
  <2>1. MakeSteps[make] = "client"
    BY <1>4 DEF MakeSteps
  <2>2. SUFFICES ASSUME Methods(Parse(file["client.cpp"].v)) \subseteq
                           Methods(Parse(file["stub.h"].v)),
                        ~Exists("client.hpp") \/ file["client.cpp"].hand
                 PROVE  ClientBuilds
    BY <1>4, <2>1 DEF Builds
  <2>3. /\ \A f \in {"stub.h", "stub.cpp", "client.cpp"} :
               file[f].whole /\ file[f].v \in Versions
        /\ ClientHeader.whole /\ ClientHeader.v \in Versions
        /\ file["stub.h"].v = file["stub.cpp"].v
        /\ ClientHeader.v = file["client.cpp"].v
    BY <1>2, <1>3, ClientFits
  <2>4. PICK v \in Versions : v = file["stub.h"].v
    BY <2>3
  <2>5. PICK w \in Versions : w = file["client.cpp"].v
    BY <2>3
  <2>6. PICK s : s = Methods(Parse(v))
    OBVIOUS
  <2>7. PICK t, c : t = Methods(Parse(w)) /\ c = ClientMethods(Parse(w))
    OBVIOUS
  <2>8. Text("stub.h").decl = s /\ Text("stub.cpp").def = s
    BY <2>3, <2>4, <2>6, MethodsOf DEF Text
  <2>9. /\ ClientText.decl = c /\ Text("client.cpp").def = c
        /\ Text("client.cpp").call \subseteq t
    BY <2>3, <2>5, <2>7, MethodsOf DEF Text, ClientText
  <2>10. t \subseteq s
    BY <2>2, <2>4, <2>5, <2>6, <2>7
  <2>11. FindsClientHeader("client.cpp")
    BY <2>2, <2>3, HeaderByName DEF FindsClientHeader
  <2> QED
    BY <2>3, <2>8, <2>9, <2>10, <2>11 DEF ClientBuilds
<1>5. CASE make = 4
  <2>1. ServerBuilds
    BY <1>2, <1>3, <1>5, ServerFits
  <2> QED
    BY <1>5, <2>1 DEF Builds, MakeSteps
<1>6. CASE make = 6
  <2>1. SUFFICES ASSUME ~Exists("client.hpp"),
                        Methods(Parse(file["toolimpl.cpp"].v)) \subseteq
                           Methods(Parse(ClientHeader.v))
                 PROVE  ToolBuilds
    BY <1>6 DEF Builds, MakeSteps
  <2> QED
    BY <1>2, <1>3, <1>6, <2>1, ToolFits
<1> QED
  BY <1>1, <1>4, <1>5, <1>6

-----------------------------------------------------------------------------
(* The theorems *)

\* The conjunction is an inductive invariant of the generators, of make and of the
\* programmer.
THEOREM Invariance == Spec => []IInv
<1>1. Init => IInv
  BY InitTypes, InitNoDeath DEF IInv
<1>2. IInv /\ [Next]_vars => IInv'
  BY TypesStep, HandStep, RunStep, FreshStep, NoDeathStep DEF IInv
<1> QED
  BY <1>1, <1>2, PTL DEF Spec

\* For any versions of the proto file and any interleaving of edits, generators,
\* deaths and make: when make takes neither header for old, every call of the client
\* is answered under its id and with its messages, by the implementation if that has
\* such a method, unless a generator did not come to its end in time.
THEOREM CallsAreServed == Spec => []RoutesAgree
<1>1. IInv => RoutesAgree
  BY FreshRoutesAgree DEF IInv
<1> QED
  BY <1>1, Invariance, PTL

\* As long as no generator died, the generated code compiles, but for three cases: a
\* client or a tool with a method that the code it calls does not have, or has with
\* other messages, and code that includes the header of the client by its generated
\* name after that was renamed.
THEOREM BuildsUnlessStale == Spec => []OnlyStaleCodeBreaksTheBuild
<1>1. IInv => OnlyStaleCodeBreaksTheBuild
  BY NoDeathBuilds DEF IInv
<1> QED
  BY <1>1, Invariance, PTL

\* No generator, no make and no make clean ever takes away or overwrites what was
\* written by hand; renaming the header of the client keeps it under the new name.
THEOREM NothingByHandIsLost == Spec => HandWorkSurvives
<1>1. IInv /\ [Next]_vars => [\A f \in DOMAIN file : file[f].hand =>
          \/ file'[f].hand
          \/ f = "client.h" /\ file'["client.hpp"] = file[f]]_vars
  BY HandKept DEF IInv
<1> QED
  BY <1>1, Invariance, PTL DEF Spec, HandWorkSurvives
=============================================================================

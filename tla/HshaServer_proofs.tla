------------------------- MODULE HshaServer_proofs -------------------------
(***************************************************************************)
(* A server with any configuration file, any keys that are required and    *)
(* any number of requests: what is read is what a well-formed file says,   *)
(* the units have all of the workers between them, and the stat thread     *)
(* never divides by 0.                                                     *)
(***************************************************************************)
EXTENDS HshaServer, WellFoundedInduction, TLAPS

\* The server has its configuration.
Configured == main \notin {"read", "hung", "ended"}

\* Before the file is read no thread but the main one runs.
StartInv ==
    /\ main = "read" => content \in Files /\ rejectRate = 0
    /\ main \in {"read", "hung"} => statPc = "unborn" /\ qosPc = "unborn"

\* The workers of a unit that is not the last.
Each == config.MaxThreads \div IOCount

\* The units that exist so far are alike, until the last one takes the rest.
UnitsInv ==
    /\ main \in {"read", "hung", "stat", "qos"} => units = <<>>
    /\ main = "units" =>
          /\ units # <<>> => config.MaxThreads > 0 /\ Len(units) < IOCount
          /\ \A i \in 1..Len(units) : units[i] = Each
    /\ main \in {"listen", "run"} =>
          /\ config.MaxThreads > 0 /\ IOCount # 0
          /\ Len(units) = IOCount
          /\ \A i \in 1..Len(units) :
                units[i] = IF i = IOCount THEN config.MaxThreads - Each * (IOCount - 1) ELSE Each

\* Only the stat thread sets a count back, and not between the comparison and
\* the division.
CountsInv ==
    /\ statPc = "inAvg" => inq.count >= Rate
    /\ statPc = "outAvg" => outq.count >= Rate

SInv == TypeOK /\ StartInv /\ UnitsInv /\ CountsInv

-----------------------------------------------------------------------------
(* Numbers and the configuration file *)

\* A set of naturals has a least element: what Smallest chooses.
LEMMA SmallestIsLeast ==
  ASSUME NEW S \in SUBSET Nat, S # {}
  PROVE  Smallest(S) \in S /\ \A j \in S : Smallest(S) <= j
<1> DEFINE Less == {ss \in Nat \X Nat : ss[1] < ss[2]}
<1>1. IsWellFoundedOn(Less, Nat)
  BY NatLessThanWellFounded DEF OpToRel
<1>2. PICK m \in S : \A k \in S : <<k, m>> \notin Less
  BY <1>1, WFMin
<1>3. \A k \in S : ~(k < m)
  BY <1>2
<1>4. \A k \in S : m <= k
  BY <1>3
<1> QED
  BY <1>2, <1>4 DEF Smallest

\* What a line is.
LEMMA LineFields ==
  ASSUME NEW line \in Line
  PROVE  /\ line.header \in BOOLEAN
         /\ ~line.header => /\ line.longer \in BOOLEAN /\ line.set \in BOOLEAN
                            /\ line.value \in Int
                            /\ line = [header |-> FALSE, name |-> line.name, longer |-> line.longer,
                                       set |-> line.set, value |-> line.value]
BY DEF Line

\* The lines of a file have numbers.
LEMMA FileLines ==
  ASSUME NEW file \in Seq(Line), NEW section, NEW key
  PROVE  /\ DOMAIN file \subseteq Nat
         /\ \A i \in DOMAIN file : file[i] \in Line
         /\ Headers(file) \subseteq DOMAIN file
         /\ SectionStarts(file, section) \subseteq DOMAIN file
         /\ Region(file, section) \subseteq DOMAIN file
         /\ Stops(file, section, key) \subseteq DOMAIN file
BY DEF Headers, SectionStarts, Region, Stops

\* The search ends at a line of the key that goes on or has a value.
LEMMA StopLine ==
  ASSUME NEW file \in Seq(Line), NEW section, NEW key, Found(file, section, key)
  PROVE  LET i == Smallest(Stops(file, section, key))
         IN  /\ i \in Stops(file, section, key)
             /\ i \in DOMAIN file /\ i \in Nat /\ file[i] \in Line
BY FileLines, SmallestIsLeast DEF Found

\* A search that ends gives a number.
LEMMA ReadsANumber ==
  ASSUME NEW file \in Seq(Line), NEW section, NEW key, NEW default \in Int
  PROVE  ReadItem(file, section, key, default) \in Int
<1>1. CASE Found(file, section, key)
  <2> DEFINE i == Smallest(Stops(file, section, key))
  <2>1. i \in Stops(file, section, key) /\ file[i] \in Line
    BY <1>1, StopLine
  <2>2. file[i].value \in Int
    BY <2>1, LineFields DEF Stops
  <2> QED
    BY <1>1, <2>2 DEF ReadItem
<1>2. CASE ~Found(file, section, key)
  BY <1>2 DEF ReadItem
<1> QED
  BY <1>1, <1>2

\* In a well-formed file no search hangs.
LEMMA SearchEnds ==
  ASSUME NEW file \in Seq(Line), NEW section, NEW key, WellFormed(file)
  PROVE  ~Hangs(file, section, key)
<1> SUFFICES ASSUME Hangs(file, section, key) PROVE FALSE
  OBVIOUS
<1> DEFINE i == Smallest(Stops(file, section, key))
<1>1. i \in Stops(file, section, key) /\ i \in DOMAIN file /\ file[i].longer
  BY StopLine DEF Hangs
<1>2. i \notin Headers(file)
  BY <1>1 DEF Stops, Headers
<1> QED
  BY <1>1, <1>2 DEF WellFormed

\* What is found in a well-formed file stands there, in that section.
LEMMA FoundIsSaid ==
  ASSUME NEW file \in Seq(Line), NEW section, NEW key, NEW default,
         WellFormed(file), Found(file, section, key)
  PROVE  Says(file, section, key, ReadItem(file, section, key, default))
<1> DEFINE i == Smallest(Stops(file, section, key))
           first == Smallest(SectionStarts(file, section))
<1>1. i \in Stops(file, section, key) /\ i \in DOMAIN file /\ i \in Nat /\ file[i] \in Line
  BY StopLine
<1>2. i \in Region(file, section) /\ ~file[i].header /\ file[i].name = key
  BY <1>1 DEF Stops
<1>3. file[i].set /\ ~file[i].longer
  BY <1>1, <1>2 DEF WellFormed, Headers
<1>4. SectionStarts(file, section) # {}
  BY <1>2 DEF Region
<1>5. first \in SectionStarts(file, section) /\ first \in Nat
  BY <1>4, FileLines, SmallestIsLeast
<1>6. i > first /\ \A h \in Headers(file) : h > first => i < h
  BY <1>2, <1>4 DEF Region
<1>7. Headers(file) \subseteq Nat
  BY FileLines
<1>8. In(file, i, section)
  <2>1. first \in Headers(file) /\ file[first].name = section /\ first < i
    BY <1>1, <1>5, <1>6 DEF SectionStarts
  <2>2. \A g \in Headers(file) : g <= first \/ g > i
    BY <1>1, <1>5, <1>6, <1>7
  <2> QED
    BY <2>1, <2>2 DEF In
<1>9. file[i] = Item(key, file[i].value)
  <2>1. file[i].longer = FALSE /\ file[i].set = TRUE
    BY <1>1, <1>2, <1>3, LineFields
  <2> QED
    BY <1>1, <1>2, <2>1, LineFields DEF Item
<1>10. ReadItem(file, section, key, default) = file[i].value
  BY DEF ReadItem
<1> QED
  BY <1>1, <1>8, <1>9, <1>10 DEF Says

\* What is not found in a well-formed file is not in that section.
LEMMA NotFoundIsNotThere ==
  ASSUME NEW file \in Seq(Line), NEW section, NEW key,
         WellFormed(file), ~Found(file, section, key)
  PROVE  ~Has(file, section, key)
<1> SUFFICES ASSUME Has(file, section, key) PROVE FALSE
  OBVIOUS
<1> DEFINE first == Smallest(SectionStarts(file, section))
<1>1. PICK i \in DOMAIN file : file[i].name = key /\ In(file, i, section)
  BY DEF Has
<1>2. PICK h \in Headers(file) : /\ h < i /\ file[h].name = section
                                 /\ \A g \in Headers(file) : g <= h \/ g > i
  BY <1>1 DEF In
<1>3. i \in Nat /\ h \in Nat /\ h \in DOMAIN file /\ Headers(file) \subseteq Nat /\ h # 0
  BY <1>1, <1>2, FileLines
<1>4. h \in SectionStarts(file, section)
  BY <1>2, <1>3 DEF SectionStarts, WellFormed
<1>5. first \in SectionStarts(file, section)
  BY <1>4, FileLines, SmallestIsLeast
<1>6. first = h
  BY <1>4, <1>5, FileLines DEF SectionStarts, Headers, WellFormed
<1>7. i \notin Headers(file)
  BY <1>2, <1>3
<1>8. i \in Region(file, section)
  <2>1. \A g \in Headers(file) : g > h => i < g
    BY <1>2, <1>3
  <2> QED
    BY <1>1, <1>2, <1>3, <1>4, <1>6, <2>1 DEF Region
<1>9. i \in Stops(file, section, key)
  BY <1>1, <1>7, <1>8 DEF Stops, Headers, WellFormed
<1> QED
  BY <1>9 DEF Found

\* The keys that have a default have one that is a number.
LEMMA Defaults ==
  /\ DOMAIN Default = {"MaxThreads", "IOThreadCount", "FastRejectThresholdMS", "FastRejectAdjustRate"}
  /\ \A k \in DOMAIN Default : Default[k] \in Int
BY DEF Default

\* An average of naturals, rounded down.
LEMMA Average ==
  ASSUME NEW m \in Nat, NEW n \in Nat \ {0}
  PROVE  m \div n \in Nat
<1> DEFINE e == m \div n
<1>1. e \in Int /\ m < n * (e + 1)
  OBVIOUS
<1> HIDE DEF e
<1>2. ~(e < 0)
  <2> SUFFICES ASSUME e < 0 PROVE FALSE
    OBVIOUS
  <2>1. n * (e + 1) <= 0
    BY <1>1
  <2> QED
    BY <1>1, <2>1
<1> QED
  BY <1>1, <1>2 DEF e

\* A share of a number is positive, and so is what the other shares leave.
LEMMA Shares ==
  ASSUME NEW m \in Nat, NEW n \in Nat, 0 < n, n <= m
  PROVE  /\ m \div n \in Nat /\ m \div n > 0
         /\ m - (m \div n) * (n - 1) \in Nat /\ m - (m \div n) * (n - 1) > 0
<1> DEFINE e == m \div n
<1>1. e \in Nat /\ n * e <= m /\ m < n * (e + 1)
  OBVIOUS
<1> HIDE DEF e
<1>2. e > 0
  BY <1>1
<1>3. n * e = e * (n - 1) + e
  BY <1>1
<1>4. e * (n - 1) \in Nat
  BY <1>1
<1>5. m - e * (n - 1) \in Nat /\ m - e * (n - 1) > 0
  BY <1>1, <1>2, <1>3, <1>4
<1> QED
  BY <1>1, <1>2, <1>5 DEF e

\* The workers of units that are alike but for the last.
LEMMA WorkersOfAlike ==
  ASSUME NEW list, NEW n \in Nat \ {0}, NEW each \in Int, NEW rest \in Int,
         Len(list) = n,
         \A i \in 1..n : list[i] = IF i = n THEN rest ELSE each
  PROVE  Workers(list) = each * (n - 1) + rest
<1> DEFINE sums == CHOOSE upTo : upTo = [i \in 0..Len(list) |-> IF i = 0 THEN 0 ELSE upTo[i - 1] + list[i]]
           closed == [i \in 0..n |-> IF i = 0 THEN 0 ELSE IF i = n THEN each * (n - 1) + rest ELSE each * i]
<1>1. closed = [i \in 0..Len(list) |-> IF i = 0 THEN 0 ELSE closed[i - 1] + list[i]]
  <2>1. \A i \in 1..n : closed[i - 1] = each * (i - 1)
    <3> TAKE i \in 1..n
    <3>1. i - 1 \in 0..n /\ i - 1 # n
      OBVIOUS
    <3>2. each * 0 = 0
      OBVIOUS
    <3> QED
      BY <3>1, <3>2
  <2>2. \A i \in 1..n : each * (i - 1) + each = each * i
    OBVIOUS
  <2>3. \A i \in 0..n : closed[i] = IF i = 0 THEN 0 ELSE closed[i - 1] + list[i]
    <3>0. closed[0] = 0
      OBVIOUS
    <3> SUFFICES ASSUME NEW i \in 0..n, i # 0 PROVE closed[i] = closed[i - 1] + list[i]
      <4> HIDE DEF closed
      <4> QED
        BY <3>0
    <3>1. closed[i - 1] = each * (i - 1) /\ each * (i - 1) + each = each * i
      BY <2>1, <2>2
    <3>2. closed[i] = IF i = n THEN each * (n - 1) + rest ELSE each * i
      OBVIOUS
    <3> HIDE DEF closed
    <3> QED
      BY <3>1, <3>2
  <2>4. closed = [i \in 0..n |-> closed[i]]
    OBVIOUS
  <2> HIDE DEF closed
  <2> QED
    BY <2>3, <2>4
<1> HIDE DEF closed
<1>2. sums = [i \in 0..Len(list) |-> IF i = 0 THEN 0 ELSE sums[i - 1] + list[i]]
  BY <1>1
<1>3. Workers(list) = sums[n]
  BY DEF Workers
<1> HIDE DEF sums
<1> DEFINE Wrong == {i \in 0..n : sums[i] # closed[i]}
<1>4. Wrong = {}
  <2> SUFFICES ASSUME Wrong # {} PROVE FALSE
    OBVIOUS
  <2>1. PICK i \in Wrong : \A j \in Wrong : i <= j
    <3>1. Wrong \in SUBSET Nat
      OBVIOUS
    <3> HIDE DEF Wrong
    <3> QED
      BY <3>1, SmallestIsLeast
  <2>2. i \in 0..n /\ sums[i] # closed[i]
    BY <2>1
  <2>3. i # 0 => i - 1 \in 0..n /\ sums[i - 1] = closed[i - 1]
    BY <2>1, <2>2
  <2> QED
    BY <1>1, <1>2, <2>2, <2>3
<1>5. closed[n] = each * (n - 1) + rest
  BY DEF closed
<1> QED
  BY <1>3, <1>4, <1>5

-----------------------------------------------------------------------------
(* The inductive invariant *)

\* The numbers of the configuration.
LEMMA ConfigNumbers ==
  TypeOK /\ Configured =>
    /\ config.MaxThreads \in Int /\ config.IOThreadCount \in Int
    /\ config.FastRejectAdjustRate \in Int /\ config.FastRejectThresholdMS \in Int
    /\ IOCount \in Int
BY Defaults DEF TypeOK, Configured, IOCount, Fewer

\* There are no more units than workers.
LEMMA FewUnits ==
  TypeOK /\ Configured /\ config.MaxThreads > 0 /\ IOCount # 0 =>
    /\ IOCount \in 1..config.MaxThreads
    /\ config.IOThreadCount \in Nat => IOCount <= config.IOThreadCount
BY ConfigNumbers DEF IOCount, Fewer

\* What ReadConfig gives when it ends.
LEMMA ReadConfigDone ==
  ASSUME StartInv, ReadConfig
  PROVE  \/ main' = "stat" /\ config' \in [Required \cup DOMAIN Default -> Int]
         \/ main' \in {"hung", "ended"} /\ UNCHANGED <<config, statPc>>
<1> DEFINE missing == \E k \in Required : ~Found(content, "Server", k)
           keys == Required \cup (IF missing THEN {"MaxThreads"} ELSE DOMAIN Default)
           value(k) == ReadItem(content, "Server", k, IF k \in Required THEN 0 ELSE Default[k])
<1>1. content \in Seq(Line)
  BY ServerAssumption DEF StartInv, ReadConfig
<1>2. \A k \in Required \cup DOMAIN Default : value(k) \in Int
  BY <1>1, Defaults, ReadsANumber
<1>3. \/ main' = "stat" /\ ~missing /\ config' = [k \in keys |-> value(k)]
      \/ main' \in {"hung", "ended"} /\ UNCHANGED <<config, statPc>>
  BY DEF ReadConfig, MainStep
<1> HIDE DEF value
<1> QED
  BY <1>2, <1>3

\* The invariant holds when the process begins.
LEMMA InitSInv == Init => SInv
<1> SUFFICES ASSUME Init PROVE SInv
  OBVIOUS
<1>1. TypeOK
  BY ServerAssumption DEF Init, TypeOK, Zero
<1>2. StartInv /\ UnitsInv /\ CountsInv
  BY DEF Init, StartInv, UnitsInv, CountsInv
<1> QED
  BY <1>1, <1>2 DEF SInv

\* The main thread keeps the types.
LEMMA MainTypes == SInv /\ Main => TypeOK'
<1> SUFFICES ASSUME SInv, Main PROVE TypeOK'
  OBVIOUS
<1> USE ServerAssumption DEF SInv, MainStep
<1>1. CASE ReadFails
  BY <1>1 DEF ReadFails, TypeOK
<1>2. CASE ReadConfig
  <2>1. main = "read" /\ UNCHANGED <<units, breakOut, inq, outq, rejectRate, inAvg, outAvg, qosIn>>
    BY <1>2 DEF ReadConfig
  <2>2. rejectRate = 0
    BY <2>1 DEF StartInv
  <2> QED
    BY <1>2, <2>1, <2>2, ReadConfigDone DEF TypeOK
<1>3. CASE StatConstructed
  BY <1>3 DEF StatConstructed, TypeOK
<1>4. CASE QosConstructed
  BY <1>4 DEF QosConstructed, TypeOK
<1>5. CASE UnitsFail
  BY <1>5 DEF UnitsFail, TypeOK
<1>6. CASE UnitConstructed
  <2>1. main = "units" /\ config.MaxThreads > 0 /\ IOCount # 0
    BY <1>6, ConfigNumbers DEF UnitConstructed, Configured
  <2>2. /\ Each \in Nat /\ config.MaxThreads - Each * (IOCount - 1) \in Nat
    BY <2>1, ConfigNumbers, FewUnits, Shares DEF Each, Configured
  <2>3. units' \in Seq(Nat)
    BY <1>6, <2>2 DEF UnitConstructed, Each, TypeOK
  <2> QED
    BY <1>6, <2>3 DEF UnitConstructed, TypeOK
<1>7. CASE Listen
  BY <1>7 DEF Listen, TypeOK
<1> QED
  BY <1>1, <1>2, <1>3, <1>4, <1>5, <1>6, <1>7 DEF Main

\* A request keeps the types.
LEMMA RequestTypes ==
  ASSUME SInv, NEW r \in Requests,
         Enqueue(r) \/ InCost(r) \/ InCount(r) \/ OutCost(r) \/ OutCount(r)
  PROVE  TypeOK' /\ inq'.count >= inq.count /\ outq'.count >= outq.count
<1> USE ServerAssumption DEF SInv, Move, startVars, statVars, qosVars
<1> DEFINE Typed(q) == q \in [cost : Nat, count : 0..MaxCount]
<1>1. \A q : \A wait \in Nat : Typed(q) => Typed(AddCost(q, wait)) /\ AddCost(q, wait).count = q.count
  BY DEF AddCost
<1>2. \A q : Typed(q) => Typed(AddCount(q)) /\ AddCount(q).count >= q.count
  BY DEF AddCount
<1>3. Typed(inq) /\ Typed(outq) /\ inq.count \in Int /\ outq.count \in Int
  BY DEF TypeOK
<1> HIDE DEF Typed
<1>4. /\ Typed(inq') /\ inq'.count >= inq.count
      /\ Typed(outq') /\ outq'.count >= outq.count
  <2>1. CASE Enqueue(r)
    BY <1>3, <2>1 DEF Enqueue
  <2>2. CASE InCost(r)
    <3>1. PICK wait \in Nat : inq' = AddCost(inq, wait)
      BY <2>2 DEF InCost
    <3> QED
      BY <1>1, <1>3, <2>2, <3>1 DEF InCost
  <2>3. CASE InCount(r)
    BY <1>2, <1>3, <2>3 DEF InCount
  <2>4. CASE OutCost(r)
    <3>1. PICK wait \in Nat : outq' = AddCost(outq, wait)
      BY <2>4 DEF OutCost
    <3> QED
      BY <1>1, <1>3, <2>4, <3>1 DEF OutCost
  <2>5. CASE OutCount(r)
    BY <1>2, <1>3, <2>5 DEF OutCount
  <2> QED
    BY <2>1, <2>2, <2>3, <2>4, <2>5
<1>5. UNCHANGED <<startVars, breakOut, statVars, qosVars>>
  BY DEF Enqueue, InCost, InCount, OutCost, OutCount
<1> QED
  BY <1>4, <1>5 DEF TypeOK, Typed

\* So does the stat thread: it divides by a count that is positive.
LEMMA StatTypes == SInv /\ StatCalFunc => TypeOK'
<1> SUFFICES ASSUME SInv, StatCalFunc PROVE TypeOK'
  OBVIOUS
<1> USE ServerAssumption DEF SInv, TypeOK, StatStep, startVars, qosVars
<1>1. CASE StatCheck \/ StatWait \/ StatIn \/ StatInSeq \/ StatOut
  BY <1>1 DEF StatCheck, StatWait, StatIn, StatInSeq, StatOut
<1>2. CASE StatInAvg
  <2>1. inq.cost \in Nat /\ inq.count \in Nat \ {0}
    BY <1>2 DEF StatInAvg, CountsInv
  <2>2. inq.cost \div inq.count \in Nat
    BY <2>1, Average
  <2> QED
    BY <1>2, <2>2 DEF StatInAvg
<1>3. CASE StatOutAvg
  <2>1. outq.cost \in Nat /\ outq.count \in Nat \ {0}
    BY <1>3 DEF StatOutAvg, CountsInv
  <2>2. outq.cost \div outq.count \in Nat
    BY <2>1, Average
  <2> QED
    BY <1>3, <2>2 DEF StatOutAvg
<1>4. \A q \in [cost : Nat, count : 0..MaxCount] :
         /\ [q EXCEPT !.cost = 0] \in [cost : Nat, count : 0..MaxCount]
         /\ [q EXCEPT !.count = 0] \in [cost : Nat, count : 0..MaxCount]
  OBVIOUS
<1>5. CASE StatInCost \/ StatInCount \/ StatOutCost \/ StatOutCount
  <2>1. inq' \in [cost : Nat, count : 0..MaxCount] /\ outq' \in [cost : Nat, count : 0..MaxCount]
    BY <1>4, <1>5 DEF StatInCost, StatInCount, StatOutCost, StatOutCount
  <2> QED
    BY <1>5, <2>1 DEF StatInCost, StatInCount, StatOutCost, StatOutCount
<1> QED
  BY <1>1, <1>2, <1>3, <1>5 DEF StatCalFunc

\* So does the qos thread: the share stays below the whole, if the rate by which
\* it is adjusted is not negative.
LEMMA QosTypes == SInv /\ QosCalFunc => TypeOK'
<1> SUFFICES ASSUME SInv, QosCalFunc PROVE TypeOK'
  OBVIOUS
<1> USE ServerAssumption DEF SInv, QosStep, startVars, statVars
<1>1. CASE QosCheck \/ QosWait \/ QosRead \/ QosSeq
  BY <1>1 DEF QosCheck, QosWait, QosRead, QosSeq, TypeOK
<1>2. CASE QosAdjust
  <2>1. Configured
    BY <1>2 DEF QosAdjust, StartInv, Configured
  <2>2. rejectRate' \in {Raised, Lowered}
    BY <1>2 DEF QosAdjust
  <2>3. rejectRate' \in Int /\ (config.FastRejectAdjustRate >= 0 => rejectRate' \in 0..(Hundred - 1))
    <3>1. config.FastRejectAdjustRate \in Int /\ rejectRate \in Int /\ Hundred \in Nat \ {0}
      BY <2>1, ConfigNumbers DEF TypeOK
    <3>2. config.FastRejectAdjustRate >= 0 => rejectRate \in 0..(Hundred - 1)
      BY <2>1 DEF TypeOK, Configured
    <3> QED
      BY <2>2, <3>1, <3>2 DEF Raised, Lowered
  <2> QED
    BY <1>2, <2>3 DEF QosAdjust, TypeOK
<1> QED
  BY <1>1, <1>2 DEF QosCalFunc

\* The units that are constructed are alike but for the last.
LEMMA UnitsStep == SInv /\ UnitConstructed => UnitsInv'
<1> SUFFICES ASSUME SInv, UnitConstructed PROVE UnitsInv'
  OBVIOUS
<1> USE DEF SInv
<1>1. main = "units" /\ config.MaxThreads > 0 /\ IOCount # 0 /\ UNCHANGED config
  BY ConfigNumbers DEF UnitConstructed, Configured
<1>2. IOCount \in 1..config.MaxThreads /\ config.MaxThreads \in Nat
  BY <1>1, ConfigNumbers, FewUnits DEF Configured
<1>3. IOCount' = IOCount /\ Each' = Each
  BY <1>1 DEF IOCount, Each
<1> DEFINE n == Len(units)
           next == IF n = IOCount - 1 THEN config.MaxThreads - Each * (IOCount - 1) ELSE Each
<1>4. /\ units' = Append(units, next)
      /\ main' = IF n = IOCount - 1 THEN "listen" ELSE "units"
  BY DEF UnitConstructed, MainStep, Each
<1>5. n \in Nat /\ n < IOCount /\ units \in Seq(Nat) /\ \A i \in 1..n : units[i] = Each
  <2>1. units \in Seq(Nat) /\ n \in Nat
    BY DEF TypeOK
  <2>2. units = <<>> => n < IOCount
    BY <1>2
  <2>3. units # <<>> => n < IOCount
    BY <1>1 DEF UnitsInv
  <2> QED
    BY <1>1, <2>1, <2>2, <2>3 DEF UnitsInv
<1>6. /\ Len(units') = n + 1
      /\ \A i \in 1..(n + 1) : units'[i] = IF i = n + 1 THEN next ELSE units[i]
  BY <1>4, <1>5
<1>7. units' # <<>>
  BY <1>5, <1>6
<1> HIDE DEF n
<1>8. CASE n = IOCount - 1
  <2>1. main' = "listen" /\ Len(units') = IOCount
    BY <1>2, <1>4, <1>6, <1>8
  <2>2. \A i \in 1..Len(units') :
           units'[i] = IF i = IOCount THEN config.MaxThreads - Each * (IOCount - 1) ELSE Each
    BY <1>2, <1>5, <1>6, <1>8
  <2> QED
    BY <1>1, <1>3, <2>1, <2>2 DEF UnitsInv
<1>9. CASE n # IOCount - 1
  <2>1. main' = "units" /\ Len(units') < IOCount
    BY <1>2, <1>4, <1>5, <1>6, <1>9
  <2>2. \A i \in 1..Len(units') : units'[i] = Each
    BY <1>5, <1>6, <1>9
  <2> QED
    BY <1>1, <1>3, <2>1, <2>2 DEF UnitsInv
<1> QED
  BY <1>8, <1>9

\* Every step keeps the invariant.
LEMMA StepSInv == SInv /\ [Next]_vars => SInv'
<1> SUFFICES ASSUME SInv, [Next]_vars PROVE SInv'
  OBVIOUS
<1> USE DEF SInv
<1> DEFINE Request(r) == Enqueue(r) \/ InCost(r) \/ InCount(r) \/ OutCost(r) \/ OutCount(r)
<1>1. ASSUME UNCHANGED startVars PROVE UnitsInv'
  BY <1>1 DEF startVars, UnitsInv, Each, IOCount
<1>2. CASE Main
  <2>1. TypeOK'
    BY <1>2, MainTypes
  <2>2. UNCHANGED <<inq, outq>> /\ (main = "read" \/ UNCHANGED statPc)
    BY <1>2 DEF Main, MainStep, ReadFails, ReadConfig, StatConstructed, QosConstructed, UnitsFail,
                UnitConstructed, Listen
  <2>3. StartInv'
    BY <1>2 DEF Main, MainStep, ReadFails, ReadConfig, StatConstructed, QosConstructed, UnitsFail,
                UnitConstructed, Listen, StartInv
  <2>4. UnitsInv'
    <3>1. CASE UnitConstructed
      BY <3>1, UnitsStep
    <3>2. CASE Listen
      BY <3>2 DEF Listen, MainStep, UnitsInv, Each, IOCount
    <3>3. CASE ReadFails \/ ReadConfig \/ StatConstructed \/ QosConstructed \/ UnitsFail
      BY <3>3 DEF ReadFails, ReadConfig, StatConstructed, QosConstructed, UnitsFail, MainStep, UnitsInv
    <3> QED
      BY <1>2, <3>1, <3>2, <3>3 DEF Main
  <2>5. CountsInv'
    <3>1. CASE main = "read"
      <4>1. statPc' \in {"unborn", "check"}
        BY <1>2, <3>1 DEF Main, MainStep, ReadFails, ReadConfig, StatConstructed, QosConstructed,
                          UnitsFail, UnitConstructed, Listen, StartInv
      <4> QED
        BY <4>1 DEF CountsInv
    <3>2. CASE UNCHANGED statPc
      BY <2>2, <3>2 DEF CountsInv
    <3> QED
      BY <2>2, <3>1, <3>2
  <2> QED
    BY <2>1, <2>3, <2>4, <2>5
<1>3. ASSUME NEW r \in Requests, Request(r) PROVE SInv'
  <2>1. TypeOK' /\ inq'.count >= inq.count /\ outq'.count >= outq.count
    BY <1>3, RequestTypes
  <2>2. UNCHANGED <<startVars, statPc, qosPc, rejectRate>>
    BY <1>3 DEF Enqueue, InCost, InCount, OutCost, OutCount, Move, statVars, qosVars
  <2>3. StartInv'
    BY <2>2 DEF StartInv, startVars
  <2>4. CountsInv'
    <3>1. /\ inq.count \in Nat /\ inq'.count \in Nat
          /\ outq.count \in Nat /\ outq'.count \in Nat
      BY <2>1, ServerAssumption DEF TypeOK
    <3> QED
      BY <2>1, <2>2, <3>1, ServerAssumption DEF CountsInv
  <2> QED
    BY <1>1, <2>1, <2>2, <2>3, <2>4
<1>4. CASE Calm
  <2>1. UNCHANGED <<startVars, breakOut, inq, outq, statVars, qosVars>>
    BY <1>4 DEF Calm
  <2> QED
    BY <1>1, <2>1 DEF TypeOK, StartInv, CountsInv, startVars, statVars, qosVars
<1>5. CASE StatCalFunc
  <2>1. TypeOK'
    BY <1>5, StatTypes
  <2>2. UNCHANGED startVars /\ UNCHANGED <<qosPc, rejectRate>> /\ statPc # "unborn"
    BY <1>5 DEF StatCalFunc, StatCheck, StatWait, StatIn, StatInAvg, StatInCost, StatInCount,
                StatInSeq, StatOut, StatOutAvg, StatOutCost, StatOutCount, StatStep, qosVars
  <2>3. StartInv'
    BY <2>2 DEF StartInv, startVars
  <2>4. CountsInv'
    BY <1>5 DEF StatCalFunc, StatCheck, StatWait, StatIn, StatInAvg, StatInCost, StatInCount,
                StatInSeq, StatOut, StatOutAvg, StatOutCost, StatOutCount, StatStep, CountsInv
  <2> QED
    BY <1>1, <2>1, <2>2, <2>3, <2>4
<1>6. CASE QosCalFunc
  <2>1. TypeOK'
    BY <1>6, QosTypes
  <2>2. UNCHANGED startVars /\ UNCHANGED <<statPc, inq, outq>> /\ qosPc # "unborn"
    BY <1>6 DEF QosCalFunc, QosCheck, QosWait, QosRead, QosAdjust, QosSeq, QosStep, statVars
  <2>3. StartInv'
    BY <2>2 DEF StartInv, startVars
  <2>4. CountsInv'
    BY <2>2 DEF CountsInv
  <2> QED
    BY <1>1, <2>1, <2>2, <2>3, <2>4
<1>7. CASE UNCHANGED vars
  <2>1. UNCHANGED <<startVars, breakOut, inq, outq, statVars, qosVars>>
    BY <1>7 DEF vars
  <2> QED
    BY <1>1, <2>1 DEF TypeOK, StartInv, CountsInv, startVars, statVars, qosVars
<1> QED
  BY <1>2, <1>3, <1>4, <1>5, <1>6, <1>7 DEF Next

\* So it holds in every state a server reaches.
LEMMA Invariance == Spec => []SInv
<1> QED
  BY InitSInv, StepSInv, PTL DEF Spec

-----------------------------------------------------------------------------
(* What a server promises *)

\* The stat thread compares a count with the rate, and divides by it later
\* (HshaServerStat::CalFunc), while the workers and the io threads count on
\* without a lock: the divisor is never 0, for any number of them.
THEOREM TheDivisorIsCounted == Spec => []DivisorCounted
<1>1. SInv => DivisorCounted
  BY DEF SInv, CountsInv, DivisorCounted
<1> QED
  BY <1>1, Invariance, PTL

\* However many workers and io threads the file asks for, negative numbers and
\* 0 included: a server that listens has as many workers in its units together
\* as were asked for, and no unit without one (the constructor of HshaServer).
THEOREM EveryUnitHasWorkers == Spec => []UnitsExact
<1>1. SInv => UnitsExact
  <2> SUFFICES ASSUME SInv, main \in {"listen", "run"}
               PROVE  /\ Workers(units) = config.MaxThreads
                      /\ \A i \in DOMAIN units : units[i] > 0
                      /\ \A n \in {config.IOThreadCount} \cap Nat : Len(units) <= n
    BY DEF UnitsExact
  <2> DEFINE rest == config.MaxThreads - Each * (IOCount - 1)
  <2>1. /\ IOCount \in 1..config.MaxThreads /\ config.MaxThreads \in Nat
        /\ config.IOThreadCount \in Nat => IOCount <= config.IOThreadCount
    BY ConfigNumbers, FewUnits DEF SInv, UnitsInv, Configured
  <2>2. /\ Len(units) = IOCount /\ units \in Seq(Nat)
        /\ \A i \in 1..IOCount : units[i] = IF i = IOCount THEN rest ELSE Each
    BY DEF SInv, UnitsInv, TypeOK
  <2>3. Each \in Nat /\ Each > 0 /\ rest \in Nat /\ rest > 0
    BY <2>1, Shares DEF Each
  <2>4. Workers(units) = Each * (IOCount - 1) + rest
    <3>1. IOCount \in Nat \ {0} /\ Each \in Int /\ rest \in Int
      BY <2>1, <2>3
    <3> HIDE DEF rest
    <3> QED
      BY <2>2, <3>1, WorkersOfAlike
  <2>5. Each * (IOCount - 1) \in Int
    BY <2>1, <2>3
  <2> QED
    BY <2>1, <2>2, <2>3, <2>4, <2>5
<1> QED
  BY <1>1, Invariance, PTL

\* For every file: if it is well-formed, the search of Config::ReadItem ends
\* for every key, and what it gives is what the file says under the header of the
\* server, or the default of a key that is not there.
THEOREM ReadsWhatTheFileSays == Spec => ConfigMeans
<1>1. SInv /\ [Next]_vars => [ReadMeans]_vars
  <2> SUFFICES ASSUME SInv, Next, main = "read", main' \in {"stat", "hung"}, WellFormed(content)
               PROVE  /\ main' = "stat"
                      /\ \A k \in Required : Says(content, "Server", k, config'[k])
                      /\ \A k \in DOMAIN Default :
                            \/ Says(content, "Server", k, config'[k])
                            \/ config'[k] = Default[k] /\ ~Has(content, "Server", k)
    BY DEF ReadMeans
  <2> DEFINE missing == \E k \in Required : ~Found(content, "Server", k)
             keys == Required \cup (IF missing THEN {"MaxThreads"} ELSE DOMAIN Default)
             value(k) == ReadItem(content, "Server", k, IF k \in Required THEN 0 ELSE Default[k])
  <2>1. ReadConfig
    BY DEF Next, Main, ReadFails, StatConstructed, QosConstructed, UnitsFail, UnitConstructed, Listen,
           MainStep, Enqueue, InCost, InCount, OutCost, OutCount, Move, Calm, startVars,
           StatCalFunc, StatCheck, StatWait, StatIn, StatInAvg, StatInCost, StatInCount,
           StatInSeq, StatOut, StatOutAvg, StatOutCost, StatOutCount, StatStep,
           QosCalFunc, QosCheck, QosWait, QosRead, QosAdjust, QosSeq, QosStep
  <2>2. content \in Seq(Line)
    BY ServerAssumption DEF SInv, StartInv
  <2>3. \A k : ~Hangs(content, "Server", k)
    BY <2>2, SearchEnds
  <2>4. main' = "stat" /\ ~missing /\ config' = [k \in keys |-> value(k)]
    BY <2>1, <2>3 DEF ReadConfig, MainStep
  <2>5. \A k \in Required \cup DOMAIN Default : config'[k] = value(k)
    <3> HIDE DEF value
    <3> QED
      BY <2>4
  <2>6. \A k : Found(content, "Server", k) => Says(content, "Server", k, value(k))
    BY <2>2, FoundIsSaid
  <2>7. \A k \in DOMAIN Default \ Required :
           ~Found(content, "Server", k) => value(k) = Default[k] /\ ~Has(content, "Server", k)
    BY <2>2, NotFoundIsNotThere DEF ReadItem
  <2> HIDE DEF value
  <2> QED
    BY <2>4, <2>5, <2>6, <2>7
<1> QED
  BY <1>1, Invariance, PTL DEF Spec, ConfigMeans

=============================================================================

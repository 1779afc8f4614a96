------------------------------- MODULE Config -------------------------------
(***************************************************************************)
(* Config::ReadItem (src/phxrpc/file/config.cpp): the value of a key in a  *)
(* section of a file.  A file is the sequence of its lines.  A line is the *)
(* header of a section, or an item: the key that its first word begins     *)
(* with, whether the word goes on after it, whether the line has a "=",    *)
(* and the number behind it.  A blank line or a comment is an item of no   *)
(* key.                                                                    *)
(***************************************************************************)
EXTENDS Integers, Sequences

Header(section) == [header |-> TRUE, name |-> section]

\* The line "word = value".
Item(key, value) ==
    [header |-> FALSE, name |-> key, longer |-> FALSE, set |-> TRUE, value |-> value]

\* A line whose first word only begins with the key: "MaxThreadsPerUnit = 2".
LongerItem(key) == [Item(key, 0) EXCEPT !.longer = TRUE]

\* The line "word", without a "=".
BareItem(key) == [Item(key, 0) EXCEPT !.set = FALSE]

Line ==
    [header : {TRUE}, name : STRING]
    \cup [header : {FALSE}, name : STRING, longer : BOOLEAN, set : BOOLEAN, value : Int]

Smallest(S) == CHOOSE i \in S : \A j \in S : i <= j

Headers(file) == {i \in DOMAIN file : file[i].header}

\* A header is looked for behind a newline: not in the first line.
SectionStarts(file, section) == {i \in Headers(file) : i > 1 /\ file[i].name = section}

\* Mutant: the section goes on to the end of the file.
RegionToTheEnd(file, section) ==
    IF SectionStarts(file, section) = {} THEN {}
    ELSE {i \in DOMAIN file : i > Smallest(SectionStarts(file, section))}

\* The lines of the first section of that name, up to the next header.
Region(file, section) ==
    IF SectionStarts(file, section) = {} THEN {}
    ELSE LET first == Smallest(SectionStarts(file, section))
         IN  {i \in DOMAIN file :
                i > first /\ \A h \in Headers(file) : h > first => i < h}

\* The lines that ReadItem stops at: a bare word is passed over.
Stops(file, section, key) ==
    {i \in Region(file, section) :
        /\ ~file[i].header /\ file[i].name = key
        /\ file[i].longer \/ file[i].set}

Found(file, section, key) == Stops(file, section, key) # {}

\* At a longer word the loop searches again from the same place, forever.
Hangs(file, section, key) ==
    /\ Found(file, section, key)
    /\ file[Smallest(Stops(file, section, key))].longer

ReadItem(file, section, key, default) ==
    IF Found(file, section, key)
    THEN file[Smallest(Stops(file, section, key))].value
    ELSE default

-----------------------------------------------------------------------------
(* What a file says: the section a line is in is named by the last header  *)
(* before it.                                                              *)

In(file, i, section) ==
    \E h \in Headers(file) :
        /\ h < i /\ file[h].name = section
        /\ \A g \in Headers(file) : g <= h \/ g > i

Says(file, section, key, value) ==
    \E i \in DOMAIN file : file[i] = Item(key, value) /\ In(file, i, section)

Has(file, section, key) ==
    \E i \in DOMAIN file : file[i].name = key /\ In(file, i, section)

\* No section and no key of a section comes twice, the file begins with no
\* header, and every item is a key with a value.
WellFormed(file) ==
    /\ 1 \notin Headers(file)
    /\ \A i, j \in DOMAIN file :
          (file[i].header = file[j].header /\ file[i].name = file[j].name) => i = j
    /\ \A i \in DOMAIN file \ Headers(file) : file[i].set /\ ~file[i].longer
=============================================================================

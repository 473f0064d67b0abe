------------------------------ MODULE SSTables -----------------------------
(***************************************************************************)
(* The SSTable files of engine/sstable.cpp and the order in which db.cpp   *)
(* searches them.  A file is absent (NoFile), cut short by a crash (TornFile)  *)
(* or complete, and then it is the map from keys to values it stores.      *)
(***************************************************************************)
EXTENDS Integers, Sequences, FiniteSets, MemTable

CONSTANTS
  TornFile, NoFile,
  MaxSst,       \* bound: files numbered 0 .. MaxSst - 1
  Radix         \* base in which a file name writes its number (10 in the code)

Contents == [Keys -> Vals \union {Missing}]
Ids == 0 .. MaxSst - 1
Disk == [Ids -> {NoFile, TornFile} \union Contents]

ASSUME SstAssumption ==
  /\ MaxSst \in Nat /\ Radix \in Nat \ {0, 1}
  /\ MaxSst <= Radix * Radix
  /\ NoFile # TornFile
  /\ NoFile \notin Contents /\ TornFile \notin Contents
  /\ TornFile \notin Vals \union {Missing}

OnDisk(sst) == {i \in Ids : sst[i] # NoFile}
Complete(sst, i) == sst[i] \notin {NoFile, TornFile}

\* Path order of sst_<a>.sst and sst_<b>.sst for numbers of one or two
\* digits: compare the leading digits; on a tie the shorter name comes first.
LeadingDigit(n) == IF n < Radix THEN n ELSE n \div Radix
PathLess(a, b) ==
  \/ LeadingDigit(a) < LeadingDigit(b)
  \/ LeadingDigit(a) = LeadingDigit(b) /\ a < b

\* Faulty variant: the order in which the directory iterator lists them.
UnsortedListings(S) ==
  {s \in [1 .. Cardinality(S) -> S] : \A x \in S : \E i \in DOMAIN s : s[i] = x}

\* std::sort over the paths found in the directory.
SortedListings(S) ==
  {s \in [1 .. Cardinality(S) -> S] :
     /\ \A x \in S : \E i \in DOMAIN s : s[i] = x
     /\ \A i, j \in DOMAIN s : i < j => PathLess(s[i], s[j])}

\* Search a list of files from its end for k.  A file that is TornFile stops the
\* process (the assertion on the magic number), so it answers every key.
Answers(sst, files, k) ==
  {i \in DOMAIN files : sst[files[i]] = TornFile \/ sst[files[i]][k] # Missing}

\* Faulty variant: the search begins with the oldest file.
FirstOf(I) == CHOOSE i \in I : \A j \in I : i <= j

LastOf(I) == CHOOSE i \in I : \A j \in I : j <= i

Lookup(sst, files, k) ==
  LET I == Answers(sst, files, k)
  IN  IF I = {} THEN Missing
      ELSE IF sst[files[LastOf(I)]] = TornFile THEN TornFile
      ELSE sst[files[LastOf(I)]][k]

\* The answer of the files by number, highest first, which is what the code
\* intends; torn files hold no answer.
Holders(sst, k) == {i \in Ids : Complete(sst, i) /\ sst[i][k] # Missing}

FileValue(sst, k) ==
  IF Holders(sst, k) = {} THEN Missing ELSE sst[LastOf(Holders(sst, k))][k]
=============================================================================

---------------------------- MODULE TableProofs ----------------------------
(***************************************************************************)
(* What the tables of the reports hold: the lines of the files, cell by    *)
(* cell, for any presses, days, records and headers.                       *)
(***************************************************************************)
EXTENDS Reports, TLAPS, SequenceTheorems, FiniteSetTheorems,
        WellFoundedInduction, FunctionTheorems

-----------------------------------------------------------------------------
(* The invariant.                                                          *)

\* The record as the parser has it, and the rows made of it.
Dict(m, d, i) == DictZip(HeaderAt(m, i), DataLine(HeaderAt(m, i), log[m][d][i]).cells)

RunRow(m, d, i) == RowToDb(Dict(m, d, i), m, d, i - 1)

TrayRows(m, d, i) == ExtractMedia(Dict(m, d, i), m, d, IntVal(Dict(m, d, i), "jobid"), i - 1)

SourceType ==
  /\ \A m \in Machines, d \in Days : log[m][d] \in Logs[m][d]
  /\ layout \in [Machines -> Layouts]

\* As many rows as the day has say how many of its records were read.
Imported(m, d) == Cardinality(OfDay(jobs, m, d))

\* The rows of a day are its first records, whichever file they came from.
DayIsRead(m, d) ==
  /\ Imported(m, d) \in 0 .. Len(log[m][d])
  /\ OfDay(jobs, m, d) = {RunRow(m, d, i) : i \in 1 .. Imported(m, d)}
  /\ OfDay(media, m, d) = UNION {TrayRows(m, d, i) : i \in 1 .. Imported(m, d)}

TablesInv ==
  /\ SourceType
  /\ syncLog \in [Machines -> [Days -> {"none", "ACL", "CSV"}]]
  /\ \A r \in jobs \cup media : r.machine \in Machines /\ r.date \in Days
  /\ \A m \in Machines, d \in Days : DayIsRead(m, d)

-----------------------------------------------------------------------------
(* Induction along a sequence, and the last index with a property.         *)

LEMMA UpTo ==
  ASSUME NEW n \in Nat, NEW S, 0 \in S, \A i \in 0 .. n : i # n /\ i \in S => i + 1 \in S
  PROVE  0 .. n \subseteq S
<1>. DEFINE Bad == (0 .. n) \ S
<1>. SUFFICES ASSUME Bad # {} PROVE FALSE
  OBVIOUS
<1>1. PICK b \in Bad : \A c \in Bad : <<c, b>> \notin OpToRel(<, Nat)
  <2>1. Bad \subseteq Nat
    OBVIOUS
  <2>. HIDE DEF Bad
  <2>. QED  BY <2>1, NatLessThanWellFounded, WFMin
<1>2. b \in Nat /\ b # 0 /\ b <= n /\ b - 1 \in 0 .. n /\ b - 1 # n
  OBVIOUS
<1>3. b - 1 \notin Bad
  <2>1. <<b - 1, b>> \in OpToRel(<, Nat)
    BY <1>2 DEF OpToRel
  <2>. QED  BY <1>1, <2>1
<1>. QED  BY <1>2, <1>3

LEMMA MaxIsIn ==
  ASSUME NEW n \in Nat, NEW S \in SUBSET (0 .. n), S # {}
  PROVE  Max(S) \in S /\ \A x \in S : x <= Max(S)
<1>1. \E x \in S : \A y \in S : x >= y
  <2>. SUFFICES ASSUME \A x \in S : \E y \in S : ~ (x >= y) PROVE FALSE
    OBVIOUS
  <2>. DEFINE T == {i \in 0 .. n : \E x \in S : x >= i}
  <2>1. 0 \in T
    <3>1. PICK x \in S : TRUE
      OBVIOUS
    <3>2. x \in 0 .. n /\ x >= 0 /\ 0 \in 0 .. n
      OBVIOUS
    <3>. QED  BY <3>2
  <2>2. \A i \in 0 .. n : i # n /\ i \in T => i + 1 \in T
    <3>. SUFFICES ASSUME NEW i \in 0 .. n, i # n, i \in T PROVE i + 1 \in T
      OBVIOUS
    <3>1. PICK x \in S : x >= i
      OBVIOUS
    <3>2. PICK y \in S : ~ (x >= y)
      OBVIOUS
    <3>3. y >= i + 1 /\ i + 1 \in 0 .. n
      BY <3>1, <3>2
    <3>. QED  BY <3>3
  <2>3. 0 .. n \subseteq T
    <3>. HIDE DEF T
    <3>. QED  BY <2>1, <2>2, UpTo
  <2>4. PICK x \in S : x >= n
    BY <2>3
  <2>5. PICK y \in S : ~ (x >= y)
    OBVIOUS
  <2>. QED  BY <2>4, <2>5
<1>. QED  BY <1>1 DEF Max

-----------------------------------------------------------------------------
(* The file and its parser, line by line.                                  *)

NoLine == [header |-> <<>>, rows |-> <<>>]

IsReading(read, lines, n) ==
  read = [k \in 0 .. n |-> IF k = 0 THEN NoLine ELSE ParseLine(read[k - 1], lines[k])]

LEMMA ReadingExists ==
  ASSUME NEW lines, NEW n \in Nat
  PROVE  \E read : IsReading(read, lines, n)
<1>. DEFINE S == {i \in 0 .. n : \E read : IsReading(read, lines, i)}
<1>1. 0 \in S
  <2>1. IsReading([k \in 0 .. 0 |-> NoLine], lines, 0)
    BY DEF IsReading
  <2>. QED  BY <2>1
<1>2. ASSUME NEW i \in 0 .. n, i # n, i \in S PROVE i + 1 \in S
  <2>1. PICK read : IsReading(read, lines, i)
    BY <1>2
  <2>. DEFINE more == [k \in 0 .. i + 1 |->
                         IF k = i + 1 THEN ParseLine(read[i], lines[k]) ELSE read[k]]
  <2>2. ASSUME NEW k \in 0 .. i + 1
        PROVE  more[k] = IF k = 0 THEN NoLine ELSE ParseLine(more[k - 1], lines[k])
    <3>1. CASE k = i + 1
      <4>1. k # 0 /\ k - 1 = i /\ more[i] = read[i]
        BY <3>1, <1>2
      <4>. QED  BY <3>1, <4>1
    <3>2. CASE k # i + 1
      <4>1. k \in 0 .. i /\ more[k] = read[k]
        BY <3>2, <1>2
      <4>2. read[k] = IF k = 0 THEN NoLine ELSE ParseLine(read[k - 1], lines[k])
        BY <2>1, <4>1 DEF IsReading
      <4>3. k # 0 => more[k - 1] = read[k - 1]
        BY <4>1, <1>2
      <4>. QED  BY <4>1, <4>2, <4>3
    <3>. QED  BY <3>1, <3>2
  <2>3. more = [k \in 0 .. i + 1 |-> more[k]]
    OBVIOUS
  <2>4. IsReading(more, lines, i + 1)
    <3>. HIDE DEF more
    <3>. QED  BY <2>2, <2>3 DEF IsReading
  <2>5. i + 1 \in 0 .. n
    BY <1>2
  <2>. QED  BY <2>4, <2>5
<1>3. 0 .. n \subseteq S
  <2>. HIDE DEF S
  <2>. QED  BY <1>1, <1>2, UpTo
<1>. QED  BY <1>3

LEMMA ParseReads ==
  ASSUME NEW lines, Len(lines) \in Nat
  PROVE  \E read : IsReading(read, lines, Len(lines)) /\ ParseCsv(lines) = read[Len(lines)].rows
<1>. DEFINE read == CHOOSE read : IsReading(read, lines, Len(lines))
<1>1. IsReading(read, lines, Len(lines))
  BY ReadingExists
<1>2. ParseCsv(lines) = read[Len(lines)].rows
  BY DEF ParseCsv, IsReading, NoLine
<1>. HIDE DEF read
<1>. QED  BY <1>1, <1>2

IsFile(upTo, m, d, n) ==
  upTo = [i \in 0 .. n |->
            IF i = 0 THEN <<HeaderLine(m, 1)>> ELSE upTo[i - 1] \o Written(m, d, i)]

LEMMA FileExists ==
  ASSUME NEW m, NEW d, NEW n \in Nat
  PROVE  \E upTo : IsFile(upTo, m, d, n)
<1>. DEFINE S == {i \in 0 .. n : \E upTo : IsFile(upTo, m, d, i)}
<1>1. 0 \in S
  <2>1. IsFile([k \in 0 .. 0 |-> <<HeaderLine(m, 1)>>], m, d, 0)
    BY DEF IsFile
  <2>. QED  BY <2>1
<1>2. ASSUME NEW i \in 0 .. n, i # n, i \in S PROVE i + 1 \in S
  <2>1. PICK upTo : IsFile(upTo, m, d, i)
    BY <1>2
  <2>. DEFINE more == [k \in 0 .. i + 1 |->
                         IF k = i + 1 THEN upTo[i] \o Written(m, d, k) ELSE upTo[k]]
  <2>2. ASSUME NEW k \in 0 .. i + 1
        PROVE  more[k] = IF k = 0 THEN <<HeaderLine(m, 1)>> ELSE more[k - 1] \o Written(m, d, k)
    <3>1. CASE k = i + 1
      <4>1. k # 0 /\ k - 1 = i /\ more[i] = upTo[i]
        BY <3>1, <1>2
      <4>. QED  BY <3>1, <4>1
    <3>2. CASE k # i + 1
      <4>1. k \in 0 .. i /\ more[k] = upTo[k]
        BY <3>2, <1>2
      <4>2. upTo[k] = IF k = 0 THEN <<HeaderLine(m, 1)>> ELSE upTo[k - 1] \o Written(m, d, k)
        BY <2>1, <4>1 DEF IsFile
      <4>3. k # 0 => more[k - 1] = upTo[k - 1]
        BY <4>1, <1>2
      <4>. QED  BY <4>1, <4>2, <4>3
    <3>. QED  BY <3>1, <3>2
  <2>3. more = [k \in 0 .. i + 1 |-> more[k]]
    OBVIOUS
  <2>4. IsFile(more, m, d, i + 1)
    <3>. HIDE DEF more
    <3>. QED  BY <2>2, <2>3 DEF IsFile
  <2>5. i + 1 \in 0 .. n
    BY <1>2
  <2>. QED  BY <2>4, <2>5
<1>3. 0 .. n \subseteq S
  <2>. HIDE DEF S
  <2>. QED  BY <1>1, <1>2, UpTo
<1>. QED  BY <1>3

LEMMA FileIsWritten ==
  ASSUME NEW m, NEW d, NEW n \in Nat
  PROVE  \E upTo : IsFile(upTo, m, d, n) /\ File(m, d, n) = upTo[n]
<1>. DEFINE upTo == CHOOSE upTo : IsFile(upTo, m, d, n)
<1>1. IsFile(upTo, m, d, n)
  BY FileExists
<1>2. File(m, d, n) = upTo[n]
  BY DEF File, IsFile
<1>. HIDE DEF upTo
<1>. QED  BY <1>1, <1>2

-----------------------------------------------------------------------------
(* What the parser makes of a file.                                        *)

\* The header in force after i records, and the rows of the first i.
InForce(m, i) == HeaderAt(m, IF i = 0 THEN 1 ELSE i)

RowsRead(m, d, i) == [j \in 1 .. i |-> Dict(m, d, j)]

LineOf(m, d, i) == DataLine(HeaderAt(m, i), log[m][d][i])

LEMMA HeaderFacts ==
  ASSUME SourceType, NEW m \in Machines, NEW i \in Nat \ {0}
  PROVE  HeaderAt(m, i) # <<>> /\ HeaderAt(m, i) \in Seq(STRING)
<1>1. layout[m] \in Layouts
  BY DEF SourceType
<1>2. /\ layout[m] \in Seq(Seq(STRING)) /\ layout[m] # <<>>
      /\ \A j \in DOMAIN layout[m] : layout[m][j] # <<>>
  BY <1>1, LayoutsAssumption
<1>3. (IF i > Len(layout[m]) THEN Len(layout[m]) ELSE i) \in DOMAIN layout[m]
  BY <1>2
<1>. QED  BY <1>2, <1>3 DEF HeaderAt

LinesOf(m, d) == {HeaderLine(m, i) : i \in Nat} \cup {LineOf(m, d, i) : i \in Nat}

LEMMA WrittenLines ==
  ASSUME NEW m, NEW d, NEW i \in Nat
  PROVE  /\ Written(m, d, i) \in Seq(LinesOf(m, d))
         /\ HeaderLine(m, i) \in LinesOf(m, d)
<1>1. HeaderLine(m, i) \in LinesOf(m, d) /\ LineOf(m, d, i) \in LinesOf(m, d)
  BY DEF LinesOf
<1>2. <<HeaderLine(m, i)>> \in Seq(LinesOf(m, d)) /\ <<LineOf(m, d, i)>> \in Seq(LinesOf(m, d))
  BY <1>1
<1>3. <<HeaderLine(m, i)>> \o <<LineOf(m, d, i)>> \in Seq(LinesOf(m, d))
  BY <1>2
<1>4. \/ Written(m, d, i) = <<HeaderLine(m, i)>> \o <<LineOf(m, d, i)>>
      \/ Written(m, d, i) = <<LineOf(m, d, i)>>
  BY DEF Written, LineOf
<1>. QED  BY <1>1, <1>2, <1>3, <1>4

\* The first lines of a file are those of its first records.
LEMMA FileLines ==
  ASSUME NEW m, NEW d, NEW n \in Nat, NEW upTo, IsFile(upTo, m, d, n)
  PROVE  /\ upTo[0] = <<HeaderLine(m, 1)>>
         /\ \A i \in 0 .. n : upTo[i] \in Seq(LinesOf(m, d))
         /\ \A i \in 0 .. n : i # n => upTo[i + 1] = upTo[i] \o Written(m, d, i + 1)
<1>. DEFINE S == {i \in 0 .. n : upTo[i] \in Seq(LinesOf(m, d))}
<1>1. upTo[0] = <<HeaderLine(m, 1)>>
  BY DEF IsFile
<1>2. ASSUME NEW i \in 0 .. n, i # n PROVE upTo[i + 1] = upTo[i] \o Written(m, d, i + 1)
  <2>1. i + 1 \in 0 .. n /\ i + 1 # 0 /\ (i + 1) - 1 = i
    BY <1>2
  <2>. QED  BY <2>1 DEF IsFile
<1>3. 0 \in S
  <2>1. HeaderLine(m, 1) \in LinesOf(m, d)
    BY WrittenLines
  <2>2. upTo[0] \in Seq(LinesOf(m, d))
    BY <1>1, <2>1
  <2>. QED  BY <2>2
<1>4. ASSUME NEW i \in 0 .. n, i # n, i \in S PROVE i + 1 \in S
  <2>1. i + 1 \in 0 .. n /\ i + 1 \in Nat
    BY <1>4
  <2>2. Written(m, d, i + 1) \in Seq(LinesOf(m, d))
    BY <2>1, WrittenLines
  <2>3. upTo[i] \in Seq(LinesOf(m, d))
    BY <1>4
  <2>4. upTo[i] \o Written(m, d, i + 1) \in Seq(LinesOf(m, d))
    BY <2>2, <2>3
  <2>. QED  BY <1>2, <1>4, <2>1, <2>4
<1>5. 0 .. n \subseteq S
  <2>. HIDE DEF S
  <2>. QED  BY <1>3, <1>4, UpTo
<1>. QED  BY <1>1, <1>2, <1>5

Prefix(a, b) == Len(a) <= Len(b) /\ \A k \in 1 .. Len(a) : b[k] = a[k]

LEMMA PrefixOfConcat ==
  ASSUME NEW L, NEW a \in Seq(L), NEW b \in Seq(L), NEW c \in Seq(L)
  PROVE  /\ Prefix(a, b) => Prefix(a, b \o c)
         /\ Prefix(a, a)
BY DEF Prefix

LEMMA FilePrefix ==
  ASSUME NEW m, NEW d, NEW n \in Nat, NEW upTo, IsFile(upTo, m, d, n), NEW i \in 0 .. n
  PROVE  Prefix(upTo[i], upTo[n])
<1>. DEFINE S == {j \in 0 .. n : i <= j => Prefix(upTo[i], upTo[j])}
<1>0. \A j \in 0 .. n : upTo[j] \in Seq(LinesOf(m, d))
  BY FileLines
<1>1. 0 \in S
  BY <1>0, PrefixOfConcat
<1>2. ASSUME NEW j \in 0 .. n, j # n, j \in S PROVE j + 1 \in S
  <2>1. j + 1 \in 0 .. n /\ j + 1 \in Nat
    BY <1>2
  <2>2. upTo[j + 1] = upTo[j] \o Written(m, d, j + 1)
    BY <1>2, FileLines
  <2>3. Written(m, d, j + 1) \in Seq(LinesOf(m, d))
    BY <2>1, WrittenLines
  <2>4. CASE i = j + 1
    BY <1>0, <2>1, <2>4, PrefixOfConcat
  <2>5. CASE i <= j
    <3>1. Prefix(upTo[i], upTo[j])
      BY <1>2, <2>5
    <3>2. Prefix(upTo[i], upTo[j + 1])
      BY <1>0, <1>2, <2>2, <2>3, <3>1, PrefixOfConcat
    <3>. QED  BY <2>1, <3>2
  <2>6. CASE i > j + 1
    BY <2>1, <2>6
  <2>. QED  BY <1>2, <2>4, <2>5, <2>6
<1>3. 0 .. n \subseteq S
  <2>. HIDE DEF S
  <2>. QED  BY <1>1, <1>2, UpTo
<1>. QED  BY <1>3

LEMMA ConcatOne ==
  ASSUME NEW L, NEW a \in Seq(L), NEW x \in L
  PROVE  /\ Len(a) \in Nat /\ Len(a \o <<x>>) = Len(a) + 1
         /\ (a \o <<x>>)[Len(a) + 1] = x
<1>1. <<x>> \in Seq(L) /\ Len(<<x>>) = 1 /\ <<x>>[1] = x
  OBVIOUS
<1>2. Len(a) \in Nat /\ Len(a) + 1 \in 1 .. Len(a) + 1 /\ (Len(a) + 1) - Len(a) = 1
  OBVIOUS
<1>. QED  BY <1>1, <1>2, ConcatProperties

LEMMA ConcatTwo ==
  ASSUME NEW L, NEW a \in Seq(L), NEW x \in L, NEW y \in L
  PROVE  /\ Len(a) \in Nat /\ Len(a \o (<<x>> \o <<y>>)) = Len(a) + 2
         /\ (a \o (<<x>> \o <<y>>))[Len(a) + 1] = x
         /\ (a \o (<<x>> \o <<y>>))[Len(a) + 2] = y
<1>. DEFINE b == a \o <<x>>
<1>1. b \in Seq(L) /\ Len(a) \in Nat /\ Len(b) = Len(a) + 1 /\ b[Len(a) + 1] = x
  BY ConcatOne
<1>2. a \o (<<x>> \o <<y>>) = b \o <<y>>
  <2>1. <<x>> \in Seq(L) /\ <<y>> \in Seq(L)
    OBVIOUS
  <2>. QED  BY <2>1, ConcatAssociative
<1>3. /\ Len(b \o <<y>>) = Len(b) + 1 /\ (b \o <<y>>)[Len(b) + 1] = y
  BY <1>1, ConcatOne
<1>4. (b \o <<y>>)[Len(a) + 1] = b[Len(a) + 1]
  <2>1. <<y>> \in Seq(L) /\ Len(<<y>>) = 1
    OBVIOUS
  <2>. HIDE DEF b
  <2>. QED  BY <1>1, <2>1, ConcatProperties
<1>5. (Len(a) + 1) + 1 = Len(a) + 2
  BY <1>1
<1>. QED  BY <1>1, <1>2, <1>3, <1>4, <1>5

LEMMA ParseHeaderLine ==
  ASSUME NEW m, NEW i, NEW h, NEW r
  PROVE  ParseLine([header |-> h, rows |-> r], HeaderLine(m, i))
           = [header |-> HeaderAt(m, i), rows |-> r]
BY DEF ParseLine, HeaderLine

LEMMA ParseDataLine ==
  ASSUME NEW m, NEW d, NEW i \in Nat, HeaderAt(m, i + 1) # <<>>
  PROVE  ParseLine([header |-> HeaderAt(m, i + 1), rows |-> RowsRead(m, d, i)], LineOf(m, d, i + 1))
           = [header |-> HeaderAt(m, i + 1), rows |-> RowsRead(m, d, i + 1)]
<1>1. Append(RowsRead(m, d, i), Dict(m, d, i + 1)) = RowsRead(m, d, i + 1)
  <2>. DEFINE D == {Dict(m, d, j) : j \in Nat}
  <2>1. RowsRead(m, d, i) \in Seq(D) /\ Len(RowsRead(m, d, i)) = i
    BY DEF RowsRead
  <2>2. RowsRead(m, d, i + 1) \in Seq(D) /\ Len(RowsRead(m, d, i + 1)) = i + 1
    BY DEF RowsRead
  <2>3. Dict(m, d, i + 1) \in D
    OBVIOUS
  <2>. HIDE DEF D
  <2>4. /\ Append(RowsRead(m, d, i), Dict(m, d, i + 1)) \in Seq(D)
        /\ Len(Append(RowsRead(m, d, i), Dict(m, d, i + 1))) = i + 1
    BY <2>1, <2>3
  <2>5. ASSUME NEW k \in 1 .. i + 1
        PROVE  Append(RowsRead(m, d, i), Dict(m, d, i + 1))[k] = RowsRead(m, d, i + 1)[k]
    <3>1. RowsRead(m, d, i + 1)[k] = Dict(m, d, k)
      BY DEF RowsRead
    <3>2. CASE k = i + 1
      BY <2>1, <2>3, <3>1, <3>2
    <3>3. CASE k # i + 1
      <4>1. k \in 1 .. i
        BY <3>3
      <4>2. RowsRead(m, d, i)[k] = Dict(m, d, k)
        BY <4>1 DEF RowsRead
      <4>. QED  BY <2>1, <2>3, <3>1, <4>1, <4>2
    <3>. QED  BY <3>2, <3>3
  <2>. QED  BY <2>2, <2>4, <2>5, SeqEqual
<1>2. LineOf(m, d, i + 1).mark = "4303"
  BY DEF LineOf, DataLine
<1>3. Dict(m, d, i + 1) = DictZip(HeaderAt(m, i + 1), LineOf(m, d, i + 1).cells)
  BY DEF Dict, LineOf
<1>. QED  BY <1>1, <1>2, <1>3 DEF ParseLine

\* The parser gives back the records of a file one by one, each under the header
\* that was in force.
LEMMA ParsedFile ==
  ASSUME SourceType, NEW m \in Machines, NEW d \in Days, NEW n \in Nat
  PROVE  ParseCsv(File(m, d, n)) = RowsRead(m, d, n)
<1>. DEFINE State(i) == [header |-> InForce(m, i), rows |-> RowsRead(m, d, i)]
<1>1. PICK upTo : IsFile(upTo, m, d, n) /\ File(m, d, n) = upTo[n]
  BY FileIsWritten
<1>2. PICK lines : lines = upTo[n]
  OBVIOUS
<1>3. /\ upTo[0] = <<HeaderLine(m, 1)>>
      /\ \A i \in 0 .. n : upTo[i] \in Seq(LinesOf(m, d))
      /\ \A i \in 0 .. n : i # n => upTo[i + 1] = upTo[i] \o Written(m, d, i + 1)
  BY <1>1, FileLines
<1>4. \A i \in 0 .. n : Prefix(upTo[i], lines)
  BY <1>1, <1>2, FilePrefix
<1>5. lines \in Seq(LinesOf(m, d)) /\ Len(lines) \in Nat
  BY <1>2, <1>3
<1>6. PICK read : IsReading(read, lines, Len(lines)) /\ ParseCsv(lines) = read[Len(lines)].rows
  BY <1>5, ParseReads
<1>7. read[0] = NoLine /\ \A k \in 1 .. Len(lines) : read[k] = ParseLine(read[k - 1], lines[k])
  BY <1>5, <1>6 DEF IsReading
<1>. DEFINE S == {i \in 0 .. n : read[Len(upTo[i])] = State(i)}
<1>8. 0 \in S
  <2>1. Len(upTo[0]) = 1 /\ upTo[0][1] = HeaderLine(m, 1)
    BY <1>3
  <2>2. 1 \in 1 .. Len(lines) /\ lines[1] = HeaderLine(m, 1)
    BY <1>4, <1>5, <2>1 DEF Prefix
  <2>3. read[1] = ParseLine(NoLine, HeaderLine(m, 1))
    BY <1>7, <2>2
  <2>4. RowsRead(m, d, 0) = <<>>
    BY DEF RowsRead
  <2>5. read[1] = [header |-> HeaderAt(m, 1), rows |-> <<>>]
    BY <2>3, ParseHeaderLine DEF NoLine
  <2>6. InForce(m, 0) = HeaderAt(m, 1)
    BY DEF InForce
  <2>7. State(0) = [header |-> HeaderAt(m, 1), rows |-> <<>>]
    BY <2>4, <2>6
  <2>. HIDE DEF State
  <2>8. read[Len(upTo[0])] = State(0)
    BY <2>1, <2>5, <2>7
  <2>. QED  BY <2>8
<1>9. ASSUME NEW i \in 0 .. n, i # n, i \in S PROVE i + 1 \in S
  <2>1. i \in Nat /\ i + 1 \in 0 .. n /\ i + 1 \in Nat \ {0} /\ (i + 1) - 1 = i
    BY <1>9
  <2>2. PICK first \in Seq(LinesOf(m, d)) : first = upTo[i]
    BY <1>3, <1>9
  <2>3. PICK next : next = upTo[i + 1]
    OBVIOUS
  <2>4. next = first \o Written(m, d, i + 1) /\ Prefix(next, lines)
    BY <1>3, <1>4, <1>9, <2>1, <2>2, <2>3
  <2>5. Len(first) \in Nat /\ read[Len(first)] = State(i)
    BY <1>9, <2>2
  <2>6. HeaderAt(m, i + 1) # <<>>
    BY <2>1, HeaderFacts
  <2>7. InForce(m, i + 1) = HeaderAt(m, i + 1)
    BY <2>1 DEF InForce
  <2>8. HeaderLine(m, i + 1) \in LinesOf(m, d) /\ LineOf(m, d, i + 1) \in LinesOf(m, d)
    BY <2>1 DEF LinesOf
  <2>9. CASE i + 1 > 1 /\ HeaderAt(m, i + 1) # HeaderAt(m, i)
    <3>1. Written(m, d, i + 1) = <<HeaderLine(m, i + 1)>> \o <<LineOf(m, d, i + 1)>>
      BY <2>1, <2>9 DEF Written, LineOf
    <3>2. /\ Len(next) = Len(first) + 2
          /\ next[Len(first) + 1] = HeaderLine(m, i + 1)
          /\ next[Len(first) + 2] = LineOf(m, d, i + 1)
      <4>1. PICK line \in LinesOf(m, d) : line = LineOf(m, d, i + 1)
        BY <2>8
      <4>2. PICK head \in LinesOf(m, d) : head = HeaderLine(m, i + 1)
        BY <2>8
      <4>3. next = first \o (<<head>> \o <<line>>)
        BY <2>4, <3>1, <4>1, <4>2
      <4>4. /\ Len(first \o (<<head>> \o <<line>>)) = Len(first) + 2
            /\ (first \o (<<head>> \o <<line>>))[Len(first) + 1] = head
            /\ (first \o (<<head>> \o <<line>>))[Len(first) + 2] = line
        BY <2>2, <4>1, <4>2, ConcatTwo
      <4>. QED  BY <4>1, <4>2, <4>3, <4>4
    <3>3. /\ {Len(first) + 1, Len(first) + 2} \subseteq 1 .. Len(lines)
          /\ (Len(first) + 1) - 1 = Len(first) /\ (Len(first) + 2) - 1 = Len(first) + 1
      BY <1>5, <2>4, <2>5, <3>2 DEF Prefix
    <3>4. /\ lines[Len(first) + 1] = HeaderLine(m, i + 1)
          /\ lines[Len(first) + 2] = LineOf(m, d, i + 1)
      BY <1>5, <2>4, <2>5, <3>2 DEF Prefix
    <3>5. read[Len(first) + 1] = [header |-> HeaderAt(m, i + 1), rows |-> RowsRead(m, d, i)]
      BY <1>7, <2>5, <3>3, <3>4, ParseHeaderLine
    <3>6. read[Len(first) + 2] = ParseLine(read[Len(first) + 1], LineOf(m, d, i + 1))
      BY <1>7, <3>3, <3>4
    <3>7. read[Len(first) + 2] = [header |-> HeaderAt(m, i + 1), rows |-> RowsRead(m, d, i + 1)]
      BY <2>1, <2>6, <3>5, <3>6, ParseDataLine
    <3>. QED  BY <2>1, <2>3, <2>7, <3>2, <3>7
  <2>10. CASE ~ (i + 1 > 1 /\ HeaderAt(m, i + 1) # HeaderAt(m, i))
    <3>1. Written(m, d, i + 1) = <<LineOf(m, d, i + 1)>>
      BY <2>1, <2>10 DEF Written, LineOf
    <3>2. InForce(m, i) = HeaderAt(m, i + 1)
      BY <2>1, <2>10 DEF InForce
    <3>3. Len(next) = Len(first) + 1 /\ next[Len(first) + 1] = LineOf(m, d, i + 1)
      <4>1. PICK line \in LinesOf(m, d) : line = LineOf(m, d, i + 1)
        BY <2>8
      <4>2. next = first \o <<line>>
        BY <2>4, <3>1, <4>1
      <4>3. Len(first \o <<line>>) = Len(first) + 1 /\ (first \o <<line>>)[Len(first) + 1] = line
        BY <2>2, <4>1, ConcatOne
      <4>. QED  BY <4>1, <4>2, <4>3
    <3>4. Len(first) + 1 \in 1 .. Len(lines) /\ (Len(first) + 1) - 1 = Len(first)
      BY <1>5, <2>4, <2>5, <3>3 DEF Prefix
    <3>5. lines[Len(first) + 1] = LineOf(m, d, i + 1)
      BY <1>5, <2>4, <2>5, <3>3 DEF Prefix
    <3>6. read[Len(first) + 1] = ParseLine(read[Len(first)], LineOf(m, d, i + 1))
      BY <1>7, <3>4, <3>5
    <3>7. read[Len(first) + 1] = [header |-> HeaderAt(m, i + 1), rows |-> RowsRead(m, d, i + 1)]
      BY <2>1, <2>5, <2>6, <3>2, <3>6, ParseDataLine
    <3>. QED  BY <2>1, <2>3, <2>7, <3>3, <3>7
  <2>. QED  BY <2>9, <2>10
<1>10. 0 .. n \subseteq S
  <2>. HIDE DEF S
  <2>. QED  BY <1>8, <1>9, UpTo
<1>11. read[Len(lines)] = State(n)
  BY <1>2, <1>10
<1>. QED  BY <1>1, <1>2, <1>6, <1>11

-----------------------------------------------------------------------------
(* A record says the same in its line, cut off after the last cell that is *)
(* not empty, as in the log.                                               *)

LEMMA MinOfTwo ==
  ASSUME NEW a \in Nat, NEW b \in 0 .. a
  PROVE  Min({a, b}) = b
<1>1. b \in {a, b} /\ \A y \in {a, b} : b <= y
  OBVIOUS
<1>2. \A x \in {a, b} : (\A y \in {a, b} : x <= y) => x = b
  OBVIOUS
<1>. QED  BY <1>1, <1>2 DEF Min

\* The columns that a line has cells for, of a header h.
LEMMA LineFacts ==
  ASSUME NEW h \in Seq(STRING), NEW rec
  PROVE  \E last \in 0 .. Len(h) :
           /\ DataLine(h, rec).cells = [i \in 1 .. last |-> rec[h[i]]]
           /\ \A i \in 1 .. Len(h) : i > last => rec[h[i]] = EmptyCell(h[i])
<1>. DEFINE S == {0} \cup {i \in DOMAIN h : rec[h[i]] # EmptyCell(h[i])}
<1>1. Len(h) \in Nat /\ DOMAIN h = 1 .. Len(h)
  OBVIOUS
<1>2. S \in SUBSET (0 .. Len(h)) /\ S # {}
  BY <1>1
<1>3. Max(S) \in S /\ \A x \in S : x <= Max(S)
  <2>. HIDE DEF S
  <2>. QED  BY <1>1, <1>2, MaxIsIn
<1>4. DataLine(h, rec).cells = [i \in 1 .. Max(S) |-> rec[h[i]]]
  BY DEF DataLine
<1>5. PICK last : last = Max(S)
  OBVIOUS
<1>6. last \in 0 .. Len(h)
  BY <1>2, <1>3, <1>5
<1>7. ASSUME NEW i \in 1 .. Len(h), i > last PROVE rec[h[i]] = EmptyCell(h[i])
  <2>1. i \notin S
    BY <1>3, <1>5, <1>6, <1>7
  <2>. QED  BY <1>1, <2>1
<1>. QED  BY <1>4, <1>5, <1>6, <1>7

LEMMA DictIsSaid ==
  ASSUME SourceType, NEW m \in Machines, NEW d \in Days, NEW i \in Nat \ {0}, NEW c
  PROVE  Get(Dict(m, d, i), c) = Said(m, d, i, c)
<1>1. PICK h \in Seq(STRING) : h = HeaderAt(m, i)
  BY HeaderFacts
<1>2. PICK rec : rec = log[m][d][i]
  OBVIOUS
<1>3. PICK last \in 0 .. Len(h) :
        /\ DataLine(h, rec).cells = [j \in 1 .. last |-> rec[h[j]]]
        /\ \A j \in 1 .. Len(h) : j > last => rec[h[j]] = EmptyCell(h[j])
  <2>1. \E last \in 0 .. Len(h) :
          /\ DataLine(h, rec).cells = [j \in 1 .. last |-> rec[h[j]]]
          /\ \A j \in 1 .. Len(h) : j > last => rec[h[j]] = EmptyCell(h[j])
    BY LineFacts
  <2>. QED  BY <2>1
<1>4. PICK cells : cells = [j \in 1 .. last |-> rec[h[j]]]
  OBVIOUS
<1>5. Len(h) \in Nat /\ DOMAIN h = 1 .. Len(h) /\ last \in Nat
  BY <1>1
<1>6. Len(cells) = last
  <2>1. cells \in Seq({rec[h[j]] : j \in 1 .. last})
    BY <1>4, <1>5
  <2>. QED  BY <1>4, <1>5, <2>1
<1>7. Min({Len(h), Len(cells)}) = last
  BY <1>5, <1>6, MinOfTwo
<1>8. Dict(m, d, i) = DictZip(h, cells)
  BY <1>1, <1>2, <1>3, <1>4 DEF Dict
<1>9. DictZip(h, cells) = [k \in {h[j] : j \in 1 .. last} |->
                             cells[Max({j \in 1 .. last : h[j] = k})]]
  BY <1>7 DEF DictZip
<1>10. CASE c \in {h[j] : j \in 1 .. last}
  <2>. DEFINE S == {j \in 1 .. last : h[j] = c}
  <2>1. S \in SUBSET (0 .. last) /\ S # {}
    BY <1>5, <1>10
  <2>2. Max(S) \in S
    <3>. HIDE DEF S
    <3>. QED  BY <1>5, <2>1, MaxIsIn
  <2>3. cells[Max(S)] = rec[c]
    BY <1>4, <2>2
  <2>4. Get(Dict(m, d, i), c) = rec[c]
    BY <1>8, <1>9, <1>10, <2>3 DEF Get
  <2>5. c \in Range(h)
    BY <1>5, <1>10 DEF Range
  <2>. QED  BY <1>1, <1>2, <2>4, <2>5 DEF Said
<1>11. CASE c \notin {h[j] : j \in 1 .. last}
  <2>1. Get(Dict(m, d, i), c) = EmptyCell(c)
    BY <1>8, <1>9, <1>11 DEF Get
  <2>2. c \in Range(h) => rec[c] = EmptyCell(c)
    <3>. SUFFICES ASSUME c \in Range(h) PROVE rec[c] = EmptyCell(c)
      OBVIOUS
    <3>1. PICK j \in 1 .. Len(h) : h[j] = c
      BY <1>5 DEF Range
    <3>2. j > last
      BY <1>5, <1>11, <3>1
    <3>. QED  BY <1>3, <3>1, <3>2
  <2>. QED  BY <1>1, <1>2, <2>1, <2>2 DEF Said
<1>. QED  BY <1>10, <1>11

LEMMA LogFacts ==
  ASSUME SourceType, NEW m \in Machines, NEW d \in Days
  PROVE  /\ Len(log[m][d]) \in Nat
         /\ \A i \in 1 .. Len(log[m][d]) : IsRecord(log[m][d][i])
<1>1. PICK l \in Logs[m][d] : l = log[m][d]
  <2>1. log[m][d] \in Logs[m][d]
    BY DEF SourceType
  <2>. QED  BY <2>1
<1>2. l \in Seq({l[i] : i \in DOMAIN l}) /\ \A i \in DOMAIN l : IsRecord(l[i])
  BY LogsAssumption
<1>3. Len(l) \in Nat /\ DOMAIN l = 1 .. Len(l)
  BY <1>2, LenProperties
<1>. QED  BY <1>1, <1>2, <1>3

\* A counter of the log is a number, or none.
LEMMA CounterIsSaid ==
  ASSUME SourceType, NEW m \in Machines, NEW d \in Days, NEW i \in 1 .. Len(log[m][d]),
         NEW c \in CounterCols
  PROVE  /\ IntVal(Dict(m, d, i), c) = Number(Said(m, d, i, c))
         /\ Number(Said(m, d, i, c)) \in Int
<1>1. i \in Nat \ {0}
  BY DEF SourceType
<1>2. Get(Dict(m, d, i), c) = Said(m, d, i, c)
  BY <1>1, DictIsSaid
<1>3. Said(m, d, i, c) \in Int \cup {Blank, Garbled}
  <2>1. log[m][d][i][c] \in Int \cup {Blank, Garbled}
    BY LogFacts DEF IsRecord
  <2>2. EmptyCell(c) = Blank
    BY DEF EmptyCell, CounterCols, StampCols, SimplexCols, DuplexCols, Range
  <2>. QED  BY <2>1, <2>2 DEF Said
<1>. QED  BY <1>2, <1>3, BlankAssumption DEF IntVal, Number

-----------------------------------------------------------------------------
(* The rows of a record.                                                   *)

\* What a slot of a record says, and its row.
SaidOf(m, d, i, t) ==
  [format  |-> Said(m, d, i, FormatCols[t]), name |-> Said(m, d, i, NameCols[t]),
   simplex |-> Number(Said(m, d, i, SimplexCols[t])),
   duplex  |-> Number(Said(m, d, i, DuplexCols[t]))]

Unused(said) == said.format = "" /\ said.simplex = 0 /\ said.duplex = 0

TrayRow(m, d, i, t) ==
  [machine |-> m, date |-> d, jobid |-> Number(Said(m, d, i, "jobid")), seq |-> i - 1,
   tray    |-> t, format |-> SaidOf(m, d, i, t).format, name |-> SaidOf(m, d, i, t).name,
   simplex |-> SaidOf(m, d, i, t).simplex, duplex |-> SaidOf(m, d, i, t).duplex]

LEMMA SlotColumns ==
  ASSUME NEW t \in Slots
  PROVE  SimplexCols[t] \in CounterCols /\ DuplexCols[t] \in CounterCols
<1>1. t \in {1, 2}
  BY SlotsAssumption DEF FormatCols
<1>2. {"nofsimplex1", "nofsimplex2", "nofduplex1", "nofduplex2"} \subseteq CounterCols
  <2>1. SimplexCols[1] \in Range(SimplexCols) /\ SimplexCols[2] \in Range(SimplexCols)
    BY DEF SimplexCols, Range
  <2>2. DuplexCols[1] \in Range(DuplexCols) /\ DuplexCols[2] \in Range(DuplexCols)
    BY DEF DuplexCols, Range
  <2>. QED  BY <2>1, <2>2 DEF CounterCols, SimplexCols, DuplexCols
<1>. QED  BY <1>1, <1>2 DEF SimplexCols, DuplexCols

LEMMA RunRowSays ==
  ASSUME SourceType, NEW m \in Machines, NEW d \in Days, NEW i \in 1 .. Len(log[m][d])
  PROVE  LET r    == RunRow(m, d, i)
             S(c) == Said(m, d, i, c)
         IN /\ r.machine = m /\ r.date = d /\ r.seq = i - 1
            /\ \A c \in {"jobtype", "startdate", "starttime", "readydate", "readytime",
                         "result", "jobname"} : r[c] = S(c)
            /\ r.jobid = Number(S("jobid")) /\ r.sets = Number(S("noffinishedsets"))
            /\ r.bw = Number(S("nofprintedbw")) /\ r.colour = Number(S("nofprintedc"))
<1>1. i \in Nat \ {0}
  BY LogFacts
<1>2. PICK dict : dict = Dict(m, d, i)
  OBVIOUS
<1>3. \A c : Get(dict, c) = Said(m, d, i, c)
  BY <1>1, <1>2, DictIsSaid
<1>4. \A c \in CounterCols : IntVal(dict, c) = Number(Said(m, d, i, c))
  BY <1>2, CounterIsSaid
<1>5. {"jobid", "noffinishedsets", "nofprintedbw", "nofprintedc"} \subseteq CounterCols
  BY DEF CounterCols
<1>. QED  BY <1>2, <1>3, <1>4, <1>5 DEF RunRow, RowToDb

LEMMA TrayRowsAre ==
  ASSUME SourceType, NEW m \in Machines, NEW d \in Days, NEW i \in 1 .. Len(log[m][d])
  PROVE  TrayRows(m, d, i) = {TrayRow(m, d, i, t) : t \in {s \in Slots : ~ Unused(SaidOf(m, d, i, s))}}
<1>1. i \in Nat \ {0}
  BY LogFacts
<1>2. PICK dict : dict = Dict(m, d, i)
  OBVIOUS
<1>3. \A c : Get(dict, c) = Said(m, d, i, c)
  BY <1>1, <1>2, DictIsSaid
<1>4. \A c \in CounterCols : IntVal(dict, c) = Number(Said(m, d, i, c))
  BY <1>2, CounterIsSaid
<1>5. IntVal(dict, "jobid") = Number(Said(m, d, i, "jobid"))
  <2>1. "jobid" \in CounterCols
    BY DEF CounterCols
  <2>. QED  BY <1>4, <2>1
<1>6. ASSUME NEW t \in Slots
      PROVE  /\ [machine |-> m, date |-> d, jobid |-> IntVal(dict, "jobid"), seq |-> i - 1, tray |-> t,
                 format  |-> Get(dict, FormatCols[t]), name |-> Get(dict, NameCols[t]),
                 simplex |-> IntVal(dict, SimplexCols[t]), duplex |-> IntVal(dict, DuplexCols[t])]
               = TrayRow(m, d, i, t)
             /\ (\/ Get(dict, FormatCols[t]) # ""
                 \/ IntVal(dict, SimplexCols[t]) # 0
                 \/ IntVal(dict, DuplexCols[t]) # 0) <=> ~ Unused(SaidOf(m, d, i, t))
  <2>1. /\ IntVal(dict, SimplexCols[t]) = SaidOf(m, d, i, t).simplex
        /\ IntVal(dict, DuplexCols[t]) = SaidOf(m, d, i, t).duplex
    BY <1>4, SlotColumns DEF SaidOf
  <2>2. /\ Get(dict, FormatCols[t]) = SaidOf(m, d, i, t).format
        /\ Get(dict, NameCols[t]) = SaidOf(m, d, i, t).name
    BY <1>3 DEF SaidOf
  <2>. QED  BY <1>5, <2>1, <2>2 DEF TrayRow, Unused
<1>. QED  BY <1>2, <1>6 DEF TrayRows, ExtractMedia

-----------------------------------------------------------------------------
(* What the invariant says of the tables.                                  *)

\* The rows of the tables are those of the records that were read.
LEMMA RowsOfTables ==
  ASSUME TablesInv
  PROVE  /\ \A r \in jobs : \E m \in Machines, d \in Days : \E i \in 1 .. Imported(m, d) :
              i \in 1 .. Len(log[m][d]) /\ r = RunRow(m, d, i)
         /\ \A s \in media : \E m \in Machines, d \in Days : \E i \in 1 .. Imported(m, d) :
              i \in 1 .. Len(log[m][d]) /\ s \in TrayRows(m, d, i)
         /\ \A m \in Machines, d \in Days : \A i \in 1 .. Imported(m, d) :
              RunRow(m, d, i) \in jobs /\ TrayRows(m, d, i) \subseteq media
<1>1. \A m \in Machines, d \in Days : \A i \in 1 .. Imported(m, d) : i \in 1 .. Len(log[m][d])
  BY LogFacts DEF TablesInv, DayIsRead
<1>2. ASSUME NEW r \in jobs
      PROVE  \E m \in Machines, d \in Days : \E i \in 1 .. Imported(m, d) : r = RunRow(m, d, i)
  <2>1. r.machine \in Machines /\ r.date \in Days /\ r \in OfDay(jobs, r.machine, r.date)
    BY DEF TablesInv, OfDay
  <2>. QED  BY <2>1 DEF TablesInv, DayIsRead
<1>3. ASSUME NEW s \in media
      PROVE  \E m \in Machines, d \in Days : \E i \in 1 .. Imported(m, d) : s \in TrayRows(m, d, i)
  <2>1. s.machine \in Machines /\ s.date \in Days /\ s \in OfDay(media, s.machine, s.date)
    BY DEF TablesInv, OfDay
  <2>. QED  BY <2>1 DEF TablesInv, DayIsRead
<1>4. ASSUME NEW m \in Machines, NEW d \in Days, NEW i \in 1 .. Imported(m, d)
      PROVE  RunRow(m, d, i) \in jobs /\ TrayRows(m, d, i) \subseteq media
  <2>1. RunRow(m, d, i) \in OfDay(jobs, m, d) /\ TrayRows(m, d, i) \subseteq OfDay(media, m, d)
    BY DEF TablesInv, DayIsRead
  <2>. QED  BY <2>1 DEF OfDay
<1>. QED  BY <1>1, <1>2, <1>3, <1>4

LEMMA TrayRowSays ==
  ASSUME SourceType, NEW m \in Machines, NEW d \in Days, NEW i \in 1 .. Len(log[m][d]),
         NEW s \in TrayRows(m, d, i)
  PROVE  /\ s.tray \in Slots /\ ~ Unused(SaidOf(m, d, i, s.tray)) /\ s = TrayRow(m, d, i, s.tray)
         /\ SameRun(s, RunRow(m, d, i)) /\ s.machine = m /\ s.date = d /\ s.seq = i - 1
<1>1. PICK t \in Slots : s = TrayRow(m, d, i, t) /\ ~ Unused(SaidOf(m, d, i, t))
  BY TrayRowsAre
<1>2. s.tray = t /\ s.machine = m /\ s.date = d /\ s.seq = i - 1
      /\ s.jobid = Number(Said(m, d, i, "jobid"))
  BY <1>1 DEF TrayRow
<1>. QED  BY <1>1, <1>2, RunRowSays DEF SameRun

LEMMA TypesOfTables ==
  ASSUME TablesInv
  PROVE  TablesTypeOK
<1>1. ASSUME NEW r \in jobs
      PROVE  /\ r.machine \in Machines /\ r.date \in Days /\ r.seq \in Nat
             /\ {r.jobid, r.sets, r.bw, r.colour} \subseteq Int
             /\ {r.startdate, r.readydate} \subseteq Dates
             /\ {r.starttime, r.readytime} \subseteq Fields
  <2>1. PICK m \in Machines, d \in Days : \E i \in 1 .. Imported(m, d) :
               i \in 1 .. Len(log[m][d]) /\ r = RunRow(m, d, i)
    BY RowsOfTables
  <2>2. PICK i \in 1 .. Len(log[m][d]) : r = RunRow(m, d, i)
    BY <2>1
  <2>3. SourceType
    BY DEF TablesInv
  <2>4. IsRecord(log[m][d][i]) /\ i - 1 \in Nat
    BY <2>3, LogFacts
  <2>5. /\ \A c \in {"startdate", "readydate"} : Said(m, d, i, c) \in Dates
        /\ \A c \in {"starttime", "readytime"} : Said(m, d, i, c) \in Fields
    <3>1. \A c \in {"startdate", "readydate", "starttime", "readytime"} :
             EmptyCell(c) = Empty
      BY DEF EmptyCell, StampCols
    <3>2. Empty \in Dates /\ Empty \in Fields
      BY LastClockAssumption DEF Empty, Dates, Fields
    <3>. QED  BY <2>4, <3>1, <3>2 DEF Said, IsRecord
  <2>6. \A c \in {"jobid", "noffinishedsets", "nofprintedbw", "nofprintedc"} :
          Number(Said(m, d, i, c)) \in Int
    BY DEF Number
  <2>7. /\ r.machine = m /\ r.date = d /\ r.seq = i - 1
        /\ r.jobid = Number(Said(m, d, i, "jobid")) /\ r.sets = Number(Said(m, d, i, "noffinishedsets"))
        /\ r.bw = Number(Said(m, d, i, "nofprintedbw")) /\ r.colour = Number(Said(m, d, i, "nofprintedc"))
    BY <2>2, <2>3, RunRowSays
  <2>8. /\ r.startdate = Said(m, d, i, "startdate") /\ r.readydate = Said(m, d, i, "readydate")
        /\ r.starttime = Said(m, d, i, "starttime") /\ r.readytime = Said(m, d, i, "readytime")
    BY <2>2, <2>3, RunRowSays
  <2>. QED  BY <2>1, <2>4, <2>5, <2>6, <2>7, <2>8
<1>2. ASSUME NEW s \in media
      PROVE  s.tray \in Slots /\ {s.simplex, s.duplex} \subseteq Int
  <2>1. PICK m \in Machines, d \in Days : \E i \in 1 .. Imported(m, d) :
               i \in 1 .. Len(log[m][d]) /\ s \in TrayRows(m, d, i)
    BY RowsOfTables
  <2>2. PICK i \in 1 .. Len(log[m][d]) : s \in TrayRows(m, d, i)
    BY <2>1
  <2>3. s.tray \in Slots /\ s = TrayRow(m, d, i, s.tray)
    BY <2>2, TrayRowSays DEF TablesInv
  <2>4. PICK t \in Slots : t = s.tray
    BY <2>3
  <2>5. s.simplex = SaidOf(m, d, i, t).simplex /\ s.duplex = SaidOf(m, d, i, t).duplex
    BY <2>3, <2>4 DEF TrayRow
  <2>6. SaidOf(m, d, i, t).simplex \in Int /\ SaidOf(m, d, i, t).duplex \in Int
    BY DEF SaidOf, Number
  <2>. QED  BY <2>3, <2>5, <2>6
<1>. QED  BY <1>1, <1>2 DEF TablesTypeOK

LEMMA MediaOfTables ==
  ASSUME TablesInv
  PROVE  MediaOfARun
<1>0. SourceType
  BY DEF TablesInv
<1>1. ASSUME NEW s \in media PROVE \E r \in jobs : SameRun(s, r)
  <2>1. PICK m \in Machines, d \in Days : \E i \in 1 .. Imported(m, d) :
               i \in 1 .. Len(log[m][d]) /\ s \in TrayRows(m, d, i)
    BY RowsOfTables
  <2>2. PICK i \in 1 .. Imported(m, d) : i \in 1 .. Len(log[m][d]) /\ s \in TrayRows(m, d, i)
    BY <2>1
  <2>. QED  BY <1>0, <2>2, RowsOfTables, TrayRowSays
<1>2. ASSUME NEW r \in jobs, NEW q \in jobs,
             r.machine = q.machine, r.date = q.date, r.seq = q.seq
      PROVE  r = q
  <2>1. PICK m \in Machines, d \in Days : \E i \in 1 .. Len(log[m][d]) : r = RunRow(m, d, i)
    BY RowsOfTables
  <2>2. PICK n \in Machines, e \in Days : \E j \in 1 .. Len(log[n][e]) : q = RunRow(n, e, j)
    BY RowsOfTables
  <2>3. PICK i \in 1 .. Len(log[m][d]) : r = RunRow(m, d, i)
    BY <2>1
  <2>4. PICK j \in 1 .. Len(log[n][e]) : q = RunRow(n, e, j)
    BY <2>2
  <2>5. r.machine = m /\ r.date = d /\ r.seq = i - 1 /\ q.machine = n /\ q.date = e /\ q.seq = j - 1
    BY <1>0, <2>3, <2>4, RunRowSays
  <2>6. m = n /\ d = e /\ i - 1 = j - 1
    BY <1>2, <2>5
  <2>7. i = j
    BY <1>0, <2>6, LogFacts
  <2>. QED  BY <2>3, <2>4, <2>6, <2>7
<1>. QED  BY <1>1, <1>2 DEF MediaOfARun

LEMMA TablesAsLogged ==
  ASSUME TablesInv
  PROVE  ImportedAsLogged
<1>0. SourceType
  BY DEF TablesInv
<1>. SUFFICES ASSUME NEW r \in jobs
     PROVE  LET S(c) == Said(r.machine, r.date, r.seq + 1, c) IN
       /\ \A c \in {"jobtype", "startdate", "starttime", "readydate", "readytime",
                    "result", "jobname"} : r[c] = S(c)
       /\ r.jobid = Number(S("jobid")) /\ r.sets = Number(S("noffinishedsets"))
       /\ r.bw = Number(S("nofprintedbw")) /\ r.colour = Number(S("nofprintedc"))
       /\ \A t \in Slots :
            LET used == {s \in media : SameRun(s, r) /\ s.tray = t}
                said == [format  |-> S(FormatCols[t]), name |-> S(NameCols[t]),
                         simplex |-> Number(S(SimplexCols[t])),
                         duplex  |-> Number(S(DuplexCols[t]))]
            IN IF said.format = "" /\ said.simplex = 0 /\ said.duplex = 0
               THEN used = {}
               ELSE \E s \in used :
                      /\ used = {s}
                      /\ \A c \in DOMAIN said : s[c] = said[c]
  BY DEF ImportedAsLogged
<1>1. PICK m \in Machines, d \in Days : \E i \in 1 .. Imported(m, d) :
             i \in 1 .. Len(log[m][d]) /\ r = RunRow(m, d, i)
  BY RowsOfTables
<1>2. PICK i \in 1 .. Imported(m, d) : i \in 1 .. Len(log[m][d]) /\ r = RunRow(m, d, i)
  BY <1>1
<1>3. r.machine = m /\ r.date = d /\ r.seq = i - 1 /\ r.seq + 1 = i
  <2>1. r.machine = m /\ r.date = d /\ r.seq = i - 1
    BY <1>0, <1>2, RunRowSays
  <2>. QED  BY <1>2, <2>1
<1>4. /\ \A c \in {"jobtype", "startdate", "starttime", "readydate", "readytime",
                   "result", "jobname"} : r[c] = Said(m, d, i, c)
      /\ r.jobid = Number(Said(m, d, i, "jobid")) /\ r.sets = Number(Said(m, d, i, "noffinishedsets"))
      /\ r.bw = Number(Said(m, d, i, "nofprintedbw")) /\ r.colour = Number(Said(m, d, i, "nofprintedc"))
  BY <1>0, <1>2, RunRowSays
<1>5. ASSUME NEW t \in Slots
      PROVE  LET used == {s \in media : SameRun(s, r) /\ s.tray = t}
                 said == SaidOf(m, d, i, t)
             IN IF said.format = "" /\ said.simplex = 0 /\ said.duplex = 0
                THEN used = {}
                ELSE \E s \in used :
                       /\ used = {s}
                       /\ \A c \in DOMAIN said : s[c] = said[c]
  <2>. DEFINE used == {s \in media : SameRun(s, r) /\ s.tray = t}
  <2>1. ASSUME NEW s \in used
        PROVE  ~ Unused(SaidOf(m, d, i, t)) /\ s = TrayRow(m, d, i, t)
    <3>1. PICK n \in Machines, e \in Days : \E j \in 1 .. Imported(n, e) :
                 j \in 1 .. Len(log[n][e]) /\ s \in TrayRows(n, e, j)
      BY RowsOfTables
    <3>2. PICK j \in 1 .. Len(log[n][e]) : s \in TrayRows(n, e, j)
      BY <3>1
    <3>3. /\ s.machine = n /\ s.date = e /\ s.seq = j - 1
          /\ ~ Unused(SaidOf(n, e, j, s.tray)) /\ s = TrayRow(n, e, j, s.tray)
      BY <1>0, <3>2, TrayRowSays
    <3>4. n = m /\ e = d /\ j - 1 = i - 1
      BY <1>3, <3>3 DEF SameRun
    <3>5. j = i
      BY <1>2, <3>2, <3>4
    <3>. QED  BY <3>3, <3>4, <3>5
  <2>2. ASSUME ~ Unused(SaidOf(m, d, i, t)) PROVE TrayRow(m, d, i, t) \in used
    <3>1. TrayRow(m, d, i, t) \in TrayRows(m, d, i)
      BY <1>0, <1>2, <2>2, TrayRowsAre
    <3>2. TrayRow(m, d, i, t) \in media
      BY <1>2, <3>1, RowsOfTables
    <3>3. SameRun(TrayRow(m, d, i, t), r) /\ TrayRow(m, d, i, t).tray = t
      <4>1. SameRun(TrayRow(m, d, i, t), RunRow(m, d, i))
        BY <1>0, <1>2, <3>1, TrayRowSays
      <4>. QED  BY <1>2, <4>1 DEF TrayRow
    <3>. QED  BY <3>2, <3>3
  <2>3. \A c \in DOMAIN SaidOf(m, d, i, t) : TrayRow(m, d, i, t)[c] = SaidOf(m, d, i, t)[c]
    BY DEF TrayRow, SaidOf
  <2>4. CASE Unused(SaidOf(m, d, i, t))
    <3>1. used = {}
      <4>. HIDE DEF used
      <4>. QED  BY <2>1, <2>4
    <3>. QED  BY <2>4, <3>1 DEF Unused
  <2>5. CASE ~ Unused(SaidOf(m, d, i, t))
    <3>1. TrayRow(m, d, i, t) \in used /\ used = {TrayRow(m, d, i, t)}
      <4>. HIDE DEF used
      <4>. QED  BY <2>1, <2>2, <2>5
    <3>. QED  BY <2>3, <2>5, <3>1 DEF Unused
  <2>. QED  BY <2>4, <2>5
<1>6. ASSUME NEW t \in Slots
      PROVE  LET used == {s \in media : SameRun(s, r) /\ s.tray = t}
                 said == SaidOf(r.machine, r.date, r.seq + 1, t)
             IN IF said.format = "" /\ said.simplex = 0 /\ said.duplex = 0
                THEN used = {}
                ELSE \E s \in used :
                       /\ used = {s}
                       /\ \A c \in DOMAIN said : s[c] = said[c]
  BY <1>3, <1>5
<1>7. LET S(c) == Said(r.machine, r.date, r.seq + 1, c) IN
      /\ \A c \in {"jobtype", "startdate", "starttime", "readydate", "readytime",
                   "result", "jobname"} : r[c] = S(c)
      /\ r.jobid = Number(S("jobid")) /\ r.sets = Number(S("noffinishedsets"))
      /\ r.bw = Number(S("nofprintedbw")) /\ r.colour = Number(S("nofprintedc"))
  BY <1>3, <1>4
<1>. QED  BY <1>6, <1>7, Zenon DEF SaidOf

-----------------------------------------------------------------------------
(* An import keeps the invariant, and the rows it replaces.                *)

LEMMA RowsOfADay ==
  ASSUME SourceType, NEW m \in Machines, NEW d \in Days, NEW n \in 0 .. Len(log[m][d])
  PROVE  /\ IsFiniteSet({RunRow(m, d, i) : i \in 1 .. n})
         /\ Cardinality({RunRow(m, d, i) : i \in 1 .. n}) = n
<1>. DEFINE new == {RunRow(m, d, i) : i \in 1 .. n}
            row == [i \in 1 .. n |-> RunRow(m, d, i)]
<1>1. n \in Nat /\ \A i \in 1 .. n : i \in 1 .. Len(log[m][d])
  BY LogFacts
<1>2. \A i \in 1 .. n : RunRow(m, d, i).seq = i - 1
  BY <1>1, RunRowSays
<1>3. row \in [1 .. n -> new] /\ \A r \in new : \E i \in 1 .. n : row[i] = r
  OBVIOUS
<1>4. \A i, j \in 1 .. n : row[i] = row[j] => i = j
  BY <1>2
<1>5. ExistsBijection(1 .. n, new)
  <2>. HIDE DEF new, row
  <2>. QED  BY <1>3, <1>4 DEF ExistsBijection, Bijection, Injection, Surjection, IsInjective
<1>6. IsFiniteSet(1 .. n) /\ Cardinality(1 .. n) = n
  BY <1>1, FS_Interval
<1>7. IsFiniteSet(new) /\ Cardinality(new) = Cardinality(1 .. n)
  <2>. HIDE DEF new
  <2>. QED  BY <1>5, <1>6, FS_Bijection
<1>. QED  BY <1>6, <1>7

LEMMA ImportReads ==
  ASSUME SourceType, NEW m \in Machines, NEW d \in Days, NEW kind,
         NEW n \in 0 .. Len(log[m][d]), Import(m, d, kind, n)
  PROVE  /\ n >= Imported(m, d)
         /\ jobs' = (jobs \ OfDay(jobs, m, d)) \cup {RunRow(m, d, i) : i \in 1 .. n}
         /\ media' = (media \ OfDay(media, m, d)) \cup UNION {TrayRows(m, d, i) : i \in 1 .. n}
<1>1. n \in Nat
  BY LogFacts
<1>2. PICK parsed : parsed = RowsRead(m, d, n) /\ ParseCsv(File(m, d, n)) = parsed
  BY <1>1, ParsedFile
<1>3. DOMAIN parsed = 1 .. n /\ \A i \in 1 .. n : parsed[i] = Dict(m, d, i)
  BY <1>2 DEF RowsRead
<1>4. Len(parsed) = n
  <2>1. parsed \in Seq({parsed[i] : i \in 1 .. n})
    BY <1>1, <1>2 DEF RowsRead
  <2>. QED  BY <1>1, <1>3, <2>1
<1>5. Len(parsed) >= Cardinality(OfDay(jobs, m, d)) /\ ReplaceDay(m, d, parsed)
  BY <1>2 DEF Import
<1>6. {RowToDb(parsed[i], m, d, i - 1) : i \in DOMAIN parsed} = {RunRow(m, d, i) : i \in 1 .. n}
  BY <1>3 DEF RunRow
<1>7. {ExtractMedia(parsed[i], m, d, IntVal(parsed[i], "jobid"), i - 1) : i \in DOMAIN parsed}
        = {TrayRows(m, d, i) : i \in 1 .. n}
  BY <1>3 DEF TrayRows
<1>. QED  BY <1>4, <1>5, <1>6, <1>7 DEF ReplaceDay, Imported

LEMMA ImportKeeps ==
  ASSUME TablesInv, NEW m \in Machines, NEW d \in Days, NEW kind \in {"ACL", "CSV"},
         NEW n \in 0 .. Len(log[m][d]), Import(m, d, kind, n)
  PROVE  TablesInv' /\ jobs \subseteq jobs' /\ media \subseteq media'
<1>0. SourceType /\ log' = log /\ layout' = layout
  BY DEF TablesInv, Import, source
<1>1. /\ n >= Imported(m, d)
      /\ jobs' = (jobs \ OfDay(jobs, m, d)) \cup {RunRow(m, d, i) : i \in 1 .. n}
      /\ media' = (media \ OfDay(media, m, d)) \cup UNION {TrayRows(m, d, i) : i \in 1 .. n}
  BY <1>0, ImportReads
<1>2. n \in Nat /\ \A i \in 1 .. n : i \in 1 .. Len(log[m][d])
  BY <1>0, LogFacts
<1>3. \A r \in {RunRow(m, d, i) : i \in 1 .. n} : r.machine = m /\ r.date = d
  BY <1>0, <1>2, RunRowSays
<1>4. \A s \in UNION {TrayRows(m, d, i) : i \in 1 .. n} : s.machine = m /\ s.date = d
  BY <1>0, <1>2, TrayRowSays
<1>5. PICK rows : rows = {RunRow(m, d, i) : i \in 1 .. n}
  OBVIOUS
<1>6. PICK trays : trays = UNION {TrayRows(m, d, i) : i \in 1 .. n}
  OBVIOUS
<1>7. /\ jobs' = (jobs \ OfDay(jobs, m, d)) \cup rows
      /\ media' = (media \ OfDay(media, m, d)) \cup trays
      /\ \A r \in rows \cup trays : r.machine = m /\ r.date = d
  BY <1>1, <1>3, <1>4, <1>5, <1>6
<1>8. OfDay(jobs', m, d) = rows /\ OfDay(media', m, d) = trays
  BY <1>7 DEF OfDay
<1>9. ASSUME NEW p \in Machines, NEW e \in Days, ~ (p = m /\ e = d)
      PROVE  OfDay(jobs', p, e) = OfDay(jobs, p, e) /\ OfDay(media', p, e) = OfDay(media, p, e)
  BY <1>7, <1>9 DEF OfDay
<1>10. \A p, e, i : /\ (RunRow(p, e, i))' = RunRow(p, e, i)
                    /\ (TrayRows(p, e, i))' = TrayRows(p, e, i)
  BY <1>0 DEF RunRow, TrayRows, Dict, HeaderAt
<1>11. Cardinality(rows) = n
  <2>1. Cardinality({RunRow(m, d, i) : i \in 1 .. n}) = n
    BY <1>0, RowsOfADay
  <2>. QED  BY <1>5, <2>1
<1>12. SourceType'
  BY <1>0 DEF SourceType
<1>13. syncLog' \in [Machines -> [Days -> {"none", "ACL", "CSV"}]]
  BY DEF TablesInv, Import
<1>14. \A r \in jobs' \cup media' : r.machine \in Machines /\ r.date \in Days
  BY <1>7 DEF TablesInv
<1>15. ASSUME NEW p \in Machines, NEW e \in Days
       PROVE  DayIsRead(p, e)'
  <2>1. CASE p = m /\ e = d
    <3>1. Imported(p, e)' = n
      BY <1>8, <1>11, <2>1 DEF Imported
    <3>2. n \in 0 .. Len(log'[p][e])
      BY <1>0, <2>1
    <3>3. OfDay(jobs', p, e) = {(RunRow(p, e, i))' : i \in 1 .. n}
      BY <1>5, <1>8, <1>10, <2>1
    <3>4. OfDay(media', p, e) = UNION {(TrayRows(p, e, i))' : i \in 1 .. n}
      BY <1>6, <1>8, <1>10, <2>1
    <3>. QED  BY <3>1, <3>2, <3>3, <3>4 DEF DayIsRead
  <2>2. CASE ~ (p = m /\ e = d)
    <3>1. /\ OfDay(jobs', p, e) = OfDay(jobs, p, e) /\ OfDay(media', p, e) = OfDay(media, p, e)
          /\ Imported(p, e)' = Imported(p, e)
      BY <1>9, <2>2 DEF Imported
    <3>2. DayIsRead(p, e)
      BY DEF TablesInv
    <3>. QED  BY <1>0, <1>10, <3>1, <3>2 DEF DayIsRead
  <2>. QED  BY <2>1, <2>2
<1>16. TablesInv'
  BY <1>12, <1>13, <1>14, <1>15 DEF TablesInv
<1>17. OfDay(jobs, m, d) \subseteq rows /\ OfDay(media, m, d) \subseteq trays
  <2>1. DayIsRead(m, d)
    BY DEF TablesInv
  <2>2. Imported(m, d) \in Nat /\ \A i \in 1 .. Imported(m, d) : i \in 1 .. n
    BY <1>0, <1>1, <1>2, <2>1, LogFacts DEF DayIsRead
  <2>. QED  BY <1>5, <1>6, <2>1, <2>2 DEF DayIsRead
<1>. QED  BY <1>7, <1>16, <1>17

-----------------------------------------------------------------------------
(* The theorems.                                                           *)

LEMMA TablesInvInit == Init => TablesInv
<1>. SUFFICES ASSUME Init PROVE TablesInv
  OBVIOUS
<1>1. SourceType
  BY DEF Init, TablesInit, SourceType
<1>2. jobs = {} /\ media = {} /\ syncLog = [m \in Machines |-> [d \in Days |-> "none"]]
  BY DEF Init, TablesInit
<1>3. ASSUME NEW m \in Machines, NEW d \in Days PROVE DayIsRead(m, d)
  <2>1. OfDay(jobs, m, d) = {} /\ OfDay(media, m, d) = {} /\ Imported(m, d) = 0
    BY <1>2, FS_EmptySet DEF OfDay, Imported
  <2>2. Len(log[m][d]) \in Nat
    BY <1>1, LogFacts
  <2>. QED  BY <2>1, <2>2 DEF DayIsRead
<1>. QED  BY <1>1, <1>2, <1>3 DEF TablesInv

LEMMA TablesInvNext ==
  ASSUME TablesInv, [Next]_vars
  PROVE  TablesInv' /\ (UNCHANGED tables \/ (jobs \subseteq jobs' /\ media \subseteq media'))
<1>1. CASE UNCHANGED <<tables, source>>
  <2>1. /\ log' = log /\ layout' = layout /\ jobs' = jobs /\ media' = media /\ syncLog' = syncLog
    BY <1>1 DEF tables, source
  <2>2. TablesInv'
    <3>1. SourceType'
      BY <2>1 DEF TablesInv, SourceType
    <3>2. \A m, d : /\ (OfDay(jobs, m, d))' = OfDay(jobs, m, d)
                    /\ (OfDay(media, m, d))' = OfDay(media, m, d)
                    /\ Imported(m, d)' = Imported(m, d)
      BY <2>1 DEF OfDay, Imported
    <3>3. \A m, d, i : /\ (RunRow(m, d, i))' = RunRow(m, d, i)
                       /\ (TrayRows(m, d, i))' = TrayRows(m, d, i)
      BY <2>1 DEF RunRow, TrayRows, Dict, HeaderAt
    <3>4. ASSUME NEW m \in Machines, NEW d \in Days PROVE DayIsRead(m, d)'
      <4>1. DayIsRead(m, d)
        BY DEF TablesInv
      <4>. QED  BY <2>1, <3>2, <3>3, <4>1 DEF DayIsRead
    <3>. QED  BY <2>1, <3>1, <3>4 DEF TablesInv
  <2>. QED  BY <1>1, <2>2
<1>2. CASE TablesNext
  BY <1>2, ImportKeeps DEF TablesNext
<1>3. UNCHANGED <<tables, source>> \/ TablesNext
  BY DEF Next, Reconfigure, vars
<1>. QED  BY <1>1, <1>2, <1>3

\* What the tables hold is, at every moment, the first records of each day's log
\* as the press wrote them, and nothing else.
THEOREM TablesHoldTheLog == Spec => []TablesInv
<1>1. Init => TablesInv
  BY TablesInvInit
<1>2. TablesInv /\ [Next]_vars => TablesInv'
  BY TablesInvNext
<1>. QED  BY <1>1, <1>2, PTL DEF Spec

\* The columns of jobs and job_media hold what they are declared as.
THEOREM TypesOfTheTables == Spec => []TablesTypeOK
<1>1. TablesInv => TablesTypeOK
  BY TypesOfTables
<1>. QED  BY <1>1, TablesHoldTheLog, PTL

\* A tray row always has its run, and a line of a day one run (_import_date
\* deletes and inserts both tables of a day in one transaction).
THEOREM MediaBelongsToARun == Spec => []MediaOfARun
<1>1. TablesInv => MediaOfARun
  BY MediaOfTables
<1>. QED  BY <1>1, TablesHoldTheLog, PTL

\* Cell by cell the tables say what the press logged, whatever its columns.
THEOREM CellsAreAsLogged == Spec => []ImportedAsLogged
<1>1. TablesInv => ImportedAsLogged
  BY TablesAsLogged
<1>. QED  BY <1>1, TablesHoldTheLog, PTL

\* No import takes a run or its figures away, or changes them.
THEOREM RunsAreKept == Spec => RunsKeepIdentity
<1>1. TablesInv /\ [Next]_vars => [jobs \subseteq jobs' /\ media \subseteq media']_tables
  BY TablesInvNext
<1>. QED  BY <1>1, TablesHoldTheLog, PTL DEF Spec, RunsKeepIdentity

=============================================================================

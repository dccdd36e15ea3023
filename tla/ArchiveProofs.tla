--------------------------- MODULE ArchiveProofs ---------------------------
(***************************************************************************)
(* One writer at a time replaces a file of the archive atomically, for any *)
(* sizes and however often it dies.                                        *)
(***************************************************************************)
EXTENDS ArchiveWrite, TLAPS

Inv == TypeOK /\ PartInv

LEMMA ChunkFacts ==
  ASSUME NEW n \in Sizes, NEW k \in Nat, k <= n
  PROVE  1 .. k \in SUBSET Chunks
<1>1. 1 .. k \subseteq 1 .. n
  BY SizesAssumption DEF SizesAssumption
<1>2. 1 .. n \in Snapshots
  BY DEF Snapshots
<1> QED
  BY <1>1, <1>2 DEF Chunks

LEMMA TypesNext == TypeOK /\ [Next]_vars => TypeOK'
<1> SUFFICES ASSUME TypeOK, [Next]_vars PROVE TypeOK'
  OBVIOUS
<1> USE DEF TypeOK
<1>1. ASSUME NEW w \in Writers, Open(w) PROVE TypeOK'
  BY <1>1 DEF Open
<1>2. ASSUME NEW w \in Writers, WriteChunk(w) PROVE TypeOK'
  <2>1. fd[w] \in Inodes /\ offset[w] \in Nat /\ offset[w] < size[w]
    BY <1>2 DEF WriteChunk
  <2>2. size[w] # 0 /\ size[w] \in Sizes \cup {0}
    BY <2>1, SizesAssumption DEF SizesAssumption
  <2>3. size[w] \in Sizes /\ size[w] \in Nat
    BY <2>2, SizesAssumption DEF SizesAssumption
  <2>4. offset[w] + 1 \in 1 .. (offset[w] + 1) /\ 1 .. (offset[w] + 1) \in SUBSET Chunks
    BY <2>1, <2>3, ChunkFacts
  <2> QED
    BY <1>2, <2>1, <2>4 DEF WriteChunk
<1>3. ASSUME NEW w \in Writers, Replace(w) PROVE TypeOK'
  BY <1>3 DEF Replace, Close
<1>4. ASSUME NEW w \in Writers, Die(w) PROVE TypeOK'
  BY <1>4 DEF Die, Close
<1> QED
  BY <1>1, <1>2, <1>3, <1>4 DEF Next, vars

LEMMA InvInit == Init => Inv
BY DEF Init, Inv, TypeOK, PartInv

LEMMA InvOpen ==
  ASSUME NEW w, Writers = {w}, Inv, Open(w)
  PROVE  Inv'
<1> USE DEF Inv, TypeOK, PartInv
<1>1. PICK i \in Inodes :
        /\ IF part = None THEN Free(i) ELSE i = part
        /\ part' = i
        /\ data' = [data EXCEPT ![i] = {}]
        /\ fd' = [fd EXCEPT ![w] = i]
  BY DEF Open
<1>2. PICK n \in Sizes : size' = [size EXCEPT ![w] = n]
  BY DEF Open
<1>3. offset'[w] = 0 /\ target' = target /\ size'[w] = n /\ fd'[w] = i /\ data'[i] = {}
  BY <1>1, <1>2 DEF Open
<1>4. i # target
  BY <1>1 DEF Free
<1>5. TypeOK'
  BY <1>1, <1>2 DEF Open
<1>6. 0 <= n /\ 1 .. 0 = {}
  BY SizesAssumption DEF SizesAssumption
<1>7. PartInv'
  BY <1>1, <1>3, <1>4, <1>6
<1> QED
  BY <1>5, <1>7

LEMMA InvWriteChunk ==
  ASSUME NEW w, Writers = {w}, Inv, WriteChunk(w)
  PROVE  Inv'
<1> USE DEF Inv, TypeOK, PartInv
<1>1. /\ fd[w] = part /\ part \in Inodes /\ size[w] \in Sizes /\ size[w] \in Nat
      /\ offset[w] \in Nat /\ offset[w] + 1 <= size[w]
      /\ data[part] = 1 .. offset[w]
  <2>1. /\ fd[w] # None /\ fd[w] = part /\ part \in Inodes /\ size[w] \in Sizes
        /\ offset[w] \in Nat /\ offset[w] < size[w] /\ data[part] = 1 .. offset[w]
    BY DEF WriteChunk
  <2>2. size[w] \in Nat
    BY <2>1, SizesAssumption DEF SizesAssumption
  <2> QED
    BY <2>1, <2>2
<1>2. (1 .. offset[w]) \cup {offset[w] + 1} = 1 .. (offset[w] + 1)
  BY <1>1
<1>3. data' = [data EXCEPT ![part] = 1 .. (offset[w] + 1)]
  BY <1>1, <1>2 DEF WriteChunk
<1>4. 1 .. (offset[w] + 1) \in SUBSET Chunks
  BY <1>1, ChunkFacts
<1>5. offset' = [offset EXCEPT ![w] = offset[w] + 1] /\ UNCHANGED <<part, target, fd, size>>
  BY DEF WriteChunk
<1>6. TypeOK'
  BY <1>1, <1>3, <1>4, <1>5
<1>7. PartInv'
  BY <1>1, <1>3, <1>5
<1> QED
  BY <1>6, <1>7

LEMMA InvReplace ==
  ASSUME NEW w, Writers = {w}, Inv, Replace(w)
  PROVE  Inv'
BY DEF Inv, TypeOK, PartInv, Replace, Close

LEMMA InvDie ==
  ASSUME NEW w, Writers = {w}, Inv, Die(w)
  PROVE  Inv'
BY DEF Inv, TypeOK, PartInv, Die, Close

LEMMA InvNext == ASSUME NEW w, Writers = {w} PROVE Inv /\ [Next]_vars => Inv'
<1> SUFFICES ASSUME Inv, [Next]_vars PROVE Inv'
  OBVIOUS
<1>1. CASE UNCHANGED vars
  BY <1>1 DEF vars, Inv, TypeOK, PartInv
<1>2. CASE Next
  BY <1>2, InvOpen, InvWriteChunk, InvReplace, InvDie DEF Next
<1> QED
  BY <1>1, <1>2

LEMMA RegisterNext ==
  ASSUME NEW w, Writers = {w}, Inv, [Next]_vars
  PROVE  [Register!Next]_(IF target = None THEN None ELSE data[target])
<1> USE DEF Inv, TypeOK, PartInv
<1> DEFINE file == IF target = None THEN None ELSE data[target]
<1>1. CASE Open(w)
  <2>1. PICK i \in Inodes :
          /\ IF part = None THEN Free(i) ELSE i = part
          /\ data' = [data EXCEPT ![i] = {}]
    BY <1>1 DEF Open
  <2>2. i # target
    BY <2>1 DEF Free
  <2>3. target' = target
    BY <1>1 DEF Open
  <2> QED
    BY <2>1, <2>2, <2>3
<1>2. CASE WriteChunk(w)
  BY <1>2 DEF WriteChunk
<1>3. CASE Replace(w)
  <2>1. /\ fd[w] = part /\ part \in Inodes
        /\ data[part] = 1 .. size[w] /\ size[w] \in Sizes
        /\ data' = data
    BY <1>3 DEF Replace
  <2>2. target' = part /\ target' # None
    BY <1>3, <2>1, NoneAssumption DEF Replace, NoneAssumption
  <2>3. file' \in Snapshots
    BY <2>1, <2>2 DEF Snapshots
  <2> QED
    BY <2>3 DEF Register!Next, Register!Replace
<1>4. CASE Die(w)
  BY <1>4 DEF Die
<1>5. CASE UNCHANGED vars
  BY <1>5 DEF vars
<1> QED
  BY <1>1, <1>2, <1>3, <1>4, <1>5 DEF Next

\* However many syncs write the file at once, and wherever they die, no write
\* goes past the snapshot it is of and every link is to a file that exists
\* (_archive).
THEOREM TypesOfTheArchive == Spec => []TypeOK
<1>1. Init => TypeOK
  BY DEF Init, TypeOK
<1> QED
  BY <1>1, TypesNext, PTL DEF Spec

\* As long as a single sync archives a file at a time, whoever opens it finds
\* nothing or one whole snapshot, even after the sync died while writing
\* (_archive: write_bytes to the .part, then replace).
THEOREM WriteAndRenameIsAtomic == ASSUME NEW w, Writers = {w} PROVE Spec => AtomicReplace
<1>1. Init => Register!Init
  BY DEF Init, Register!Init
<1>2. Init => Inv
  BY InvInit
<1>3. Inv /\ [Next]_vars => Inv'
  BY InvNext
<1>4. Inv /\ [Next]_vars => [Register!Next]_(IF target = None THEN None ELSE data[target])
  BY RegisterNext
<1> QED
  BY <1>1, <1>2, <1>3, <1>4, PTL DEF Spec, AtomicReplace, Register!Spec
=============================================================================

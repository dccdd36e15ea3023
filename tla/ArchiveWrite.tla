---------------------------- MODULE ArchiveWrite ----------------------------
(***************************************************************************)
(* _archive of pressledger/sync.py at the level of the file system, for    *)
(* one file of the archive: write_bytes to <name>.part, which truncates a  *)
(* .part left by a sync that died, then rename it over <name>.  A name is  *)
(* a link to an inode, an open file is an inode with an offset, and a      *)
(* snapshot of n chunks is the set of chunks 1 .. n.  A process may die    *)
(* between any two system calls.  A loss of power is not modelled.         *)
(***************************************************************************)
EXTENDS Integers

CONSTANTS Writers,   \* syncs that archive this file; one under the lock
          Sizes,     \* sizes of its snapshots, in chunks
          Inodes, None

ASSUME SizesAssumption == Sizes \subseteq Nat \ {0}
ASSUME NoneAssumption  == None \notin Inodes

VARIABLES data,      \* data[i]: chunks in inode i
          part,      \* inode <name>.part links to, or None
          target,    \* inode <name> links to, or None
          fd,        \* fd[w]: inode w has open for writing, or None
          size,      \* size[w]: chunks w has to write
          offset     \* offset[w]: chunks w has written

vars == <<data, part, target, fd, size, offset>>

Snapshots == {1 .. n : n \in Sizes}
Chunks    == UNION Snapshots

TypeOK ==
  /\ data \in [Inodes -> SUBSET Chunks]
  /\ part \in Inodes \cup {None}
  /\ target \in Inodes \cup {None}
  /\ fd \in [Writers -> Inodes \cup {None}]
  /\ size \in [Writers -> Sizes \cup {0}]
  /\ offset \in [Writers -> Nat]

Init ==
  /\ data = [i \in Inodes |-> {}]
  /\ part = None
  /\ target = None
  /\ fd = [w \in Writers |-> None]
  /\ size = [w \in Writers |-> 0]
  /\ offset = [w \in Writers |-> 0]

Free(i) == i # part /\ i # target /\ \A w \in Writers : fd[w] # i

\* open(..., "wb"): the .part that exists, emptied, or a new one.
Open(w) ==
  /\ fd[w] = None
  /\ \E i \in Inodes :
       /\ IF part = None THEN Free(i) ELSE i = part
       /\ part' = i
       /\ data' = [data EXCEPT ![i] = {}]
       /\ fd' = [fd EXCEPT ![w] = i]
  /\ \E n \in Sizes : size' = [size EXCEPT ![w] = n]
  /\ offset' = [offset EXCEPT ![w] = 0]
  /\ UNCHANGED target

\* Mutant: one chunk too many.
MutWriteChunkBeyond(w) ==
  /\ fd[w] # None
  /\ offset[w] <= size[w]
  /\ data' = [data EXCEPT ![fd[w]] = @ \cup {offset[w] + 1}]
  /\ offset' = [offset EXCEPT ![w] = @ + 1]
  /\ UNCHANGED <<part, target, fd, size>>

WriteChunk(w) ==
  /\ fd[w] # None
  /\ offset[w] < size[w]
  /\ data' = [data EXCEPT ![fd[w]] = @ \cup {offset[w] + 1}]
  /\ offset' = [offset EXCEPT ![w] = @ + 1]
  /\ UNCHANGED <<part, target, fd, size>>

Close(w) ==
  /\ fd' = [fd EXCEPT ![w] = None]
  /\ size' = [size EXCEPT ![w] = 0]
  /\ offset' = [offset EXCEPT ![w] = 0]

\* Mutant: renamed first, written afterwards.
MutReplaceEarly(w) ==
  /\ fd[w] # None
  /\ part # None
  /\ target' = part /\ part' = None
  /\ UNCHANGED <<data, fd, size, offset>>

\* temporary.replace(target): whatever <name>.part links to by now.
Replace(w) ==
  /\ fd[w] # None
  /\ offset[w] = size[w]
  /\ IF part = None THEN UNCHANGED <<part, target>>   \* FileNotFoundError
     ELSE target' = part /\ part' = None
  /\ Close(w)
  /\ UNCHANGED data

\* The process dies, or a write fails; the .part stays.
Die(w) ==
  /\ fd[w] # None
  /\ Close(w)
  /\ UNCHANGED <<data, part, target>>

Next == \E w \in Writers : Open(w) \/ WriteChunk(w) \/ Replace(w) \/ Die(w)

Spec == Init /\ [][Next]_vars

-----------------------------------------------------------------------------
\* _archive replaces a snapshot atomically: a reader of <name> never sees a
\* part of one, whatever dies where (the docstring of _archive).
Register == INSTANCE AtomicFile
              WITH file <- IF target = None THEN None ELSE data[target],
                   Missing <- None
AtomicReplace == Register!Spec

\* An open .part belongs to its one writer and holds what it has written.
PartInv ==
  /\ \A w \in Writers :
       fd[w] # None => /\ fd[w] = part
                       /\ offset[w] <= size[w]
                       /\ size[w] \in Sizes
                       /\ data[part] = 1 .. offset[w]
  /\ part # None => part # target
=============================================================================

---------------------------- MODULE FcntlProofs -----------------------------
(***************************************************************************)
(* fcntl-locking.c with any number of writers and a file of any length:    *)
(* what -L promises of the second half, and how far the writers get.       *)
(***************************************************************************)
EXTENDS FcntlLocking, FiniteSetTheorems, TLAPS

\* Where a writer is in the file follows from where it is in the loop.
Positions ==
    \A w \in Writers :
        /\ pc[w] \in {"lock", "mark"} => j[w] = Half
        /\ pc[w] = "markwrite" => j[w] = Half + 1
        /\ pc[w] = "seek" => j[w] # Half /\ j[w] < FileLen
        /\ pc[w] = "write" => j[w] # Half + 1 /\ j[w] > 0
        /\ pc[w] \in {"unlock", "dead"} => j[w] = 0

\* The lock belongs to the writer in the second half, or to the reader.
Holding(w) == pc[w] \in {"mark", "markwrite", "unlock"}
              \/ (pc[w] \in {"seek", "write"} /\ j[w] > Half)

Owners == Locks => /\ \A w \in Writers : w \in lock <=> Holding(w)
                   /\ "reader" \in lock <=> reader \in {"read", "unlock"}
                   /\ \A a, b \in lock : a = b

\* Under -L a writer is where it has put its file offset, the file is as long as
\* the writer has got, and it has no holes.
OwnOffsets ==
    locking = "EXCLUSIVE_FD" =>
        /\ \A w \in Writers :
              /\ pc[w] \in {"seek", "lock", "mark"} => j[w] <= Len(file)
              /\ pc[w] \in {"write", "markwrite"} => offset[w] = j[w] - 1 /\ offset[w] <= Len(file)
              /\ pc[w] = "unlock" => FileLen <= Len(file)
        /\ Len(file) <= FileLen
        /\ \A k \in 1 .. Len(file) : file[k] # "NUL"

\* Under -L the second half is uniform when no writer has the lock; the one that has
\* it has put its mark and its character up to where it is.
Mine(w, n) == file[Half + 1] = "|" /\ \A k \in Half + 2 .. n : file[k] = w

Contents ==
    locking = "EXCLUSIVE_FD" /\ ~torn =>
        /\ lock \cap Writers = {} => Uniform
        /\ \A w \in Writers : /\ pc[w] = "seek" /\ j[w] > Half => Mine(w, j[w])
                              /\ pc[w] = "write" /\ j[w] > Half => Mine(w, j[w] - 1)
                              /\ pc[w] = "unlock" => Mine(w, FileLen)

\* With one file description, each writer that is between its lseek() and its
\* write() may push the offset one further.
Pending == {w \in Writers : pc[w] \in {"write", "markwrite"}}

SharedOffset ==
    locking # "EXCLUSIVE_FD" =>
        /\ \A v, w \in Writers : offset[v] = offset[w]
        /\ \A w \in Writers : offset[w] + Cardinality(Pending) < FileLen + Cardinality(Writers)
        /\ Len(file) < FileLen + Cardinality(Writers)

IInv == TypeOK /\ Positions /\ Owners /\ OwnOffsets /\ Contents /\ SharedOffset
               /\ SecondHalfUniform
-----------------------------------------------------------------------------
LEMMA HalfFacts == /\ Half \in Nat /\ Half >= 2 /\ FileLen = 2 * Half
                   /\ FileLen \in Nat
  BY FcntlAssumption, Z3 DEF Half

\* The names of the characters and of the reader are no writers'.
LEMMA Names == "reader" \notin Writers /\ "NUL" \notin Writers /\ "|" \notin Writers
  BY FcntlAssumption

\* write() changes the byte at the offset, fills a hole with NULs, and advances the
\* offset of those that share the file description.
LEMMA WriteByteFacts ==
    ASSUME TypeOK, NEW w \in Writers, NEW ch \in Chars, WriteByte(w, ch)
    PROVE  /\ offset[w] \in Nat /\ Len(file) \in Nat
           /\ file' \in Seq(Chars)
           /\ Len(file') = IF offset[w] < Len(file) THEN Len(file) ELSE offset[w] + 1
           /\ file'[offset[w] + 1] = IF offset[w] + 1 > Half THEN ch ELSE "any"
           /\ \A k \in 1 .. Len(file) : k # offset[w] + 1 => file'[k] = file[k]
           /\ offset' = [v \in Writers |-> IF v \in Sharing(w) THEN offset[w] + 1 ELSE offset[v]]
<1> DEFINE n == IF offset[w] < Len(file) THEN Len(file) ELSE offset[w] + 1
           B(k) == IF k = offset[w] + 1 THEN IF k > Half THEN ch ELSE "any"
                   ELSE IF k <= Len(file) THEN file[k] ELSE "NUL"
<1>1. offset[w] \in Nat /\ Len(file) \in Nat /\ file \in Seq(Chars)
  BY DEF TypeOK
<1>2. n \in Nat /\ offset[w] + 1 \in 1 .. n /\ Len(file) <= n
  BY <1>1
<1>3. file' = [k \in 1 .. n |-> B(k)]
  BY DEF WriteByte
<1>4. \A k \in 1 .. n : B(k) \in Chars
  <2> TAKE k \in 1 .. n
  <2>1. k <= Len(file) => file[k] \in Chars
    BY <1>1
  <2>2. QED  BY <2>1 DEF Chars
<1>5. \A k \in 1 .. Len(file) : k # offset[w] + 1 => B(k) = file[k]
  BY <1>1
<1>6. B(offset[w] + 1) = IF offset[w] + 1 > Half THEN ch ELSE "any"
  OBVIOUS
<1>7. offset' = [v \in Writers |-> IF v \in Sharing(w) THEN offset[w] + 1 ELSE offset[v]]
  BY DEF WriteByte, SetOffset
<1> HIDE DEF n, B
<1>8. file' \in Seq(Chars) /\ Len(file') = n
  BY <1>2, <1>3, <1>4
<1>9. \A k \in 1 .. n : file'[k] = B(k)
  BY <1>3
<1>10. 1 .. Len(file) \subseteq 1 .. n
  BY <1>1, <1>2
<1>11. file'[offset[w] + 1] = IF offset[w] + 1 > Half THEN ch ELSE "any"
  BY <1>2, <1>6, <1>9
<1>12. \A k \in 1 .. Len(file) : k # offset[w] + 1 => file'[k] = file[k]
  BY <1>5, <1>9, <1>10
<1>13. QED  BY <1>1, <1>7, <1>8, <1>11, <1>12 DEF n
-----------------------------------------------------------------------------
LEMMA InitInv == Init => IInv
<1> SUFFICES ASSUME Init PROVE IInv
  OBVIOUS
<1> USE HalfFacts
<1>1. /\ file \in Seq(Chars) /\ Len(file) \in Nat /\ Len(file) <= 1
      /\ locking = "EXCLUSIVE_FD" => Len(file) = 0
  <2>1. file = <<>> \/ (file = <<"NUL">> /\ locking # "EXCLUSIVE_FD")
    BY DEF Init
  <2>2. "NUL" \in Chars
    BY DEF Chars
  <2>3. /\ <<>> \in Seq(Chars) /\ Len(<<>>) = 0
        /\ <<"NUL">> \in Seq(Chars) /\ Len(<<"NUL">>) = 1
    BY <2>2
  <2>4. CASE file = <<>>
    BY <2>3, <2>4
  <2>5. CASE file = <<"NUL">> /\ locking # "EXCLUSIVE_FD"
    BY <2>3, <2>5
  <2>6. QED  BY <2>1, <2>4, <2>5
<1>2. TypeOK
  <2>1. /\ locking \in Modes /\ lock \subseteq Writers \cup {"reader"}
        /\ reader \in {"lockr", "read", "unlock", "dead"}
        /\ uniform \in BOOLEAN /\ ctrlc \in BOOLEAN /\ torn \in BOOLEAN
    BY DEF Init, Locks
  <2>2. /\ offset \in [Writers -> Nat]
        /\ j \in [Writers -> 0 .. FileLen]
        /\ pc \in [Writers -> {"lock", "mark", "markwrite", "seek",
                               "write", "unlock", "dead"}]
    BY DEF Init
  <2>3. QED  BY <1>1, <2>1, <2>2 DEF TypeOK
<1>3. Positions
  BY DEF Init, Positions
<1>4. Owners
  BY DEF Init, Owners, Holding, Locks
<1>5. OwnOffsets
  BY <1>1 DEF Init, OwnOffsets
<1>6. Contents
  <2>1. Uniform
    BY <1>1 DEF Uniform
  <2>2. QED  BY <2>1 DEF Init, Contents
<1>7. SharedOffset
  <2>1. Pending = {}
    BY DEF Init, Pending
  <2>2. Cardinality(Pending) = 0 /\ Cardinality(Writers) \in Nat
    BY <2>1, FS_EmptySet, FS_CardinalityType, FcntlAssumption
  <2>3. locking # "EXCLUSIVE_FD" => \A w \in Writers : offset[w] = 1
    BY DEF Init
  <2>4. QED  BY <1>1, <2>2, <2>3 DEF SharedOffset
<1>8. SecondHalfUniform
  BY DEF Init, SecondHalfUniform
<1>9. QED  BY <1>2, <1>3, <1>4, <1>5, <1>6, <1>7, <1>8 DEF IInv

\* What a step of one writer does to its place in the loop.
LEMMA Places ==
    ASSUME TypeOK, Positions, NEW w \in Writers
    PROVE  /\ Lock(w) \/ Mark(w) \/ MarkWrite(w) \/ Seek(w) \/ Write(w) \/ Unlock(w)
                 \/ WriterExits(w)
              => /\ pc' = [pc EXCEPT ![w] = pc'[w]]
                 /\ j' = [j EXCEPT ![w] = j'[w]]
           /\ Lock(w) => pc[w] = "lock" /\ pc'[w] = "mark" /\ j[w] = Half /\ j'[w] = Half
           /\ Mark(w) => pc[w] = "mark" /\ pc'[w] = "markwrite" /\ j[w] = Half /\ j'[w] = Half + 1
           /\ MarkWrite(w) => /\ pc[w] = "markwrite" /\ pc'[w] = "seek"
                              /\ j[w] = Half + 1 /\ j'[w] = Half + 1
           /\ Seek(w) => /\ pc[w] = "seek" /\ pc'[w] = "write"
                         /\ j[w] # Half /\ j[w] < FileLen /\ j'[w] = j[w] + 1
           /\ Write(w) => /\ pc[w] = "write" /\ j[w] # Half + 1 /\ j[w] > 0
                          /\ \/ /\ j[w] = FileLen /\ j'[w] = 0
                                /\ pc'[w] = IF Locks THEN "unlock" ELSE "seek"
                             \/ /\ j[w] < FileLen /\ j'[w] = j[w]
                                /\ pc'[w] = IF j[w] # Half THEN "seek"
                                            ELSE IF Locks THEN "lock" ELSE "mark"
           /\ Unlock(w) => pc[w] = "unlock" /\ pc'[w] = "seek" /\ j[w] = 0 /\ j'[w] = 0
           /\ WriterExits(w) => pc'[w] = "dead" /\ j'[w] = 0
<1> USE HalfFacts
<1>1. j[w] \in 0 .. FileLen /\ pc \in [Writers -> {"lock", "mark", "markwrite", "seek",
                                                   "write", "unlock", "dead"}]
      /\ j \in [Writers -> 0 .. FileLen]
  BY DEF TypeOK
<1>2. ASSUME Lock(w) \/ Mark(w) \/ MarkWrite(w) \/ Seek(w) \/ Write(w) \/ Unlock(w)
                 \/ WriterExits(w)
      PROVE  pc' = [pc EXCEPT ![w] = pc'[w]] /\ j' = [j EXCEPT ![w] = j'[w]]
  BY <1>1, <1>2 DEF Lock, Mark, MarkWrite, Seek, Write, Unlock, WriterExits, Goto, AtTop
<1>3. Lock(w) => pc[w] = "lock" /\ pc'[w] = "mark" /\ j[w] = Half /\ j'[w] = Half
  BY <1>1 DEF Lock, Goto, Positions
<1>4. Mark(w) => pc[w] = "mark" /\ pc'[w] = "markwrite" /\ j[w] = Half /\ j'[w] = Half + 1
  BY <1>1 DEF Mark, Goto, Positions
<1>5. MarkWrite(w) => /\ pc[w] = "markwrite" /\ pc'[w] = "seek"
                      /\ j[w] = Half + 1 /\ j'[w] = Half + 1
  BY <1>1 DEF MarkWrite, Goto, Positions
<1>6. Seek(w) => /\ pc[w] = "seek" /\ pc'[w] = "write"
                 /\ j[w] # Half /\ j[w] < FileLen /\ j'[w] = j[w] + 1
  BY <1>1 DEF Seek, Goto, Positions
<1>7. ASSUME Write(w)
      PROVE  /\ pc[w] = "write" /\ j[w] # Half + 1 /\ j[w] > 0
             /\ \/ /\ j[w] = FileLen /\ j'[w] = 0
                   /\ pc'[w] = IF Locks THEN "unlock" ELSE "seek"
                \/ /\ j[w] < FileLen /\ j'[w] = j[w]
                   /\ pc'[w] = IF j[w] # Half THEN "seek"
                               ELSE IF Locks THEN "lock" ELSE "mark"
  BY <1>1, <1>7 DEF Write, Goto, Positions, AtTop
<1>8. Unlock(w) => pc[w] = "unlock" /\ pc'[w] = "seek" /\ j[w] = 0 /\ j'[w] = 0
  BY <1>1 DEF Unlock, Goto, Positions, AtTop
<1>9. WriterExits(w) => pc'[w] = "dead" /\ j'[w] = 0
  BY <1>1 DEF WriterExits, Goto
<1>10. QED  BY <1>2, <1>3, <1>4, <1>5, <1>6, <1>7, <1>8, <1>9

\* The steps that move nobody in the file.
Elsewhere == Lockr \/ Dump \/ Unlockr \/ CtrlC \/ ReaderExits \/ UNCHANGED vars

\* Every step is one of a writer's or one that moves no writer.
LEMMA Steps ==
    [Next]_vars => \/ \E w \in Writers : \/ Lock(w) \/ Mark(w) \/ MarkWrite(w) \/ Seek(w)
                                         \/ Write(w) \/ Unlock(w) \/ WriterExits(w)
                   \/ Elsewhere
  BY DEF Next, Elsewhere

LEMMA ElsewhereFacts ==
    Elsewhere => /\ pc' = pc /\ j' = j /\ offset' = offset /\ file' = file
                 /\ locking' = locking /\ torn' = torn
  BY DEF Elsewhere, Lockr, Dump, Unlockr, CtrlC, ReaderExits, vars

LEMMA ModeKept == [Next]_vars => locking' = locking
  BY DEF Next, Lock, Mark, MarkWrite, Seek, Write, Unlock, WriterExits,
         Lockr, Dump, Unlockr, CtrlC, ReaderExits, vars
-----------------------------------------------------------------------------
LEMMA PositionsKept == TypeOK /\ Positions /\ [Next]_vars => Positions'
<1> SUFFICES ASSUME TypeOK, Positions, [Next]_vars PROVE Positions'
  OBVIOUS
<1> USE HalfFacts
<1>1. CASE Elsewhere
  BY <1>1, ElsewhereFacts DEF Positions
<1>2. ASSUME NEW w \in Writers,
             Lock(w) \/ Mark(w) \/ MarkWrite(w) \/ Seek(w) \/ Write(w) \/ Unlock(w)
                 \/ WriterExits(w)
      PROVE  Positions'
  <2>1. /\ pc' = [pc EXCEPT ![w] = pc'[w]] /\ j' = [j EXCEPT ![w] = j'[w]]
        /\ DOMAIN pc = Writers /\ DOMAIN j = Writers /\ j[w] \in 0 .. FileLen
    BY <1>2, Places DEF TypeOK
  <2>2. /\ pc'[w] \in {"lock", "mark"} => j'[w] = Half
        /\ pc'[w] = "markwrite" => j'[w] = Half + 1
        /\ pc'[w] = "seek" => j'[w] # Half /\ j'[w] < FileLen
        /\ pc'[w] = "write" => j'[w] # Half + 1 /\ j'[w] > 0
        /\ pc'[w] \in {"unlock", "dead"} => j'[w] = 0
    BY <1>2, <2>1, Places
  <2>3. \A v \in Writers : v # w => pc'[v] = pc[v] /\ j'[v] = j[v]
    BY <2>1
  <2>4. QED  BY <2>2, <2>3 DEF Positions
<1>3. QED  BY <1>1, <1>2, Steps

LEMMA TypesKept == TypeOK /\ Positions /\ [Next]_vars => TypeOK'
<1> SUFFICES ASSUME TypeOK, Positions, [Next]_vars PROVE TypeOK'
  OBVIOUS
<1> USE HalfFacts
<1>1. CASE Elsewhere
  <2>1. /\ lock' \subseteq Writers \cup {"reader"}
        /\ reader' \in {"lockr", "read", "unlock", "dead"}
        /\ ctrlc' \in BOOLEAN
    BY <1>1 DEF Elsewhere, Lockr, Dump, Unlockr, CtrlC, ReaderExits, vars, TypeOK
  <2>2. uniform' \in BOOLEAN
    <3>1. Uniform \in BOOLEAN
      BY DEF Uniform
    <3>2. uniform' = uniform \/ uniform' = Uniform
      BY <1>1 DEF Elsewhere, Lockr, Dump, Unlockr, CtrlC, ReaderExits, vars
    <3>3. QED  BY <3>1, <3>2 DEF TypeOK
  <2>3. QED  BY <1>1, <2>1, <2>2, ElsewhereFacts DEF TypeOK
<1>2. ASSUME NEW w \in Writers,
             Lock(w) \/ Mark(w) \/ MarkWrite(w) \/ Seek(w) \/ Write(w) \/ Unlock(w)
                 \/ WriterExits(w)
      PROVE  TypeOK'
  <2>1. /\ pc' = [pc EXCEPT ![w] = pc'[w]] /\ j' = [j EXCEPT ![w] = j'[w]]
        /\ j[w] \in 0 .. FileLen
    BY <1>2, Places DEF TypeOK
  <2>2. /\ j'[w] \in 0 .. FileLen
        /\ pc'[w] \in {"lock", "mark", "markwrite", "seek", "write", "unlock", "dead"}
    BY <1>2, <2>1, Places
  <2>3. /\ pc' \in [Writers -> {"lock", "mark", "markwrite", "seek", "write", "unlock", "dead"}]
        /\ j' \in [Writers -> 0 .. FileLen]
    BY <2>1, <2>2 DEF TypeOK
  <2>4. /\ lock' \subseteq Writers \cup {"reader"} /\ reader' = reader
        /\ uniform' = uniform /\ ctrlc' = ctrlc
    BY <1>2 DEF Lock, Mark, MarkWrite, Seek, Write, Unlock, WriterExits, TypeOK
  <2>5. torn' \in BOOLEAN
    <3>1. torn' = torn \/ torn' = (torn \/ w \in lock)
      BY <1>2 DEF Lock, Mark, MarkWrite, Seek, Write, Unlock, WriterExits
    <3>2. QED  BY <3>1 DEF TypeOK
  <2>6. file' \in Seq(Chars) /\ offset' \in [Writers -> Nat]
    <3>1. CASE MarkWrite(w) \/ Write(w)
      <4>1. \E ch \in Chars : WriteByte(w, ch)
        BY <3>1 DEF MarkWrite, Write, Chars
      <4>2. QED  BY <4>1, WriteByteFacts DEF TypeOK
    <3>2. CASE Mark(w) \/ Seek(w)
      <4>1. j[w] \in Nat /\ file' = file
            /\ offset' = [v \in Writers |-> IF v \in Sharing(w) THEN j[w] ELSE offset[v]]
        BY <2>1, <3>2 DEF Mark, Seek, SetOffset
      <4>2. QED  BY <4>1 DEF TypeOK
    <3>3. CASE Lock(w) \/ Unlock(w) \/ WriterExits(w)
      BY <3>3 DEF Lock, Unlock, WriterExits, TypeOK
    <3>4. QED  BY <1>2, <3>1, <3>2, <3>3
  <2>7. QED  BY <2>3, <2>4, <2>5, <2>6, ModeKept DEF TypeOK
<1>3. QED  BY <1>1, <1>2, Steps
-----------------------------------------------------------------------------
LEMMA OwnersKept == TypeOK /\ Positions /\ Owners /\ [Next]_vars => Owners'
<1> SUFFICES ASSUME TypeOK, Positions, Owners, [Next]_vars, Locks PROVE Owners'
  BY ModeKept DEF Owners, Locks
<1> USE HalfFacts
<1>1. /\ \A w \in Writers : w \in lock <=> Holding(w)
      /\ "reader" \in lock <=> reader \in {"read", "unlock"}
      /\ \A a, b \in lock : a = b
  BY DEF Owners
<1>2. CASE Elsewhere
  <2>1. \A w \in Writers : Holding(w)' <=> Holding(w)
    BY <1>2, ElsewhereFacts DEF Holding
  <2>2. \A w \in Writers : w \in lock' <=> w \in lock
    BY <1>2, Names DEF Elsewhere, Lockr, Dump, Unlockr, CtrlC, ReaderExits, vars
  <2>3. "reader" \in lock' <=> reader' \in {"read", "unlock"}
    BY <1>1, <1>2 DEF Elsewhere, Lockr, Dump, Unlockr, CtrlC, ReaderExits, vars, Locks
  <2>4. \A a, b \in lock' : a = b
    BY <1>1, <1>2 DEF Elsewhere, Lockr, Dump, Unlockr, CtrlC, ReaderExits, vars
  <2>5. QED  BY <1>1, <2>1, <2>2, <2>3, <2>4 DEF Owners
<1>3. ASSUME NEW w \in Writers,
             Lock(w) \/ Mark(w) \/ MarkWrite(w) \/ Seek(w) \/ Write(w) \/ Unlock(w)
                 \/ WriterExits(w)
      PROVE  Owners'
  <2>1. /\ pc' = [pc EXCEPT ![w] = pc'[w]] /\ j' = [j EXCEPT ![w] = j'[w]]
        /\ DOMAIN pc = Writers /\ DOMAIN j = Writers /\ j[w] \in 0 .. FileLen
    BY <1>3, Places DEF TypeOK
  <2>2. \A v \in Writers : v # w => (Holding(v)' <=> Holding(v))
    BY <2>1 DEF Holding
  <2>3. \A v \in Writers \cup {"reader"} : v # w => (v \in lock' <=> v \in lock)
    BY <1>3 DEF Lock, Mark, MarkWrite, Seek, Write, Unlock, WriterExits
  <2>4. w \in lock' <=> Holding(w)'
    <3>1. CASE Lock(w) \/ Unlock(w) \/ WriterExits(w)
      BY <2>1, <3>1, Places DEF Holding, Lock, Unlock, WriterExits
    <3>2. CASE Mark(w) \/ MarkWrite(w) \/ Seek(w) \/ Write(w)
      <4>1. lock' = lock
        BY <3>2 DEF Mark, MarkWrite, Seek, Write
      <4>2. Holding(w)' <=> Holding(w)
        BY <2>1, <3>2, Places DEF Holding
      <4>3. QED  BY <1>1, <4>1, <4>2
    <3>3. QED  BY <1>3, <3>1, <3>2
  <2>5. \A a, b \in lock' : a = b
    BY <1>1, <1>3 DEF Lock, Mark, MarkWrite, Seek, Write, Unlock, WriterExits
  <2>6. reader' = reader
    BY <1>3 DEF Lock, Mark, MarkWrite, Seek, Write, Unlock, WriterExits
  <2>7. QED  BY <1>1, <2>2, <2>3, <2>4, <2>5, <2>6, Names DEF Owners
<1>4. QED  BY <1>2, <1>3, Steps

\* A write under -L goes to the byte before j, with no hole, and moves nobody else.
LEMMA OwnWrite ==
    ASSUME TypeOK, Positions, OwnOffsets, locking = "EXCLUSIVE_FD", NEW w \in Writers,
           MarkWrite(w) \/ Write(w)
    PROVE  /\ j[w] \in 1 .. FileLen /\ Len(file) \in Nat /\ Len(file') \in Nat
           /\ j[w] <= Len(file) + 1
           /\ Len(file') = IF j[w] <= Len(file) THEN Len(file) ELSE j[w]
           /\ MarkWrite(w) => file'[j[w]] = "|"
           /\ Write(w) => file'[j[w]] = IF j[w] > Half THEN w ELSE "any"
           /\ \A k \in 1 .. Len(file) : k # j[w] => file'[k] = file[k]
           /\ \A v \in Writers : v # w => offset'[v] = offset[v]
<1> USE HalfFacts
<1>1. /\ pc[w] \in {"write", "markwrite"} /\ j[w] \in 1 .. FileLen
      /\ MarkWrite(w) => j[w] = Half + 1
  <2>1. j[w] \in 0 .. FileLen
    BY DEF TypeOK
  <2>2. QED  BY <2>1, Places
<1>2. offset[w] = j[w] - 1 /\ offset[w] <= Len(file) /\ offset[w] + 1 = j[w]
  <2>1. offset[w] = j[w] - 1 /\ offset[w] <= Len(file)
    BY <1>1 DEF OwnOffsets
  <2>2. QED  BY <1>1, <2>1
<1>3. PICK ch \in Chars : /\ WriteByte(w, ch)
                          /\ MarkWrite(w) => ch = "|"
                          /\ Write(w) => ch = w
  <2>1. pc[w] = "write" <=> ~ pc[w] = "markwrite"
    BY <1>1
  <2>2. QED  BY <2>1 DEF MarkWrite, Write, Chars
<1>4. /\ Len(file) \in Nat /\ file' \in Seq(Chars)
      /\ Len(file') = IF offset[w] < Len(file) THEN Len(file) ELSE offset[w] + 1
      /\ file'[offset[w] + 1] = IF offset[w] + 1 > Half THEN ch ELSE "any"
      /\ \A k \in 1 .. Len(file) : k # offset[w] + 1 => file'[k] = file[k]
      /\ offset' = [v \in Writers |-> IF v \in Sharing(w) THEN offset[w] + 1 ELSE offset[v]]
  BY <1>3, WriteByteFacts
<1>5. /\ Len(file') = IF j[w] <= Len(file) THEN Len(file) ELSE j[w]
      /\ j[w] <= Len(file) + 1 /\ Len(file') \in Nat
  BY <1>1, <1>2, <1>4
<1>6. file'[j[w]] = IF j[w] > Half THEN ch ELSE "any"
  BY <1>2, <1>4
<1>7. \A k \in 1 .. Len(file) : k # j[w] => file'[k] = file[k]
  BY <1>2, <1>4
<1>8. \A v \in Writers : v # w => offset'[v] = offset[v]
  BY <1>4 DEF Sharing
<1>9. MarkWrite(w) => file'[j[w]] = "|"
  BY <1>1, <1>3, <1>6
<1>10. QED  BY <1>1, <1>3, <1>4, <1>5, <1>6, <1>7, <1>8, <1>9

LEMMA OwnOffsetsKept ==
    TypeOK /\ Positions /\ OwnOffsets /\ [Next]_vars => OwnOffsets'
<1> SUFFICES ASSUME TypeOK, Positions, OwnOffsets, [Next]_vars, locking = "EXCLUSIVE_FD"
             PROVE  OwnOffsets'
  BY ModeKept DEF OwnOffsets
<1> USE HalfFacts
<1> DEFINE At(v) ==
        /\ pc[v] \in {"seek", "lock", "mark"} => j[v] <= Len(file)
        /\ pc[v] \in {"write", "markwrite"} => offset[v] = j[v] - 1 /\ offset[v] <= Len(file)
        /\ pc[v] = "unlock" => FileLen <= Len(file)
<1>1. /\ \A v \in Writers : At(v)
      /\ Len(file) <= FileLen /\ \A k \in 1 .. Len(file) : file[k] # "NUL"
  BY DEF OwnOffsets
<1>2. SUFFICES /\ \A v \in Writers : At(v)'
               /\ Len(file') <= FileLen /\ \A k \in 1 .. Len(file') : file'[k] # "NUL"
  BY DEF OwnOffsets
<1>3. CASE Elsewhere
  BY <1>1, <1>3, ElsewhereFacts
<1>4. ASSUME NEW w \in Writers,
             Lock(w) \/ Mark(w) \/ MarkWrite(w) \/ Seek(w) \/ Write(w) \/ Unlock(w)
                 \/ WriterExits(w)
      PROVE  /\ \A v \in Writers : At(v)'
             /\ Len(file') <= FileLen /\ \A k \in 1 .. Len(file') : file'[k] # "NUL"
  <2>1. /\ pc' = [pc EXCEPT ![w] = pc'[w]] /\ j' = [j EXCEPT ![w] = j'[w]]
        /\ j[w] \in 0 .. FileLen /\ Len(file) \in Nat
        /\ offset \in [Writers -> Nat] /\ DOMAIN pc = Writers /\ DOMAIN j = Writers
    BY <1>4, Places DEF TypeOK
  <2>2. \A v \in Writers : v # w => pc'[v] = pc[v] /\ j'[v] = j[v]
    BY <2>1
  <2>3. CASE Mark(w) \/ Seek(w)
    <3>1. /\ file' = file
          /\ offset' = [v \in Writers |-> IF v \in Sharing(w) THEN j[w] ELSE offset[v]]
      BY <2>3 DEF Mark, Seek, SetOffset
    <3>2. offset'[w] = j[w] /\ \A v \in Writers : v # w => offset'[v] = offset[v]
      BY <3>1 DEF Sharing
    <3>3. /\ pc[w] \in {"mark", "seek"} /\ pc'[w] \in {"markwrite", "write"}
          /\ j'[w] = j[w] + 1
      BY <2>3, Places
    <3>4. At(w)'
      <4>1. j[w] <= Len(file)
        BY <1>1, <3>3
      <4>2. QED  BY <2>1, <3>1, <3>2, <3>3, <4>1
    <3>5. \A v \in Writers : v # w => At(v)'
      BY <1>1, <2>2, <3>1, <3>2
    <3>6. QED  BY <1>1, <3>1, <3>4, <3>5
  <2>4. CASE Lock(w) \/ Unlock(w) \/ WriterExits(w)
    <3>1. file' = file /\ offset' = offset
      BY <2>4 DEF Lock, Unlock, WriterExits
    <3>2. At(w)'
      <4>1. \/ pc[w] = "lock" /\ pc'[w] = "mark" /\ j'[w] = j[w]
            \/ pc'[w] \in {"seek", "dead"} /\ j'[w] = 0
        BY <2>4, Places
      <4>2. QED  BY <1>1, <2>1, <3>1, <4>1
    <3>3. \A v \in Writers : v # w => At(v)'
      BY <1>1, <2>2, <3>1
    <3>4. QED  BY <1>1, <3>1, <3>2, <3>3
  <2>5. CASE MarkWrite(w) \/ Write(w)
    <3>1. /\ j[w] \in 1 .. FileLen /\ Len(file') \in Nat
          /\ j[w] <= Len(file) + 1
          /\ Len(file') = IF j[w] <= Len(file) THEN Len(file) ELSE j[w]
          /\ file'[j[w]] \in {"|", w, "any"}
          /\ \A k \in 1 .. Len(file) : k # j[w] => file'[k] = file[k]
          /\ \A v \in Writers : v # w => offset'[v] = offset[v]
      BY <2>5, OwnWrite
    <3>2. Len(file) <= Len(file') /\ j[w] <= Len(file') /\ Len(file') <= FileLen
      BY <1>1, <2>1, <3>1
    <3>3. \A k \in 1 .. Len(file') : file'[k] # "NUL"
      <4> TAKE k \in 1 .. Len(file')
      <4>1. k = j[w] \/ k \in 1 .. Len(file)
        BY <2>1, <3>1
      <4>2. QED  BY <1>1, <3>1, <4>1, Names
    <3>4. At(w)'
      <4>1. \/ pc'[w] \in {"seek", "lock", "mark"} /\ (j'[w] = j[w] \/ j'[w] = 0)
            \/ pc'[w] = "unlock" /\ j[w] = FileLen
        BY <2>5, Places
      <4>2. QED  BY <2>1, <3>1, <3>2, <4>1
    <3>5. ASSUME NEW v \in Writers, v # w PROVE At(v)'
      <4>1. /\ pc'[v] = pc[v] /\ j'[v] = j[v] /\ offset'[v] = offset[v]
            /\ j[v] \in Nat /\ offset[v] \in Nat
        BY <2>1, <2>2, <3>1, <3>5 DEF TypeOK
      <4>2. At(v)
        BY <1>1
      <4>3. QED  BY <2>1, <3>1, <3>2, <4>1, <4>2
    <3>6. QED  BY <3>2, <3>3, <3>4, <3>5
  <2>6. QED  BY <1>4, <2>3, <2>4, <2>5
<1>5. QED  BY <1>3, <1>4, Steps
-----------------------------------------------------------------------------
\* The writer in the second half is the only holder of the lock.
LEMMA HolderAlone ==
    ASSUME Owners, Locks, NEW w \in Writers, Holding(w)
    PROVE  lock = {w} /\ \A v \in Writers : v # w => ~Holding(v)
<1>1. /\ \A v \in Writers : v \in lock <=> Holding(v)
      /\ \A a, b \in lock : a = b
  BY DEF Owners
<1>2. QED  BY <1>1

\* What the writers have put into the second half, writer by writer.
Put(w) == /\ pc[w] = "seek" /\ j[w] > Half => Mine(w, j[w])
          /\ pc[w] = "write" /\ j[w] > Half => Mine(w, j[w] - 1)
          /\ pc[w] = "unlock" => Mine(w, FileLen)

\* A write into the first half leaves the second half as it is.
LEMMA FirstHalfWrite ==
    ASSUME TypeOK, Positions, OwnOffsets, locking = "EXCLUSIVE_FD",
           NEW w \in Writers, Write(w), j[w] <= Half
    PROVE  /\ Uniform => Uniform'
           /\ \A v \in Writers : v # w /\ Put(v) => Put(v)'
<1> USE HalfFacts
<1>1. /\ j[w] \in 1 .. FileLen /\ Len(file) \in Nat /\ Len(file') \in Nat
      /\ Len(file') = IF j[w] <= Len(file) THEN Len(file) ELSE j[w]
      /\ \A k \in 1 .. Len(file) : k # j[w] => file'[k] = file[k]
  BY OwnWrite
<1>2. \A k \in Half + 1 .. Len(file) : file'[k] = file[k]
  BY <1>1
<1>3. Len(file) <= Len(file') /\ (Len(file) > Half => Len(file') = Len(file))
      /\ (Len(file) <= Half => Len(file') <= Half)
  BY <1>1
<1>4. ASSUME Uniform PROVE Uniform'
  <2>1. CASE Len(file) <= Half
    BY <1>3, <2>1 DEF Uniform
  <2>2. CASE Len(file) > Half
    <3>1. PICK v \in Writers : /\ Len(file) >= FileLen /\ file[Half + 1] = "|"
                               /\ \A k \in Half + 2 .. FileLen : file[k] = v
      BY <1>1, <1>4, <2>2 DEF Uniform
    <3>2. file'[Half + 1] = "|" /\ Len(file') >= FileLen
      BY <1>1, <1>2, <1>3, <2>2, <3>1
    <3>3. \A k \in Half + 2 .. FileLen : k \in Half + 1 .. Len(file)
      BY <1>1, <3>1
    <3>4. \A k \in Half + 2 .. FileLen : file'[k] = v
      BY <1>2, <3>1, <3>3
    <3>5. QED  BY <3>2, <3>4 DEF Uniform
  <2>3. QED  BY <1>1, <2>1, <2>2
<1>5. ASSUME NEW v \in Writers, v # w, Put(v) PROVE Put(v)'
  <2>1. /\ pc'[v] = pc[v] /\ j'[v] = j[v] /\ j[v] \in 0 .. FileLen
    BY <1>5, Places DEF TypeOK
  <2>2. ASSUME NEW n \in Half + 1 .. Len(file), Mine(v, n) PROVE Mine(v, n)'
    <3>1. Half + 1 \in Half + 1 .. Len(file)
      BY <1>1
    <3>2. \A k \in Half + 2 .. n : k \in Half + 1 .. Len(file)
      BY <1>1
    <3>3. QED  BY <1>2, <2>2, <3>1, <3>2 DEF Mine
  <2>3. pc[v] = "seek" /\ j[v] > Half => j[v] \in Half + 1 .. Len(file)
    BY <1>1, <2>1 DEF OwnOffsets
  <2>4. pc[v] = "write" /\ j[v] > Half => j[v] - 1 \in Half + 1 .. Len(file)
    BY <1>1, <2>1 DEF OwnOffsets, Positions
  <2>5. pc[v] = "unlock" => FileLen \in Half + 1 .. Len(file)
    BY <1>1 DEF OwnOffsets
  <2>6. /\ pc[v] = "seek" /\ j[v] > Half => Mine(v, j[v])'
        /\ pc[v] = "write" /\ j[v] > Half => Mine(v, j[v] - 1)'
        /\ pc[v] = "unlock" => Mine(v, FileLen)'
    BY <1>5, <2>1, <2>2, <2>3, <2>4, <2>5 DEF Put
  <2>7. QED  BY <2>1, <2>6 DEF Put
<1>6. QED  BY <1>4, <1>5

LEMMA ContentsKept ==
    TypeOK /\ Positions /\ Owners /\ OwnOffsets /\ Contents /\ [Next]_vars => Contents'
<1> SUFFICES ASSUME TypeOK, Positions, Owners, OwnOffsets, Contents, [Next]_vars,
                    locking = "EXCLUSIVE_FD", ~torn'
             PROVE  /\ lock' \cap Writers = {} => Uniform'
                    /\ \A w \in Writers : Put(w)'
  BY ModeKept DEF Contents, Put
<1> USE HalfFacts
<1>1. Locks
  BY DEF Locks
<1>2. ~torn
  BY DEF Next, Lock, Mark, MarkWrite, Seek, Write, Unlock, WriterExits,
         Lockr, Dump, Unlockr, CtrlC, ReaderExits, vars
<1>3. (lock \cap Writers = {} => Uniform) /\ \A w \in Writers : Put(w)
  BY <1>2 DEF Contents, Put
<1>4. CASE Elsewhere
  <2>1. lock' \cap Writers = {} => lock \cap Writers = {}
    BY <1>4, Names DEF Elsewhere, Lockr, Dump, Unlockr, CtrlC, ReaderExits, vars
  <2>2. QED  BY <1>3, <1>4, <2>1, ElsewhereFacts DEF Uniform, Put, Mine
<1>5. ASSUME NEW w \in Writers,
             Lock(w) \/ Mark(w) \/ MarkWrite(w) \/ Seek(w) \/ Write(w) \/ Unlock(w)
                 \/ WriterExits(w)
      PROVE  (lock' \cap Writers = {} => Uniform') /\ \A v \in Writers : Put(v)'
  <2>1. /\ pc' = [pc EXCEPT ![w] = pc'[w]] /\ j' = [j EXCEPT ![w] = j'[w]]
        /\ j[w] \in 0 .. FileLen /\ DOMAIN pc = Writers /\ DOMAIN j = Writers
        /\ Len(file) \in Nat
    BY <1>5, Places DEF TypeOK
  <2>2. \A v \in Writers : v # w => pc'[v] = pc[v] /\ j'[v] = j[v]
    BY <2>1
  <2>3. file' = file => \A v \in Writers : v # w => Put(v)'
    BY <1>3, <2>2 DEF Put, Mine
  <2>4. file' = file => (Uniform' <=> Uniform)
    BY DEF Uniform
  <2>5. CASE Lock(w)
    <3>1. file' = file /\ w \in lock'
      BY <2>5 DEF Lock
    <3>2. Put(w)'
      BY <2>5, Places DEF Put
    <3>3. QED  BY <2>3, <3>1, <3>2
  <2>6. CASE Mark(w)
    <3>1. file' = file /\ lock' = lock
      BY <2>6 DEF Mark
    <3>2. Put(w)'
      BY <2>6, Places DEF Put
    <3>3. QED  BY <1>3, <2>3, <2>4, <3>1, <3>2
  <2>7. CASE Seek(w)
    <3>1. file' = file /\ lock' = lock
      BY <2>7 DEF Seek
    <3>2. /\ pc[w] = "seek" /\ pc'[w] = "write" /\ j[w] # Half /\ j'[w] - 1 = j[w]
          /\ j'[w] > Half => j[w] > Half
      BY <2>1, <2>7, Places
    <3>3. Put(w)'
      BY <1>3, <3>1, <3>2 DEF Put, Mine
    <3>4. QED  BY <1>3, <2>3, <2>4, <3>1, <3>3
  <2>8. CASE Unlock(w)
    <3>1. file' = file
      BY <2>8 DEF Unlock
    <3>2. Put(w)'
      BY <2>8, Places DEF Put
    <3>3. Mine(w, FileLen) /\ Len(file) >= FileLen
      BY <1>3, <2>1, <2>8 DEF Put, Unlock, OwnOffsets
    <3>4. Uniform
      BY <3>3 DEF Uniform, Mine
    <3>5. QED  BY <2>3, <2>4, <3>1, <3>2, <3>4
  <2>9. CASE WriterExits(w)
    <3>1. file' = file /\ w \notin lock /\ lock' = lock
      BY <2>9 DEF WriterExits
    <3>2. Put(w)'
      BY <2>9, Places DEF Put
    <3>3. QED  BY <1>3, <2>3, <2>4, <3>1, <3>2
  <2>10. ASSUME MarkWrite(w) \/ Write(w), Holding(w), Put(w)', Holding(w)'
         PROVE  (lock' \cap Writers = {} => Uniform') /\ \A v \in Writers : Put(v)'
    <3>1. lock' = lock
      BY <2>10 DEF MarkWrite, Write
    <3>2. lock = {w} /\ \A v \in Writers : v # w => ~Holding(v)
      BY <1>1, <2>10, HolderAlone
    <3>3. \A v \in Writers : v # w => Put(v)'
      BY <2>2, <3>2 DEF Put, Holding
    <3>4. QED  BY <2>10, <3>1, <3>2, <3>3
  <2>11. CASE MarkWrite(w)
    <3>1. pc[w] = "markwrite" /\ pc'[w] = "seek" /\ j[w] = Half + 1 /\ j'[w] = Half + 1
      BY <2>11, Places
    <3>2. file'[Half + 1] = "|"
      BY <2>11, <3>1, OwnWrite
    <3>3. Put(w)'
      BY <3>1, <3>2 DEF Put, Mine
    <3>4. Holding(w) /\ Holding(w)'
      BY <3>1 DEF Holding
    <3>5. QED  BY <2>10, <2>11, <3>3, <3>4
  <2>12. CASE Write(w) /\ j[w] > Half
    <3>1. /\ pc[w] = "write" /\ j[w] # Half + 1
          /\ \/ j[w] = FileLen /\ pc'[w] = "unlock"
             \/ j'[w] = j[w] /\ pc'[w] = "seek"
      BY <1>1, <2>1, <2>12, Places
    <3>2. /\ j[w] \in 1 .. FileLen /\ j[w] <= Len(file) + 1 /\ file'[j[w]] = w
          /\ \A k \in 1 .. Len(file) : k # j[w] => file'[k] = file[k]
      BY <2>12, OwnWrite
    <3>3. Mine(w, j[w] - 1)
      BY <1>3, <2>12, <3>1 DEF Put
    <3>4. file'[Half + 1] = "|" /\ \A k \in Half + 2 .. j[w] : file'[k] = w
      <4>1. Half + 1 \in 1 .. Len(file) /\ Half + 1 # j[w]
        BY <2>1, <2>12, <3>1, <3>2
      <4>2. file'[Half + 1] = "|"
        BY <3>2, <3>3, <4>1 DEF Mine
      <4>3. ASSUME NEW k \in Half + 2 .. j[w] PROVE file'[k] = w
        <5>1. k = j[w] \/ (k \in Half + 2 .. j[w] - 1 /\ k \in 1 .. Len(file) /\ k # j[w])
          BY <2>1, <3>2
        <5>2. QED  BY <3>2, <3>3, <5>1 DEF Mine
      <4>4. QED  BY <4>2, <4>3
    <3>5. Put(w)' /\ Holding(w) /\ Holding(w)'
      BY <2>12, <3>1, <3>4 DEF Put, Mine, Holding
    <3>6. QED  BY <2>10, <2>12, <3>5
  <2>13. CASE Write(w) /\ j[w] <= Half
    <3>1. lock' = lock
      BY <2>13 DEF Write
    <3>2. (Uniform => Uniform') /\ \A v \in Writers : v # w => Put(v)'
      BY <1>3, <2>13, FirstHalfWrite
    <3>3. Put(w)'
      <4>1. pc'[w] \in {"seek", "lock"} /\ j'[w] = j[w]
        BY <1>1, <2>1, <2>13, Places
      <4>2. QED  BY <2>1, <2>13, <4>1 DEF Put
    <3>4. QED  BY <1>3, <3>1, <3>2, <3>3
  <2>14. QED  BY <1>5, <2>1, <2>5, <2>6, <2>7, <2>8, <2>9, <2>11, <2>12, <2>13
<1>6. QED  BY <1>4, <1>5, Steps
-----------------------------------------------------------------------------
LEMMA PendingFacts ==
    /\ IsFiniteSet(Pending) /\ Cardinality(Writers) \in Nat
    /\ Cardinality(Pending) \in 0 .. Cardinality(Writers)
<1>1. IsFiniteSet(Writers) /\ Pending \subseteq Writers
  BY FcntlAssumption DEF Pending
<1>2. QED  BY <1>1, FS_Subset, FS_CardinalityType

LEMMA PendingFactsNext ==
    Cardinality(Pending') \in 0 .. Cardinality(Writers)
<1>1. IsFiniteSet(Writers) /\ Pending' \subseteq Writers
  BY FcntlAssumption DEF Pending
<1>2. QED  BY <1>1, FS_Subset, FS_CardinalityType

LEMMA SharedOffsetKept ==
    TypeOK /\ Positions /\ SharedOffset /\ [Next]_vars => SharedOffset'
<1> SUFFICES ASSUME TypeOK, Positions, SharedOffset, [Next]_vars,
                    locking # "EXCLUSIVE_FD"
             PROVE  SharedOffset'
  BY ModeKept DEF SharedOffset
<1> DEFINE N == Cardinality(Writers)
           P == Cardinality(Pending)
           Q == Cardinality(Pending')
<1> USE HalfFacts
<1>1. /\ \A v, w \in Writers : offset[v] = offset[w]
      /\ \A w \in Writers : offset[w] + P < FileLen + N
      /\ Len(file) < FileLen + N
  BY DEF SharedOffset
<1>2. N \in Nat /\ P \in 0 .. N /\ Q \in 0 .. N /\ Len(file) \in Nat
  BY PendingFacts, PendingFactsNext DEF TypeOK
<1>3. SUFFICES /\ \A v, w \in Writers : offset'[v] = offset'[w]
               /\ \A w \in Writers : offset'[w] + Q < FileLen + N
               /\ Len(file') < FileLen + N
  BY DEF SharedOffset
<1>4. CASE Elsewhere
  <2>1. Pending' = Pending /\ offset' = offset /\ file' = file
    BY <1>4, ElsewhereFacts DEF Pending
  <2>2. QED  BY <1>1, <2>1
<1>5. ASSUME NEW w \in Writers,
             Lock(w) \/ Mark(w) \/ MarkWrite(w) \/ Seek(w) \/ Write(w) \/ Unlock(w)
                 \/ WriterExits(w)
      PROVE  /\ \A u, v \in Writers : offset'[u] = offset'[v]
             /\ \A v \in Writers : offset'[v] + Q < FileLen + N
             /\ Len(file') < FileLen + N
  <2>1. /\ pc' = [pc EXCEPT ![w] = pc'[w]] /\ DOMAIN pc = Writers
        /\ j[w] \in 0 .. FileLen /\ offset[w] \in Nat
    BY <1>5, Places DEF TypeOK
  <2>2. CASE Lock(w) \/ Unlock(w) \/ WriterExits(w)
    <3>1. offset' = offset /\ file' = file
      BY <2>2 DEF Lock, Unlock, WriterExits
    <3>2. pc'[w] \notin {"write", "markwrite"}
      BY <2>2, Places
    <3>3. Pending' \subseteq Pending
      BY <2>1, <3>2 DEF Pending
    <3>4. Q <= P
      BY <3>3, PendingFacts, FS_Subset
    <3>5. \A v \in Writers : offset[v] \in Nat
      BY DEF TypeOK
    <3>6. \A v \in Writers : offset[v] + Q < FileLen + N
      <4> HIDE DEF N, P, Q
      <4>1. QED  BY <1>1, <1>2, <3>4, <3>5
    <3>7. QED  BY <1>1, <3>1, <3>6
  <2>3. CASE Mark(w) \/ Seek(w)
    <3>1. file' = file /\ \A v \in Writers : offset'[v] = j[w]
      BY <2>3 DEF Mark, Seek, SetOffset, Sharing
    <3>2. j[w] < FileLen
      BY <2>1, <2>3, Places
    <3>3. j[w] + Q < FileLen + N
      <4> HIDE DEF N, P, Q
      <4>1. QED  BY <1>2, <2>1, <3>2
    <3>4. QED  BY <1>1, <3>1, <3>3
  <2>4. CASE MarkWrite(w) \/ Write(w)
    <3>1. PICK ch \in Chars : WriteByte(w, ch)
      BY <2>4 DEF MarkWrite, Write, Chars
    <3>2. /\ Len(file') = IF offset[w] < Len(file) THEN Len(file) ELSE offset[w] + 1
          /\ \A v \in Writers : offset'[v] = offset[w] + 1
      BY <3>1, WriteByteFacts DEF Sharing
    <3>3. pc[w] \in {"write", "markwrite"} /\ pc'[w] \notin {"write", "markwrite"}
      BY <2>4, Places
    <3>4. w \in Pending /\ Pending' = Pending \ {w}
      BY <2>1, <3>3 DEF Pending
    <3>5. Q = P - 1 /\ P >= 1
      <4>1. Q = P - 1
        BY <3>4, PendingFacts, FS_RemoveElement
      <4> HIDE DEF N, P, Q
      <4>2. QED  BY <1>2, <4>1
    <3>6. offset[w] + P < FileLen + N
      BY <1>1
    <3>7. (offset[w] + 1) + Q < FileLen + N /\ offset[w] + 1 < FileLen + N
      <4> HIDE DEF N, P, Q
      <4>1. QED  BY <1>2, <2>1, <3>5, <3>6
    <3>8. QED  BY <1>1, <3>2, <3>7
  <2>5. QED  BY <1>5, <2>2, <2>3, <2>4
<1>6. QED  BY <1>4, <1>5, Steps
-----------------------------------------------------------------------------
LEMMA UniformKept ==
    Owners /\ Contents /\ SecondHalfUniform /\ [Next]_vars => SecondHalfUniform'
<1> SUFFICES ASSUME Owners, Contents, SecondHalfUniform, [Next]_vars,
                    locking = "EXCLUSIVE_FD", ~torn'
             PROVE  uniform'
  BY ModeKept DEF SecondHalfUniform
<1>1. ~torn
  BY DEF Next, Lock, Mark, MarkWrite, Seek, Write, Unlock, WriterExits,
         Lockr, Dump, Unlockr, CtrlC, ReaderExits, vars
<1>2. uniform
  BY <1>1 DEF SecondHalfUniform
<1>3. CASE Dump
  <2>1. "reader" \in lock /\ \A a, b \in lock : a = b
    BY <1>3 DEF Owners, Locks, Dump
  <2>2. lock \cap Writers = {}
    BY <2>1, Names
  <2>3. Uniform
    BY <1>1, <2>2 DEF Contents
  <2>4. QED  BY <1>3, <2>3 DEF Dump
<1>4. CASE ~Dump
  <2>1. uniform' = uniform
    BY <1>4 DEF Next, Lock, Mark, MarkWrite, Seek, Write, Unlock, WriterExits,
                Lockr, Unlockr, CtrlC, ReaderExits, vars
  <2>2. QED  BY <1>2, <2>1
<1>5. QED  BY <1>3, <1>4

LEMMA FcntlInvariance == Spec => []IInv
<1>1. IInv /\ [Next]_vars => IInv'
  BY TypesKept, PositionsKept, OwnersKept, OwnOffsetsKept, ContentsKept, SharedOffsetKept,
     UniformKept DEF IInv
<1>2. QED  BY InitInv, <1>1, PTL DEF Spec

\* Every writer's position, file offset and place in the loop, the lock's holders
\* and the file's contents have their types: in every mode of the program, with any
\* number of writers and any even length, j stays within 0 .. FILE_LEN.
THEOREM FcntlTypeCorrect == Spec => []TypeOK
<1>1. IInv => TypeOK
  BY DEF IInv
<1>2. QED  BY <1>1, FcntlInvariance, PTL

\* -L keeps its promise: unless Ctrl-C killed a writer with the lock, every dump shows
\* a second half that is missing, or is the mark and the characters of one writer.
THEOREM SecondHalfIsUniform == Spec => []SecondHalfUniform
<1>1. IInv => SecondHalfUniform
  BY DEF IInv
<1>2. QED  BY <1>1, FcntlInvariance, PTL

\* Under -L the file has no holes and stays within FILE_LEN; with a shared file
\* description the writers together pass its end by fewer bytes than there are writers.
THEOREM FileStaysShort == Spec => []InsideTheFile
<1>1. IInv => InsideTheFile
  <2> SUFFICES ASSUME IInv PROVE InsideTheFile
    OBVIOUS
  <2>1. CASE locking # "EXCLUSIVE_FD"
    BY <2>1 DEF IInv, SharedOffset, InsideTheFile
  <2>2. CASE locking = "EXCLUSIVE_FD"
    <3>1. Len(file) <= FileLen /\ \A k \in 1 .. Len(file) : file[k] # "NUL"
      BY <2>2 DEF IInv, OwnOffsets
    <3>2. Cardinality(Writers) \in Nat /\ Cardinality(Writers) # 0
      BY FcntlAssumption, FS_CardinalityType, FS_EmptySet
    <3>3. Len(file) \in Nat /\ FileLen \in Nat
      BY HalfFacts DEF IInv, TypeOK
    <3>4. Len(file) < FileLen + Cardinality(Writers)
      BY <3>1, <3>2, <3>3
    <3>5. QED  BY <3>1, <3>4 DEF InsideTheFile
  <2>3. QED  BY <2>1, <2>2
<1>2. QED  BY <1>1, FcntlInvariance, PTL

\* Under -L only the holder of the lock, alone, changes a byte of the second half or
\* makes the file reach into it: Ctrl-C and the release of the lock included.
THEOREM ChangedUnderLock == Spec => WrittenUnderLock
<1> DEFINE Changed == \E k \in Half + 1 .. Len(file') : k > Len(file) \/ file'[k] # file[k]
           Safe == locking = "EXCLUSIVE_FD" /\ Changed => \E w \in Writers : lock = {w}
<1>1. IInv /\ [Next]_vars => [Safe]_vars
  <2> SUFFICES ASSUME IInv, [Next]_vars, locking = "EXCLUSIVE_FD", Changed
               PROVE  \E w \in Writers : lock = {w}
    OBVIOUS
  <2> USE HalfFacts
  <2>1. TypeOK /\ Positions /\ Owners /\ OwnOffsets /\ Locks /\ Len(file) \in Nat
    BY DEF IInv, TypeOK, Locks
  <2>2. file' # file
    BY <2>1
  <2>3. PICK w \in Writers : MarkWrite(w) \/ Write(w)
    BY <2>2, Steps, ElsewhereFacts DEF Lock, Mark, Seek, Unlock, WriterExits
  <2>4. /\ j[w] \in 1 .. FileLen
        /\ Len(file') = IF j[w] <= Len(file) THEN Len(file) ELSE j[w]
        /\ \A k \in 1 .. Len(file) : k # j[w] => file'[k] = file[k]
    BY <2>1, <2>3, OwnWrite
  <2>5. j[w] > Half
    BY <2>1, <2>4
  <2>6. Holding(w)
    BY <2>1, <2>3, <2>5, Places DEF Holding
  <2>7. QED  BY <2>1, <2>6, HolderAlone
<1>2. QED  BY <1>1, FcntlInvariance, PTL DEF Spec, WrittenUnderLock
=============================================================================

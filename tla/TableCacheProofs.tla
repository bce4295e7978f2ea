-------------------------- MODULE TableCacheProofs --------------------------
(***************************************************************************)
(* Proofs about TableCache for every table, any number of processes, files *)
(* and restarts: no process ever searches with an inadmissible table; and, *)
(* under the lock and without machine crashes, a published file is whole   *)
(* and serves every RequireWarm request; and under the lock a whole file   *)
(* is never taken away, whatever renames and removes fail.                 *)
(***************************************************************************)
EXTENDS TableCache, TLAPS

\* What the assumption says of the image that writers write.
LEMMA ImageFacts ==
    /\ Len(Distance) \in Nat \ {0} /\ Cells = Len(Distance) + 1
    /\ Cells \in Nat \ {0, 1}
    /\ Image \in Seq(Nat) /\ Len(Image) = Cells
    /\ Distance \in [1 .. Len(Distance) -> Nat]
    /\ Image[1] = Magic
    /\ \A k \in 1 .. Len(Distance) : Image[k + 1] = Distance[k] /\ Distance[k] \in Nat
    /\ \A k \in 1 .. Cells : Image[k] \in Nat
    /\ None \notin Inode /\ None \notin [1 .. Len(Distance) -> Nat]
    /\ Inode \subseteq Nat
  <1>1. Distance \in Seq(Nat) /\ Len(Distance) \in Nat \ {0}
    BY CacheAssumption
  <1>2. Image \in Seq(Nat) /\ Len(Image) = Cells
    BY <1>1, CacheAssumption DEF Image, Cells
  <1>3. Image[1] = Magic
    BY <1>1, CacheAssumption DEF Image
  <1>4. \A k \in 1 .. Len(Distance) : Image[k + 1] = Distance[k] /\ Distance[k] \in Nat
    BY <1>1, CacheAssumption DEF Image
  <1>5. \A k \in 1 .. Cells : Image[k] \in Nat
    BY <1>1, <1>2
  <1> QED BY <1>1, <1>2, <1>3, <1>4, <1>5, CacheAssumption DEF Cells

LEMMA CellsFacts ==
    Len(Distance) \in Nat /\ Len(Distance) >= 1 /\ Cells = Len(Distance) + 1 /\ Cells \in Nat
  BY ImageFacts

\* Writing one cell keeps a file a prefix of the image with holes.
LEMMA WriteCellPlausible ==
    ASSUME NEW f \in Seq(Nat), Plausible(f), NEW k \in 1 .. Cells
    PROVE  WriteCell(f, k) \in Seq(Nat) /\ Plausible(WriteCell(f, k))
  <1> DEFINE n == IF k > Len(f) THEN k ELSE Len(f)
  <1>1. n \in Nat /\ n <= Cells /\ k <= n
    BY ImageFacts DEF Plausible
  <1> DEFINE c(j) == IF j = k THEN Image[k] ELSE IF j <= Len(f) THEN f[j] ELSE 0
  <1>2. \A j \in 1 .. n : c(j) \in {0, Image[j]} /\ c(j) \in Nat
    <2> SUFFICES ASSUME NEW j \in 1 .. n PROVE c(j) \in {0, Image[j]} /\ c(j) \in Nat
      OBVIOUS
    <2>1. j \in 1 .. Cells /\ Image[j] \in Nat /\ Image[k] \in Nat
      BY <1>1, ImageFacts
    <2>2. CASE j # k /\ j <= Len(f)
      <3>1. j \in 1 .. Len(f)
        BY <1>1, <2>2
      <3> QED BY <3>1, <2>1, <2>2 DEF Plausible
    <2>3. CASE j = k
      BY <2>1, <2>3
    <2>4. CASE j # k /\ ~(j <= Len(f))
      BY <2>4
    <2> QED BY <2>2, <2>3, <2>4
  <1>3. WriteCell(f, k) = [j \in 1 .. n |-> c(j)]
    BY DEF WriteCell
  <1> HIDE DEF n, c
  <1>4. WriteCell(f, k) \in Seq(Nat) /\ Len(WriteCell(f, k)) = n
    BY <1>1, <1>2, <1>3
  <1> QED BY <1>1, <1>2, <1>3, <1>4 DEF Plausible

\* The file after a prefix of the image, and one more cell of it.
LEMMA WriteCellPrefix ==
    ASSUME NEW k \in 1 .. Cells
    PROVE  WriteCell(SubSeq(Image, 1, k - 1), k) = SubSeq(Image, 1, k)
  <1>1. Len(SubSeq(Image, 1, k - 1)) = k - 1
    BY ImageFacts
  <1>2. \A j \in 1 .. k - 1 : SubSeq(Image, 1, k - 1)[j] = Image[j]
    BY ImageFacts
  <1>3. SubSeq(Image, 1, k) = [j \in 1 .. k |-> Image[j]]
    BY ImageFacts
  <1> QED BY <1>1, <1>2, <1>3, ImageFacts DEF WriteCell

\* What a crash leaves of a plausible file is plausible.
LEMMA RemainsPlausible ==
    ASSUME NEW f \in Seq(Nat), Plausible(f), NEW n \in 0 .. Len(f), NEW zeroed
    PROVE  Remains(f, n, zeroed) \in Seq(Nat) /\ Plausible(Remains(f, n, zeroed))
  <1>1. n \in Nat /\ n <= Cells /\ n <= Len(f)
    BY ImageFacts DEF Plausible
  <1>2. \A j \in 1 .. n : Remains(f, n, zeroed)[j] \in {0, Image[j]} /\ Remains(f, n, zeroed)[j] \in Nat
    BY <1>1, ImageFacts, SMTT(40) DEF Plausible, Remains
  <1>3. Remains(f, n, zeroed) = [j \in 1 .. n |-> Remains(f, n, zeroed)[j]]
    BY DEF Remains
  <1>4. Remains(f, n, zeroed) \in Seq(Nat) /\ Len(Remains(f, n, zeroed)) = n
    BY <1>1, <1>2, <1>3
  <1> QED BY <1>1, <1>2, <1>4 DEF Plausible

-----------------------------------------------------------------------------
(* IInv is inductive. *)

LEMMA BeginStep == ASSUME IInv, NEW p \in Process, Begin(p) PROVE IInv'
  <1> USE ImageFacts DEF IInv, Begin, Goto, disk, local
  <1>1. TypeOK'
    BY SMTT(40) DEF TypeOK, ReaderInv, WriterInv
  <1>2. FilesInv'
    BY DEF FilesInv, TypeOK, Plausible
  <1>3. ReaderInv'
    BY DEF ReaderInv, TypeOK, FilesInv, Plausible
  <1>4. WriterInv'
    BY DEF WriterInv, TypeOK
  <1>5. LoadedIsAdmissible'
    BY DEF LoadedIsAdmissible, Admissible, TypeOK, ReaderInv
  <1> QED BY <1>1, <1>2, <1>3, <1>4, <1>5

LEMMA CheckReadyStep == ASSUME IInv, NEW p \in Process, CheckReady(p) PROVE IInv'
  <1> USE ImageFacts DEF IInv, CheckReady, Goto, disk, local, HeaderValid, EntryReady
  <1>1. TypeOK'
    BY DEF TypeOK, ReaderInv, WriterInv
  <1>2. FilesInv'
    BY DEF FilesInv, TypeOK, Plausible
  <1>3. ReaderInv'
    BY SMTT(40) DEF ReaderInv, TypeOK, FilesInv, Plausible
  <1>4. WriterInv'
    BY DEF WriterInv, TypeOK
  <1>5. LoadedIsAdmissible'
    BY DEF LoadedIsAdmissible, Admissible, TypeOK, ReaderInv
  <1> QED BY <1>1, <1>2, <1>3, <1>4, <1>5

LEMMA OpenStep == ASSUME IInv, NEW p \in Process, Open(p) PROVE IInv'
  <1>0. TypeOK /\ FilesInv /\ ReaderInv /\ WriterInv /\ LoadedIsAdmissible /\ p \in Process
    BY DEF IInv
  <1>a. /\ UNCHANGED <<files, path, tmp, policy, table, runs, crashes>>
        /\ pc[p] = "open"
        /\ \A q \in Process : q # p => pc'[q] = pc[q]
    BY <1>0 DEF Open, Goto, disk, TypeOK
  <1>b. CASE pc' = [pc EXCEPT ![p] = "build"] /\ UNCHANGED <<fd, pos, buffer>>
    <2> QED BY <1>b, <1>a, <1>0 DEF IInv, TypeOK, FilesInv, Plausible, ReaderInv, WriterInv,
              LoadedIsAdmissible, Admissible
  <1>c. CASE /\ path # None
             /\ pc' = [pc EXCEPT ![p] = "read"]
             /\ fd' = [fd EXCEPT ![p] = path]
             /\ pos' = [pos EXCEPT ![p] = 1]
             /\ buffer' = [buffer EXCEPT ![p] = <<>>]
    <2>1. /\ pc' = [pc EXCEPT ![p] = "read"]
          /\ fd' = [fd EXCEPT ![p] = path]
          /\ pos' = [pos EXCEPT ![p] = 1]
          /\ buffer' = [buffer EXCEPT ![p] = <<>>]
      BY <1>c
    <2>2. path \in Inode
      BY <1>0, <1>c DEF TypeOK
    <2>3. buffer' \in [Process -> Seq(Nat)]
      BY <2>1, <1>0 DEF TypeOK
    <2>4. fd' \in [Process -> Inode \cup {None}] /\ pos' \in [Process -> Nat \ {0}]
      BY <2>1, <2>2, <1>0 DEF TypeOK
    <2>5. TypeOK'
      BY <2>1, <2>3, <2>4, <1>a, <1>0 DEF TypeOK
    <2>6. FilesInv'
      BY <1>0, <1>a DEF FilesInv, Plausible
    <2>7. pc'[p] = "read" /\ fd'[p] = path /\ pos'[p] = 1 /\ Len(buffer'[p]) = 0
      BY <2>1, <1>0 DEF TypeOK
    <2>8. \A q \in Process : q # p => fd'[q] = fd[q] /\ pos'[q] = pos[q] /\ buffer'[q] = buffer[q]
      BY <2>1, <1>0 DEF TypeOK
    <2>9. ReaderInv'
      <3>1. 1 \in 1 .. (Cells + 1) /\ \A k \in 1 .. 0 : FALSE
        BY CellsFacts
      <3>2. \A q \in Process : q # p /\ pc'[q] = "read" =>
              /\ fd'[q] \in Inode
              /\ pos'[q] \in 1 .. (Cells + 1)
              /\ Len(buffer'[q]) = IF pos'[q] = 1 THEN 0 ELSE pos'[q] - 2
              /\ \A k \in 1 .. Len(buffer'[q]) : buffer'[q][k] \in {0, Distance[k]}
        BY <2>8, <1>a, <1>0 DEF ReaderInv
      <3> QED BY <3>1, <3>2, <2>2, <2>7 DEF ReaderInv
    <2>10. WriterInv'
      BY <2>7, <2>8, <1>a, <1>0 DEF WriterInv
    <2>11. LoadedIsAdmissible'
      BY <1>a, <1>0 DEF LoadedIsAdmissible, Admissible
    <2> QED BY <2>5, <2>6, <2>9, <2>10, <2>11 DEF IInv
  <1> QED BY <1>b, <1>c DEF Open, Goto

LEMMA ReadHeaderStep == ASSUME IInv, NEW p \in Process, ReadHeader(p) PROVE IInv'
  <1>0. TypeOK /\ FilesInv /\ ReaderInv /\ WriterInv /\ LoadedIsAdmissible /\ p \in Process
    BY DEF IInv
  <1>a. /\ UNCHANGED <<files, path, tmp, policy, fd, buffer, table, runs, crashes>>
        /\ pc[p] = "read" /\ pos[p] = 1
    BY DEF ReadHeader, disk
  <1>b. \/ pc' = pc /\ pos' = [pos EXCEPT ![p] = 2]
        \/ pc' = [pc EXCEPT ![p] = "build"] /\ pos' = pos
    BY DEF ReadHeader, Goto
  <1>1. TypeOK'
    <2>1. pc' \in [Process -> {"idle", "check", "open", "read", "build", "create", "write",
                              "discard", "rename", "unlink", "rename2", "finished"}]
      BY <1>0, <1>b DEF TypeOK
    <2>2. pos \in [Process -> Nat \ {0}] /\ 2 \in Nat \ {0}
      BY <1>0 DEF TypeOK
    <2>3. pos' = pos \/ pos' = [pos EXCEPT ![p] = 2]
      BY <1>b
    <2>4. pos' \in [Process -> Nat \ {0}]
      BY <2>2, <2>3
    <2> QED BY <1>0, <1>a, <2>1, <2>4 DEF TypeOK
  <1>2. FilesInv'
    BY <1>0, <1>a DEF FilesInv, Plausible
  <1>3. ReaderInv'
    <2>1. Len(buffer[p]) = 0 /\ fd[p] \in Inode
      BY <1>0, <1>a DEF ReaderInv
    <2>2. CASE pc' = pc /\ pos' = [pos EXCEPT ![p] = 2]
      <3>1. pos'[p] = 2 /\ \A q \in Process : q # p => pos'[q] = pos[q]
        BY <2>2, <1>0 DEF TypeOK
      <3>2. 2 \in 1 .. (Cells + 1) /\ 2 - 2 = 0
        BY CellsFacts
      <3>3. \A k \in 1 .. Len(buffer[p]) : FALSE
        BY <2>1
      <3>4. \A q \in Process : q # p /\ pc[q] = "read" =>
              /\ fd[q] \in Inode
              /\ pos'[q] \in 1 .. (Cells + 1)
              /\ Len(buffer[q]) = IF pos'[q] = 1 THEN 0 ELSE pos'[q] - 2
              /\ \A k \in 1 .. Len(buffer[q]) : buffer[q][k] \in {0, Distance[k]}
        BY <3>1, <1>0 DEF ReaderInv
      <3> QED BY <3>1, <3>2, <3>3, <3>4, <2>1, <2>2, <1>a DEF ReaderInv
    <2>3. CASE pc' = [pc EXCEPT ![p] = "build"] /\ pos' = pos
      <3>1. pc'[p] = "build" /\ \A q \in Process : q # p => pc'[q] = pc[q]
        BY <2>3, <1>0 DEF TypeOK
      <3> QED BY <3>1, <2>3, <1>0, <1>a DEF ReaderInv
    <2> QED BY <1>b, <2>2, <2>3
  <1>4. WriterInv'
    BY <1>0, <1>a, <1>b DEF WriterInv, TypeOK
  <1>5. LoadedIsAdmissible'
    BY <1>0, <1>a DEF LoadedIsAdmissible, Admissible
  <1> QED BY <1>1, <1>2, <1>3, <1>4, <1>5 DEF IInv

LEMMA ReadPayloadStep == ASSUME IInv, NEW p \in Process, ReadPayload(p) PROVE IInv'
  <1>0. TypeOK /\ FilesInv /\ ReaderInv /\ WriterInv /\ LoadedIsAdmissible /\ p \in Process
    BY DEF IInv
  <1>a. /\ UNCHANGED <<files, path, tmp, pc, policy, fd, table, runs, crashes>>
        /\ pc[p] = "read" /\ pos[p] \in 2 .. Cells
        /\ pos' = [pos EXCEPT ![p] = pos[p] + 1]
    BY DEF ReadPayload, disk
  <1>b. PICK c \in ReadCell(p) : buffer' = [buffer EXCEPT ![p] = Append(buffer[p], c)]
    BY DEF ReadPayload
  <1>c. fd[p] \in Inode /\ Len(buffer[p]) = pos[p] - 2 /\ buffer[p] \in Seq(Nat)
    BY <1>0, <1>a, ImageFacts, SMTT(40) DEF ReaderInv, TypeOK
  <1>d. files[fd[p]] \in Seq(Nat) /\ Plausible(files[fd[p]])
    BY <1>0, <1>c DEF TypeOK, FilesInv
  <1>e. c = files[fd[p]][pos[p]] /\ pos[p] \in 1 .. Len(files[fd[p]])
    BY <1>a, <1>d, ImageFacts DEF ReadCell
  <1>f. c \in {0, Image[pos[p]]}
    BY <1>d, <1>e DEF Plausible
  <1>g. Image[pos[p]] = Distance[pos[p] - 1] /\ Distance[pos[p] - 1] \in Nat
    <2>1. pos[p] - 1 \in 1 .. Len(Distance) /\ (pos[p] - 1) + 1 = pos[p]
      <3>1. pos[p] \in 2 .. Cells
        BY <1>a
      <3> QED BY <3>1, CellsFacts
    <2> QED BY <2>1, ImageFacts
  <1>h. c \in {0, Distance[Len(buffer[p]) + 1]} /\ c \in Nat
    <2>1. Len(buffer[p]) + 1 = pos[p] - 1
      BY <1>a, <1>c, ImageFacts
    <2> QED BY <2>1, <1>f, <1>g
  <1>i. \A q \in Process : q # p => pos'[q] = pos[q] /\ buffer'[q] = buffer[q]
    BY <1>0, <1>a, <1>b DEF TypeOK
  <1>j. buffer'[p] = Append(buffer[p], c) /\ pos'[p] = pos[p] + 1
    BY <1>0, <1>a, <1>b DEF TypeOK
  <1>k. Append(buffer[p], c) \in Seq(Nat) /\ Len(Append(buffer[p], c)) = Len(buffer[p]) + 1
    BY <1>c, <1>h
  <1>1. TypeOK'
    <2>1. buffer' \in [Process -> Seq(Nat)]
      BY <1>0, <1>b, <1>k DEF TypeOK
    <2>2. pos[p] + 1 \in Nat \ {0}
      BY <1>a, ImageFacts
    <2>3. pos' \in [Process -> Nat \ {0}]
      BY <1>0, <1>a, <2>2 DEF TypeOK
    <2> QED BY <1>0, <1>a, <2>1, <2>3 DEF TypeOK
  <1>2. FilesInv'
    BY <1>0, <1>a DEF FilesInv, Plausible
  <1>3. ReaderInv'
    <2>1. \A k \in 1 .. Len(buffer[p]) : Append(buffer[p], c)[k] = buffer[p][k]
      BY <1>c, <1>h
    <2>2. Append(buffer[p], c)[Len(buffer[p]) + 1] = c
      BY <1>c, <1>h
    <2>3. \A k \in 1 .. Len(buffer[p]) : buffer[p][k] \in {0, Distance[k]}
      BY <1>0, <1>a DEF ReaderInv
    <2>4. \A k \in 1 .. (Len(buffer[p]) + 1) : k \in 1 .. Len(buffer[p]) \/ k = Len(buffer[p]) + 1
      BY <1>c
    <2>5. \A k \in 1 .. Len(buffer'[p]) : buffer'[p][k] \in {0, Distance[k]}
      BY <2>1, <2>2, <2>3, <2>4, <1>h, <1>j, <1>k
    <2>6. pos'[p] \in 1 .. (Cells + 1) /\ Len(buffer'[p]) = pos'[p] - 2 /\ pos'[p] # 1
      <3>1. pos[p] \in 2 .. Cells
        BY <1>a
      <3>2. Cells \in Nat /\ pos'[p] = pos[p] + 1 /\ pos[p] # 1
        BY <3>1, <1>j, CellsFacts
      <3>3. pos'[p] \in 1 .. (Cells + 1) /\ pos'[p] # 1
        BY <3>1, <3>2
      <3>4. Len(buffer'[p]) = pos'[p] - 2
        BY <3>1, <3>2, <1>c, <1>j, <1>k
      <3> QED BY <3>3, <3>4
    <2>7. \A q \in Process : q # p /\ pc'[q] = "read" =>
              /\ fd'[q] \in Inode
              /\ pos'[q] \in 1 .. (Cells + 1)
              /\ Len(buffer'[q]) = IF pos'[q] = 1 THEN 0 ELSE pos'[q] - 2
              /\ \A k \in 1 .. Len(buffer'[q]) : buffer'[q][k] \in {0, Distance[k]}
      BY <1>0, <1>a, <1>i DEF ReaderInv
    <2> QED BY <2>5, <2>6, <2>7, <1>a, <1>c DEF ReaderInv
  <1>4. WriterInv'
    BY <1>0, <1>a, <1>i DEF WriterInv
  <1>5. LoadedIsAdmissible'
    BY <1>0, <1>a DEF LoadedIsAdmissible, Admissible
  <1> QED BY <1>1, <1>2, <1>3, <1>4, <1>5 DEF IInv

LEMMA ReadFailsStep == ASSUME IInv, NEW p \in Process, ReadFails(p) PROVE IInv'
  <1> USE ImageFacts DEF IInv, ReadFails, Goto, disk, local, ReadCell
  <1>1. TypeOK'
    BY DEF TypeOK, ReaderInv, WriterInv
  <1>2. FilesInv'
    BY DEF FilesInv, TypeOK, Plausible
  <1>3. ReaderInv'
    BY DEF ReaderInv, TypeOK, FilesInv, Plausible
  <1>4. WriterInv'
    BY DEF WriterInv, TypeOK
  <1>5. LoadedIsAdmissible'
    BY DEF LoadedIsAdmissible, Admissible, TypeOK, ReaderInv
  <1> QED BY <1>1, <1>2, <1>3, <1>4, <1>5

LEMMA LoadedStep == ASSUME IInv, NEW p \in Process, Loaded(p) PROVE IInv'
  <1>0. TypeOK /\ FilesInv /\ ReaderInv /\ WriterInv /\ LoadedIsAdmissible /\ p \in Process
    BY DEF IInv
  <1>a. /\ UNCHANGED <<files, path, tmp, policy, fd, pos, buffer, runs, crashes>>
        /\ pc[p] = "read" /\ pos[p] > Cells
        /\ pc' = [pc EXCEPT ![p] = "finished"]
        /\ table' = [table EXCEPT ![p] = buffer[p]]
    BY DEF Loaded, AllRead, Goto, disk
  <1>b. Len(buffer[p]) = Len(Distance) /\ buffer[p] \in Seq(Nat)
    BY <1>0, <1>a, ImageFacts DEF ReaderInv, TypeOK
  <1>c. buffer[p] \in [1 .. Len(Distance) -> Nat]
    BY <1>b
  <1>d. \A k \in 1 .. Len(Distance) : buffer[p][k] \in {0, Distance[k]}
    BY <1>0, <1>a, <1>b DEF ReaderInv
  <1>e. \A k \in 1 .. Len(Distance) : buffer[p][k] <= Distance[k]
    <2>1. ASSUME NEW k \in 1 .. Len(Distance) PROVE buffer[p][k] <= Distance[k]
      <3>1. buffer[p][k] = 0 \/ buffer[p][k] = Distance[k]
        BY <1>d
      <3>2. Distance[k] \in Nat
        BY ImageFacts
      <3> QED BY <3>1, <3>2
    <2> QED BY <2>1
  <1>f. DOMAIN buffer[p] = DOMAIN Distance /\ DOMAIN buffer[p] = 1 .. Len(Distance)
    BY <1>c, ImageFacts
  <1>g. Admissible(buffer[p])
    BY <1>e, <1>f DEF Admissible
  <1>h. \A q \in Process : table'[q] = IF q = p THEN buffer[p] ELSE table[q]
    BY <1>0, <1>a DEF TypeOK
  <1>1. TypeOK'
    BY <1>0, <1>a, <1>c DEF TypeOK
  <1>2. FilesInv'
    BY <1>0, <1>a DEF FilesInv, Plausible
  <1>3. ReaderInv' /\ WriterInv'
    BY <1>0, <1>a DEF ReaderInv, WriterInv, TypeOK
  <1>4. LoadedIsAdmissible'
    BY <1>0, <1>g, <1>h DEF LoadedIsAdmissible, Admissible
  <1> QED BY <1>1, <1>2, <1>3, <1>4 DEF IInv

LEMMA BuildStep == ASSUME IInv, NEW p \in Process, Build(p) PROVE IInv'
  <1> USE ImageFacts DEF IInv, Build, Goto, disk, local
  <1>1. TypeOK'
    BY DEF TypeOK, ReaderInv, WriterInv
  <1>2. FilesInv'
    BY DEF FilesInv, TypeOK, Plausible
  <1>3. ReaderInv'
    BY DEF ReaderInv, TypeOK, FilesInv, Plausible
  <1>4. WriterInv'
    BY DEF WriterInv, TypeOK
  <1>5. LoadedIsAdmissible'
    <2>1. Admissible(Distance)
      BY DEF Admissible
    <2>2. \A q \in Process : table'[q] = IF q = p THEN Distance ELSE table[q]
      BY DEF TypeOK
    <2> QED BY <2>1, <2>2 DEF LoadedIsAdmissible, Admissible
  <1> QED BY <1>1, <1>2, <1>3, <1>4, <1>5

LEMMA CreateStep == ASSUME IInv, NEW p \in Process, Create(p) PROVE IInv'
  <1> USE ImageFacts DEF IInv, Create, Goto, disk, local, FreshInodes
  <1>1. TypeOK'
    BY SMTT(40) DEF TypeOK, ReaderInv, WriterInv
  <1>2. FilesInv'
    <2>1. Plausible(<<>>)
      BY DEF Plausible
    <2>2. \A i \in Inode : files'[i] = files[i] \/ files'[i] = <<>>
      BY DEF TypeOK
    <2> QED BY <2>1, <2>2 DEF FilesInv, Plausible
  <1>3. ReaderInv'
    BY DEF ReaderInv, TypeOK, FilesInv, Plausible
  <1>4. WriterInv'
    BY DEF WriterInv, TypeOK
  <1>5. LoadedIsAdmissible'
    BY DEF LoadedIsAdmissible, Admissible, TypeOK, ReaderInv
  <1> QED BY <1>1, <1>2, <1>3, <1>4, <1>5

LEMMA CreateFailsStep == ASSUME IInv, NEW p \in Process, CreateFails(p) PROVE IInv'
  <1> USE ImageFacts DEF IInv, CreateFails, Goto, disk, local
  <1>1. TypeOK'
    BY DEF TypeOK, ReaderInv, WriterInv
  <1>2. FilesInv'
    BY DEF FilesInv, TypeOK, Plausible
  <1>3. ReaderInv'
    BY DEF ReaderInv, TypeOK, FilesInv, Plausible
  <1>4. WriterInv'
    BY DEF WriterInv, TypeOK
  <1>5. LoadedIsAdmissible'
    BY DEF LoadedIsAdmissible, Admissible, TypeOK, ReaderInv
  <1> QED BY <1>1, <1>2, <1>3, <1>4, <1>5

LEMMA WriteStep == ASSUME IInv, NEW p \in Process, Write(p) PROVE IInv'
  <1> USE ImageFacts DEF IInv, Write, Goto, disk, local
  <1>1. TypeOK'
    <2>1. fd[p] \in Inode /\ pos[p] \in 1 .. Cells
      BY DEF WriterInv
    <2>2. WriteCell(files[fd[p]], pos[p]) \in Seq(Nat)
      BY <2>1, WriteCellPlausible DEF FilesInv, TypeOK
    <2>3. files' \in [Inode -> Seq(Nat)]
      BY <2>1, <2>2 DEF TypeOK
    <2>4. pos[p] + 1 \in Nat \ {0}
      BY <2>1
    <2>5. pos' \in [Process -> Nat \ {0}]
      BY <2>4 DEF TypeOK
    <2> QED BY <2>3, <2>5 DEF TypeOK
  <1>2. FilesInv'
    <2>1. fd[p] \in Inode /\ pos[p] \in 1 .. Cells
      BY DEF WriterInv
    <2>2. Plausible(WriteCell(files[fd[p]], pos[p]))
      BY <2>1, WriteCellPlausible DEF FilesInv, TypeOK
    <2>3. \A i \in Inode : files'[i] = IF i = fd[p] THEN WriteCell(files[i], pos[p]) ELSE files[i]
      BY <2>1 DEF TypeOK
    <2> QED BY <2>2, <2>3 DEF FilesInv, Plausible
  <1>3. ReaderInv'
    BY DEF ReaderInv, TypeOK, FilesInv, Plausible
  <1>4. WriterInv'
    BY SMTT(40) DEF WriterInv, TypeOK
  <1>5. LoadedIsAdmissible'
    BY DEF LoadedIsAdmissible, Admissible, TypeOK, ReaderInv
  <1> QED BY <1>1, <1>2, <1>3, <1>4, <1>5

LEMMA WriteFailsStep == ASSUME IInv, NEW p \in Process, WriteFails(p) PROVE IInv'
  <1> USE ImageFacts DEF IInv, WriteFails, Goto, disk, local, AfterFailure
  <1>1. TypeOK'
    BY DEF TypeOK, ReaderInv, WriterInv
  <1>2. FilesInv'
    BY DEF FilesInv, TypeOK, Plausible
  <1>3. ReaderInv'
    BY DEF ReaderInv, TypeOK, FilesInv, Plausible
  <1>4. WriterInv'
    BY DEF WriterInv, TypeOK
  <1>5. LoadedIsAdmissible'
    BY DEF LoadedIsAdmissible, Admissible, TypeOK, ReaderInv
  <1> QED BY <1>1, <1>2, <1>3, <1>4, <1>5

LEMMA CloseStep == ASSUME IInv, NEW p \in Process, Close(p) PROVE IInv'
  <1> USE ImageFacts DEF IInv, Close, Goto, disk, local
  <1>1. TypeOK'
    BY DEF TypeOK, ReaderInv, WriterInv
  <1>2. FilesInv'
    BY DEF FilesInv, TypeOK, Plausible
  <1>3. ReaderInv'
    BY DEF ReaderInv, TypeOK, FilesInv, Plausible
  <1>4. WriterInv'
    BY DEF WriterInv, TypeOK
  <1>5. LoadedIsAdmissible'
    BY DEF LoadedIsAdmissible, Admissible, TypeOK, ReaderInv
  <1> QED BY <1>1, <1>2, <1>3, <1>4, <1>5

LEMMA DiscardStep == ASSUME IInv, NEW p \in Process, Discard(p) PROVE IInv'
  <1> USE ImageFacts DEF IInv, Discard, Goto, disk, local
  <1>1. TypeOK'
    BY DEF TypeOK, ReaderInv, WriterInv
  <1>2. FilesInv'
    BY DEF FilesInv, TypeOK, Plausible
  <1>3. ReaderInv'
    BY DEF ReaderInv, TypeOK, FilesInv, Plausible
  <1>4. WriterInv'
    BY DEF WriterInv, TypeOK
  <1>5. LoadedIsAdmissible'
    BY DEF LoadedIsAdmissible, Admissible, TypeOK, ReaderInv
  <1> QED BY <1>1, <1>2, <1>3, <1>4, <1>5

LEMMA RenameStep == ASSUME IInv, NEW p \in Process, Rename(p) PROVE IInv'
  <1> USE ImageFacts DEF IInv, Rename, Goto, disk, local, MoveTmp
  <1>1. TypeOK'
    BY DEF TypeOK, ReaderInv, WriterInv
  <1>2. FilesInv'
    BY DEF FilesInv, TypeOK, Plausible
  <1>3. ReaderInv'
    BY SMTT(40) DEF ReaderInv, TypeOK, FilesInv, Plausible
  <1>4. WriterInv'
    BY DEF WriterInv, TypeOK
  <1>5. LoadedIsAdmissible'
    BY DEF LoadedIsAdmissible, Admissible, TypeOK, ReaderInv
  <1> QED BY <1>1, <1>2, <1>3, <1>4, <1>5

LEMMA UnlinkStep == ASSUME IInv, NEW p \in Process, Unlink(p) PROVE IInv'
  <1> USE ImageFacts DEF IInv, Unlink, Goto, disk, local
  <1>1. TypeOK'
    BY DEF TypeOK, ReaderInv, WriterInv
  <1>2. FilesInv'
    BY DEF FilesInv, TypeOK, Plausible
  <1>3. ReaderInv'
    BY DEF ReaderInv, TypeOK, FilesInv, Plausible
  <1>4. WriterInv'
    BY DEF WriterInv, TypeOK
  <1>5. LoadedIsAdmissible'
    BY DEF LoadedIsAdmissible, Admissible, TypeOK, ReaderInv
  <1> QED BY <1>1, <1>2, <1>3, <1>4, <1>5

LEMMA RenameAgainStep == ASSUME IInv, NEW p \in Process, RenameAgain(p) PROVE IInv'
  <1> USE ImageFacts DEF IInv, RenameAgain, Goto, disk, local, MoveTmp
  <1>1. TypeOK'
    BY DEF TypeOK, ReaderInv, WriterInv
  <1>2. FilesInv'
    BY DEF FilesInv, TypeOK, Plausible
  <1>3. ReaderInv'
    BY DEF ReaderInv, TypeOK, FilesInv, Plausible
  <1>4. WriterInv'
    BY DEF WriterInv, TypeOK
  <1>5. LoadedIsAdmissible'
    BY DEF LoadedIsAdmissible, Admissible, TypeOK, ReaderInv
  <1> QED BY <1>1, <1>2, <1>3, <1>4, <1>5

LEMMA EndsStep == ASSUME IInv, NEW p \in Process, Ends(p) PROVE IInv'
  <1> USE ImageFacts DEF IInv, Ends, Goto, disk, local, Forget
  <1>1. TypeOK'
    BY DEF TypeOK, ReaderInv, WriterInv
  <1>2. FilesInv'
    BY DEF FilesInv, TypeOK, Plausible
  <1>3. ReaderInv'
    BY DEF ReaderInv, TypeOK, FilesInv, Plausible
  <1>4. WriterInv'
    BY DEF WriterInv, TypeOK
  <1>5. LoadedIsAdmissible'
    BY DEF LoadedIsAdmissible, Admissible, TypeOK, ReaderInv
  <1> QED BY <1>1, <1>2, <1>3, <1>4, <1>5

LEMMA MachineCrashStep == ASSUME IInv, MachineCrash PROVE IInv'
  <1> USE DEF IInv, MachineCrash, Forget
  <1>a. PICK n \in 0 .. Len(files[path]) : \E zeroed \in SUBSET (1 .. n) :
              files' = [files EXCEPT ![path] = Remains(@, n, zeroed)]
    OBVIOUS
  <1>b. PICK zeroed \in SUBSET (1 .. n) : files' = [files EXCEPT ![path] = Remains(@, n, zeroed)]
    BY <1>a
  <1>1. path \in Inode /\ files[path] \in Seq(Nat) /\ Plausible(files[path])
    BY DEF TypeOK, FilesInv
  <1>2. Remains(files[path], n, zeroed) \in Seq(Nat) /\ Plausible(Remains(files[path], n, zeroed))
    BY <1>1, RemainsPlausible
  <1>3. \A i \in Inode : files'[i] = IF i = path THEN Remains(files[i], n, zeroed) ELSE files[i]
    BY <1>b, <1>1 DEF TypeOK
  <1>4. files' \in [Inode -> Seq(Nat)]
    BY <1>b, <1>1, <1>2 DEF TypeOK
  <1>5. TypeOK'
    BY <1>4 DEF TypeOK
  <1>6. FilesInv'
    BY <1>2, <1>3 DEF FilesInv, Plausible
  <1>7. ReaderInv' /\ WriterInv' /\ LoadedIsAdmissible'
    BY DEF ReaderInv, WriterInv, LoadedIsAdmissible
  <1> QED BY <1>5, <1>6, <1>7

LEMMA InitIInv == Init => IInv
  <1> SUFFICES ASSUME Init PROVE IInv
    OBVIOUS
  <1> USE ImageFacts DEF Init
  <1>1. TypeOK
    BY CacheAssumption DEF TypeOK
  <1>2. FilesInv
    BY DEF FilesInv, Plausible
  <1>3. ReaderInv /\ WriterInv /\ LoadedIsAdmissible
    BY DEF ReaderInv, WriterInv, LoadedIsAdmissible
  <1> QED BY <1>1, <1>2, <1>3 DEF IInv

LEMMA StutterStep == ASSUME IInv, UNCHANGED vars PROVE IInv'
  BY DEF IInv, vars, disk, local, TypeOK, FilesInv, Plausible, ReaderInv, WriterInv,
         LoadedIsAdmissible, Admissible

\* IInv holds of every reachable state.
THEOREM Inductive == Spec => []IInv
  <1>1. ASSUME IInv, [Next]_vars PROVE IInv'
    <2>1. ASSUME NEW p \in Process, Load(p) PROVE IInv'
      BY <1>1, <2>1, CheckReadyStep, OpenStep, ReadHeaderStep, ReadPayloadStep, ReadFailsStep,
         LoadedStep DEF Load
    <2>2. ASSUME NEW p \in Process, Save(p) PROVE IInv'
      BY <1>1, <2>2, CreateStep, CreateFailsStep, WriteStep, WriteFailsStep, CloseStep,
         DiscardStep, RenameStep, UnlinkStep, RenameAgainStep DEF Save
    <2> QED BY <1>1, <2>1, <2>2, BeginStep, BuildStep, EndsStep, MachineCrashStep, StutterStep
         DEF Next, Step
  <1> QED BY <1>1, InitIInv, PTL DEF Spec

-----------------------------------------------------------------------------
(* The theorems. *)

\* Type correctness, for every table, process set and bound.
THEOREM TypeCorrect == Spec => []TypeOK
  <1>1. IInv => TypeOK
    BY DEF IInv
  <1> QED BY <1>1, Inductive, PTL

\* No table any process searches with overestimates a distance, whatever the
\* processes race over and a machine crash destroys (loadFromCache, saveToCache).
THEOREM Admissibility == Spec => []LoadedIsAdmissible
  <1>1. IInv => LoadedIsAdmissible
    BY DEF IInv
  <1> QED BY <1>1, Inductive, PTL

-----------------------------------------------------------------------------
(* Under the lock: LockInv is inductive relative to IInv. *)

\* The process that takes a step is the only one at work.
LEMMA Alone ==
    ASSUME LockInv, NEW p \in Process, Busy(p)
    PROVE  \A q \in Process : q # p => pc[q] \in {"idle", "finished"}
  BY DEF LockInv, Busy

LEMMA BeginLocked == ASSUME ExternalLock, IInv, LockInv, NEW p \in Process, Begin(p) PROVE LockInv'
  <1> USE DEF Busy, Saving, Begin, Goto, disk, local
  <1>1. \A q \in Process : q # p => pc[q] \in {"idle", "finished"}
    BY Alone DEF LockInv
  <1>2. TypeOK /\ ReaderInv /\ WriterInv
    BY DEF IInv
  <1>3. PublishedIsComplete' /\ (path' # None => path' # tmp')
    BY <1>1, <1>2, ImageFacts DEF LockInv, PublishedIsComplete, Complete, TypeOK
  <1>4. \A q \in Process : q # p => pc'[q] \in {"idle", "finished"}
    BY <1>1, <1>2 DEF TypeOK
  <1> QED BY <1>1, <1>2, <1>3, <1>4 DEF LockInv, Complete, PublishedIsComplete, TypeOK

LEMMA CheckReadyLocked == ASSUME ExternalLock, IInv, LockInv, NEW p \in Process, CheckReady(p) PROVE LockInv'
  <1> USE DEF Busy, Saving, CheckReady, Goto, disk, local, HeaderValid, EntryReady
  <1>1. \A q \in Process : q # p => pc[q] \in {"idle", "finished"}
    BY Alone DEF LockInv
  <1>2. TypeOK /\ ReaderInv /\ WriterInv
    BY DEF IInv
  <1>3. PublishedIsComplete' /\ (path' # None => path' # tmp')
    BY <1>1, <1>2, ImageFacts DEF LockInv, PublishedIsComplete, Complete, TypeOK
  <1>4. \A q \in Process : q # p => pc'[q] \in {"idle", "finished"}
    BY <1>1, <1>2 DEF TypeOK
  <1> QED BY <1>1, <1>2, <1>3, <1>4 DEF LockInv, Complete, PublishedIsComplete, TypeOK

LEMMA OpenLocked == ASSUME ExternalLock, IInv, LockInv, NEW p \in Process, Open(p) PROVE LockInv'
  <1> USE DEF Busy, Saving, Open, Goto, disk, local
  <1>1. \A q \in Process : q # p => pc[q] \in {"idle", "finished"}
    BY Alone DEF LockInv
  <1>2. TypeOK /\ ReaderInv /\ WriterInv
    BY DEF IInv
  <1>3. PublishedIsComplete' /\ (path' # None => path' # tmp')
    BY <1>1, <1>2, ImageFacts DEF LockInv, PublishedIsComplete, Complete, TypeOK
  <1>4. \A q \in Process : q # p => pc'[q] \in {"idle", "finished"}
    BY <1>1, <1>2 DEF TypeOK
  <1> QED BY <1>1, <1>2, <1>3, <1>4 DEF LockInv, Complete, PublishedIsComplete, TypeOK

LEMMA ReadHeaderLocked == ASSUME ExternalLock, IInv, LockInv, NEW p \in Process, ReadHeader(p) PROVE LockInv'
  <1> USE DEF Busy, Saving, ReadHeader, Goto, disk, local, HeaderValid
  <1>1. \A q \in Process : q # p => pc[q] \in {"idle", "finished"}
    BY Alone DEF LockInv
  <1>2. TypeOK /\ ReaderInv /\ WriterInv
    BY DEF IInv
  <1>3. PublishedIsComplete' /\ (path' # None => path' # tmp')
    BY <1>1, <1>2, ImageFacts DEF LockInv, PublishedIsComplete, Complete, TypeOK
  <1>4. \A q \in Process : q # p => pc'[q] \in {"idle", "finished"}
    BY <1>1, <1>2 DEF TypeOK
  <1>5. pc'[p] = "build" /\ ~ReadErrors => ~Complete(path)
    <2>1. Complete(path) => HeaderValid(fd[p])
      BY CellsFacts, ImageFacts DEF LockInv, Complete
    <2> QED BY <2>1, <1>2 DEF TypeOK
  <1>6. pc' = pc \/ pc'[p] = "build"
    BY <1>2 DEF TypeOK
  <1> QED BY <1>1, <1>2, <1>3, <1>4, <1>5, <1>6 DEF LockInv, Complete, PublishedIsComplete, TypeOK

LEMMA ReadPayloadLocked == ASSUME ExternalLock, IInv, LockInv, NEW p \in Process, ReadPayload(p) PROVE LockInv'
  <1> USE DEF Busy, Saving, ReadPayload, Goto, disk, local, ReadCell
  <1>1. \A q \in Process : q # p => pc[q] \in {"idle", "finished"}
    BY Alone DEF LockInv
  <1>2. TypeOK /\ ReaderInv /\ WriterInv
    BY DEF IInv
  <1>3. PublishedIsComplete' /\ (path' # None => path' # tmp')
    BY <1>1, <1>2, ImageFacts DEF LockInv, PublishedIsComplete, Complete, TypeOK
  <1>4. \A q \in Process : q # p => pc'[q] \in {"idle", "finished"}
    BY <1>1, <1>2 DEF TypeOK
  <1> QED BY <1>1, <1>2, <1>3, <1>4 DEF LockInv, Complete, PublishedIsComplete, TypeOK

LEMMA ReadFailsLocked == ASSUME ExternalLock, IInv, LockInv, NEW p \in Process, ReadFails(p) PROVE LockInv'
  <1> USE DEF Busy, Saving, ReadFails, Goto, disk, local, ReadCell
  <1>1. \A q \in Process : q # p => pc[q] \in {"idle", "finished"}
    BY Alone DEF LockInv
  <1>2. TypeOK /\ ReaderInv /\ WriterInv
    BY DEF IInv
  <1>3. PublishedIsComplete' /\ (path' # None => path' # tmp')
    BY <1>1, <1>2, ImageFacts DEF LockInv, PublishedIsComplete, Complete, TypeOK
  <1>4. \A q \in Process : q # p => pc'[q] \in {"idle", "finished"}
    BY <1>1, <1>2 DEF TypeOK
  <1>5. ~ReadErrors => ~Complete(path)
    <2>1. SUFFICES ASSUME Complete(path) PROVE ReadCell(p) # {}
      OBVIOUS
    <2>2. fd[p] = path /\ files[path] = Image
      BY <2>1 DEF LockInv, Complete
    <2>3. pos[p] <= Len(files[fd[p]])
      BY <2>2, CellsFacts, ImageFacts
    <2> QED BY <2>3
  <1> QED BY <1>1, <1>2, <1>3, <1>4, <1>5 DEF LockInv, Complete, PublishedIsComplete, TypeOK

LEMMA LoadedLocked == ASSUME ExternalLock, IInv, LockInv, NEW p \in Process, Loaded(p) PROVE LockInv'
  <1> USE DEF Busy, Saving, Loaded, Goto, disk, local, AllRead
  <1>1. \A q \in Process : q # p => pc[q] \in {"idle", "finished"}
    BY Alone DEF LockInv
  <1>2. TypeOK /\ ReaderInv /\ WriterInv
    BY DEF IInv
  <1>3. PublishedIsComplete' /\ (path' # None => path' # tmp')
    BY <1>1, <1>2, ImageFacts DEF LockInv, PublishedIsComplete, Complete, TypeOK
  <1>4. \A q \in Process : q # p => pc'[q] \in {"idle", "finished"}
    BY <1>1, <1>2 DEF TypeOK
  <1> QED BY <1>1, <1>2, <1>3, <1>4 DEF LockInv, Complete, PublishedIsComplete, TypeOK

LEMMA BuildLocked == ASSUME ExternalLock, IInv, LockInv, NEW p \in Process, Build(p) PROVE LockInv'
  <1> USE DEF Busy, Saving, Build, Goto, disk, local
  <1>1. \A q \in Process : q # p => pc[q] \in {"idle", "finished"}
    BY Alone DEF LockInv
  <1>2. TypeOK /\ ReaderInv /\ WriterInv
    BY DEF IInv
  <1>3. PublishedIsComplete' /\ (path' # None => path' # tmp')
    BY <1>1, <1>2, ImageFacts DEF LockInv, PublishedIsComplete, Complete, TypeOK
  <1>4. \A q \in Process : q # p => pc'[q] \in {"idle", "finished"}
    BY <1>1, <1>2 DEF TypeOK
  <1> QED BY <1>1, <1>2, <1>3, <1>4 DEF LockInv, Complete, PublishedIsComplete, TypeOK

LEMMA CreateLocked == ASSUME ExternalLock, IInv, LockInv, NEW p \in Process, Create(p) PROVE LockInv'
  <1> USE DEF Busy, Saving, Create, Goto, disk, local, FreshInodes
  <1>1. \A q \in Process : q # p => pc[q] \in {"idle", "finished"}
    BY Alone DEF LockInv
  <1>2. TypeOK /\ ReaderInv /\ WriterInv
    BY DEF IInv
  <1>3. PublishedIsComplete' /\ (path' # None => path' # tmp')
    <2>1. PICK i \in (IF tmp = None THEN FreshInodes ELSE {tmp}) :
              tmp' = i /\ files' = [files EXCEPT ![i] = <<>>]
      OBVIOUS
    <2>2. i # path
      <3>1. CASE tmp = None
        BY <2>1, <3>1 DEF InUse
      <3>2. CASE tmp # None
        BY <2>1, <3>2 DEF LockInv
      <3> QED BY <3>1, <3>2
    <2>3. path' = path /\ (path # None => files'[path] = files[path])
      BY <1>2, <2>1, <2>2 DEF TypeOK
    <2> QED BY <2>1, <2>2, <2>3 DEF LockInv, PublishedIsComplete, Complete
  <1>4. \A q \in Process : q # p => pc'[q] \in {"idle", "finished"}
    BY <1>1, <1>2 DEF TypeOK
  <1>5. pc'[p] = "write" /\ pos'[p] = 1 /\ fd'[p] = tmp' /\ tmp' \in Inode /\ files'[tmp'] = <<>>
    BY <1>2 DEF TypeOK
  <1>6. SubSeq(Image, 1, 1 - 1) = <<>>
    BY ImageFacts
  <1> QED BY <1>1, <1>2, <1>3, <1>4, <1>5, <1>6 DEF LockInv, Complete, PublishedIsComplete, TypeOK

LEMMA CreateFailsLocked == ASSUME ExternalLock, IInv, LockInv, NEW p \in Process, CreateFails(p) PROVE LockInv'
  <1> USE DEF Busy, Saving, CreateFails, Goto, disk, local
  <1>1. \A q \in Process : q # p => pc[q] \in {"idle", "finished"}
    BY Alone DEF LockInv
  <1>2. TypeOK /\ ReaderInv /\ WriterInv
    BY DEF IInv
  <1>3. PublishedIsComplete' /\ (path' # None => path' # tmp')
    BY <1>1, <1>2, ImageFacts DEF LockInv, PublishedIsComplete, Complete, TypeOK
  <1>4. \A q \in Process : q # p => pc'[q] \in {"idle", "finished"}
    BY <1>1, <1>2 DEF TypeOK
  <1> QED BY <1>1, <1>2, <1>3, <1>4 DEF LockInv, Complete, PublishedIsComplete, TypeOK

LEMMA WriteLocked == ASSUME ExternalLock, IInv, LockInv, NEW p \in Process, Write(p) PROVE LockInv'
  <1> USE DEF Busy, Saving, Write, Goto, disk, local
  <1>1. \A q \in Process : q # p => pc[q] \in {"idle", "finished"}
    BY Alone DEF LockInv
  <1>2. TypeOK /\ ReaderInv /\ WriterInv
    BY DEF IInv
  <1>3. PublishedIsComplete' /\ (path' # None => path' # tmp')
    BY <1>1, <1>2, ImageFacts DEF LockInv, PublishedIsComplete, Complete, TypeOK
  <1>4. \A q \in Process : q # p => pc'[q] \in {"idle", "finished"}
    BY <1>1, <1>2 DEF TypeOK
  <1>5. pos[p] \in 1 .. Cells /\ fd[p] = tmp /\ tmp \in Inode
    BY <1>2 DEF LockInv, WriterInv
  <1>6. files'[tmp] = SubSeq(Image, 1, pos[p])
    BY <1>2, <1>5, WriteCellPrefix DEF LockInv, TypeOK
  <1>7. pos'[p] = pos[p] + 1 /\ (pos[p] + 1) - 1 = pos[p]
    BY <1>2, <1>5 DEF TypeOK
  <1> QED BY <1>1, <1>2, <1>3, <1>4, <1>5, <1>6, <1>7 DEF LockInv, Complete, PublishedIsComplete, TypeOK

LEMMA WriteFailsLocked == ASSUME ExternalLock, IInv, LockInv, NEW p \in Process, WriteFails(p) PROVE LockInv'
  <1> USE DEF Busy, Saving, WriteFails, Goto, disk, local, AfterFailure
  <1>1. \A q \in Process : q # p => pc[q] \in {"idle", "finished"}
    BY Alone DEF LockInv
  <1>2. TypeOK /\ ReaderInv /\ WriterInv
    BY DEF IInv
  <1>3. PublishedIsComplete' /\ (path' # None => path' # tmp')
    BY <1>1, <1>2, ImageFacts DEF LockInv, PublishedIsComplete, Complete, TypeOK
  <1>4. \A q \in Process : q # p => pc'[q] \in {"idle", "finished"}
    BY <1>1, <1>2 DEF TypeOK
  <1> QED BY <1>1, <1>2, <1>3, <1>4 DEF LockInv, Complete, PublishedIsComplete, TypeOK

LEMMA CloseLocked == ASSUME ExternalLock, IInv, LockInv, NEW p \in Process, Close(p) PROVE LockInv'
  <1> USE DEF Busy, Saving, Close, Goto, disk, local
  <1>1. \A q \in Process : q # p => pc[q] \in {"idle", "finished"}
    BY Alone DEF LockInv
  <1>2. TypeOK /\ ReaderInv /\ WriterInv
    BY DEF IInv
  <1>3. PublishedIsComplete' /\ (path' # None => path' # tmp')
    BY <1>1, <1>2, ImageFacts DEF LockInv, PublishedIsComplete, Complete, TypeOK
  <1>4. \A q \in Process : q # p => pc'[q] \in {"idle", "finished"}
    BY <1>1, <1>2 DEF TypeOK
  <1>5. fd[p] \in Inode /\ pos[p] = Cells + 1 /\ Cells \in Nat
    BY <1>2, CellsFacts DEF WriterInv
  <1>6. files[tmp] = SubSeq(Image, 1, (Cells + 1) - 1) /\ fd[p] = tmp
    BY <1>5 DEF LockInv
  <1>7. (Cells + 1) - 1 = Cells /\ SubSeq(Image, 1, Cells) = Image
    BY <1>5, ImageFacts
  <1>8. tmp # None /\ Complete(tmp)
    BY <1>5, <1>6, <1>7, ImageFacts DEF Complete
  <1> QED BY <1>1, <1>2, <1>3, <1>4, <1>8 DEF LockInv, Complete, PublishedIsComplete, TypeOK

LEMMA DiscardLocked == ASSUME ExternalLock, IInv, LockInv, NEW p \in Process, Discard(p) PROVE LockInv'
  <1> USE DEF Busy, Saving, Discard, Goto, disk, local
  <1>1. \A q \in Process : q # p => pc[q] \in {"idle", "finished"}
    BY Alone DEF LockInv
  <1>2. TypeOK /\ ReaderInv /\ WriterInv
    BY DEF IInv
  <1>3. PublishedIsComplete' /\ (path' # None => path' # tmp')
    BY <1>1, <1>2, ImageFacts DEF LockInv, PublishedIsComplete, Complete, TypeOK
  <1>4. \A q \in Process : q # p => pc'[q] \in {"idle", "finished"}
    BY <1>1, <1>2 DEF TypeOK
  <1> QED BY <1>1, <1>2, <1>3, <1>4 DEF LockInv, Complete, PublishedIsComplete, TypeOK

LEMMA RenameLocked == ASSUME ExternalLock, IInv, LockInv, NEW p \in Process, Rename(p) PROVE LockInv'
  <1> USE DEF Busy, Saving, Rename, Goto, disk, local, MoveTmp
  <1>1. \A q \in Process : q # p => pc[q] \in {"idle", "finished"}
    BY Alone DEF LockInv
  <1>2. TypeOK /\ ReaderInv /\ WriterInv
    BY DEF IInv
  <1>3. PublishedIsComplete' /\ (path' # None => path' # tmp')
    BY <1>1, <1>2, ImageFacts DEF LockInv, PublishedIsComplete, Complete, TypeOK
  <1>4. \A q \in Process : q # p => pc'[q] \in {"idle", "finished"}
    BY <1>1, <1>2 DEF TypeOK
  <1>5. CASE pc' = [pc EXCEPT ![p] = "finished"]
    <2>1. \A q \in Process : pc'[q] \in {"idle", "finished"}
      BY <1>2, <1>4, <1>5 DEF TypeOK
    <2> QED BY <2>1, <1>2, <1>3 DEF LockInv, PublishedIsComplete, Complete, TypeOK
  <1>6. CASE pc' = [pc EXCEPT ![p] = "unlink"] /\ UNCHANGED <<path, tmp>>
    <2>1. pc'[p] = "unlink" /\ pc[p] = "rename" /\ UNCHANGED <<files, policy, fd, pos, crashes>>
      BY <1>2, <1>6 DEF TypeOK
    <2> QED BY <2>1, <1>1, <1>3, <1>4, <1>6 DEF LockInv, PublishedIsComplete, Complete
  <1> QED BY <1>5, <1>6

LEMMA UnlinkLocked == ASSUME ExternalLock, IInv, LockInv, NEW p \in Process, Unlink(p) PROVE LockInv'
  <1> USE DEF Busy, Saving, Unlink, Goto, disk, local
  <1>1. \A q \in Process : q # p => pc[q] \in {"idle", "finished"}
    BY Alone DEF LockInv
  <1>2. TypeOK /\ ReaderInv /\ WriterInv
    BY DEF IInv
  <1>3. PublishedIsComplete' /\ (path' # None => path' # tmp')
    BY <1>1, <1>2, ImageFacts DEF LockInv, PublishedIsComplete, Complete, TypeOK
  <1>4. \A q \in Process : q # p => pc'[q] \in {"idle", "finished"}
    BY <1>1, <1>2 DEF TypeOK
  <1> QED BY <1>1, <1>2, <1>3, <1>4 DEF LockInv, Complete, PublishedIsComplete, TypeOK

LEMMA RenameAgainLocked == ASSUME ExternalLock, IInv, LockInv, NEW p \in Process, RenameAgain(p) PROVE LockInv'
  <1> USE DEF Busy, Saving, RenameAgain, Goto, disk, local, MoveTmp
  <1>1. \A q \in Process : q # p => pc[q] \in {"idle", "finished"}
    BY Alone DEF LockInv
  <1>2. TypeOK /\ ReaderInv /\ WriterInv
    BY DEF IInv
  <1>3. PublishedIsComplete' /\ (path' # None => path' # tmp')
    BY <1>1, <1>2, ImageFacts DEF LockInv, PublishedIsComplete, Complete, TypeOK
  <1>4. \A q \in Process : q # p => pc'[q] \in {"idle", "finished"}
    BY <1>1, <1>2 DEF TypeOK
  <1> QED BY <1>1, <1>2, <1>3, <1>4 DEF LockInv, Complete, PublishedIsComplete, TypeOK

LEMMA EndsLocked == ASSUME ExternalLock, IInv, LockInv, NEW p \in Process, Ends(p) PROVE LockInv'
  <1> USE DEF Busy, Saving, Ends, Forget, disk
  <1>1. \A q \in Process : q # p => pc'[q] = pc[q] /\ policy'[q] = policy[q] /\ fd'[q] = fd[q] /\ pos'[q] = pos[q]
    OBVIOUS
  <1>2. pc'[p] = "idle"
    OBVIOUS
  <1> QED BY <1>1, <1>2 DEF LockInv, PublishedIsComplete, Complete

LEMMA InitLocked == Init => LockInv
  BY DEF Init, LockInv, Busy, PublishedIsComplete

LEMMA StutterLocked == ASSUME LockInv, UNCHANGED vars PROVE LockInv'
  BY DEF LockInv, vars, disk, local, Busy, PublishedIsComplete, Complete

LEMMA MachineCrashLocked == ASSUME IInv, LockInv, MachineCrash PROVE LockInv'
  <1>1. crashes' # 0
    BY DEF MachineCrash, IInv, TypeOK
  <1>2. path' = path /\ tmp' = tmp /\ \A p \in Process : pc'[p] = "idle"
    BY DEF MachineCrash, Forget
  <1> QED BY <1>1, <1>2 DEF LockInv, PublishedIsComplete, Busy, Saving

LEMMA StepLocked == ASSUME ExternalLock, IInv, LockInv, [Next]_vars PROVE LockInv'
  <1>1. ASSUME NEW p \in Process, Load(p) PROVE LockInv'
    BY <1>1, CheckReadyLocked, OpenLocked, ReadHeaderLocked, ReadPayloadLocked, ReadFailsLocked,
       LoadedLocked DEF Load
  <1>2. ASSUME NEW p \in Process, Save(p) PROVE LockInv'
    BY <1>2, CreateLocked, CreateFailsLocked, WriteLocked, WriteFailsLocked, CloseLocked,
       DiscardLocked, RenameLocked, UnlinkLocked, RenameAgainLocked DEF Save
  <1>3. MachineCrash => LockInv'
    BY MachineCrashLocked
  <1> QED BY <1>1, <1>2, <1>3, BeginLocked, BuildLocked, EndsLocked, StutterLocked DEF Next, Step

LEMMA LockInductive == ASSUME ExternalLock PROVE Spec => [](IInv /\ LockInv)
  <1>1. LockInv /\ IInv /\ [Next]_vars => LockInv'
    BY StepLocked
  <1> QED BY <1>1, InitLocked, Inductive, PTL DEF Spec

\* With writers serialised by a lock, and until the machine crashes, the file under
\* the final name is complete at every moment, whenever writers are killed.
THEOREM PublishedWhole == ExternalLock => (Spec => []PublishedIsComplete)
  <1> SUFFICES ASSUME ExternalLock PROVE Spec => []PublishedIsComplete
    OBVIOUS
  <1>1. LockInv => PublishedIsComplete
    BY DEF LockInv
  <1> QED BY <1>1, LockInductive, PTL

\* Under the same discipline, and when reads do not fail by themselves, a
\* RequireWarm request never builds before a machine crash: the header check of cacheEntryReady and the later load see the same complete file.
THEOREM StrictWarmKept == ExternalLock /\ ~ReadErrors => (Spec => []StrictWarm)
  <1> SUFFICES ASSUME ExternalLock, ~ReadErrors PROVE Spec => []StrictWarm
    OBVIOUS
  <1>1. LockInv => StrictWarm
    BY DEF LockInv, StrictWarm, RequireWarmNeverBuilds
  <1> QED BY <1>1, LockInductive, PTL

\* With the lock, machine crashes or not, no step of saveToCache takes a whole file
\* away, neither a rename over it nor the remove that follows a rename that failed:
\* what is replaced is damaged, and its replacement is whole and in place.
THEOREM WholeIsKept == ExternalLock => (Spec => OnlyDamageIsReplaced)
  <1> SUFFICES ASSUME ExternalLock PROVE Spec => OnlyDamageIsReplaced
    OBVIOUS
  <1> DEFINE Damaged == ~Complete(path) \/ ReadErrors
             Replacement == tmp # None /\ Complete(tmp)
  <1>1. LockInv /\ [Next]_vars => [path # None /\ path' # path => Damaged /\ Replacement]_vars
    <2> SUFFICES ASSUME LockInv, Next, path # None, path' # path PROVE Damaged /\ Replacement
      BY DEF vars, disk
    <2> HIDE DEF Damaged, Replacement
    <2>1. ASSUME NEW p \in Process, pc[p] \in {"rename", "unlink", "rename2"}
          PROVE Damaged /\ Replacement
      BY <2>1 DEF LockInv, Saving, Damaged, Replacement
    <2> USE DEF disk, local
    <2>2. ASSUME NEW p \in Process, Load(p) PROVE FALSE
      BY <2>2 DEF Load, CheckReady, Open, ReadHeader, ReadPayload, ReadFails, Loaded
    <2>3. ASSUME NEW p \in Process, Save(p) PROVE pc[p] \in {"rename", "unlink", "rename2"}
      BY <2>3 DEF Save, Create, CreateFails, Write, WriteFails, Close, Discard, Rename, Unlink,
         RenameAgain
    <2>4. ~\E p \in Process : Begin(p) \/ Build(p) \/ Ends(p)
      BY DEF Begin, Build, Ends
    <2>5. ~MachineCrash
      BY DEF MachineCrash
    <2> QED BY <2>1, <2>2, <2>3, <2>4, <2>5 DEF Next, Step
  <1> QED BY <1>1, LockInductive, PTL DEF Spec, OnlyDamageIsReplaced

\* With the lock every file a rename publishes is complete, machine crashes or
\* not: a request that rejects a damaged file repairs the cache.
THEOREM RepairIsWhole == ExternalLock => (Spec => PublishesComplete)
  <1> SUFFICES ASSUME ExternalLock PROVE Spec => PublishesComplete
    OBVIOUS
  <1>1. LockInv /\ [Next]_vars => [path' # path /\ path' # None => Complete(path)']_vars
    <2> SUFFICES ASSUME LockInv, Next, path' # path, path' # None PROVE Complete(path)'
      BY DEF vars, disk
    <2> USE DEF disk, local
    <2>1. ASSUME NEW p \in Process, Load(p) PROVE FALSE
      BY <2>1 DEF Load, CheckReady, Open, ReadHeader, ReadPayload, ReadFails, Loaded
    <2>2. ASSUME NEW p \in Process, Save(p) PROVE Complete(path)'
      <3>1. Rename(p) \/ RenameAgain(p)
        BY <2>2 DEF Save, Create, CreateFails, Write, WriteFails, Close, Discard, Unlink
      <3>2. path' = tmp /\ UNCHANGED files /\ pc[p] \in {"rename", "rename2"}
        BY <3>1 DEF Rename, RenameAgain, MoveTmp
      <3> QED BY <3>2 DEF LockInv, Complete
    <2>3. ~\E p \in Process : Begin(p) \/ Build(p) \/ Ends(p)
      BY DEF Begin, Build, Ends
    <2>4. ~MachineCrash
      BY DEF MachineCrash
    <2> QED BY <2>1, <2>2, <2>3, <2>4 DEF Next, Step
  <1> QED BY <1>1, LockInductive, PTL DEF Spec, PublishesComplete

=============================================================================

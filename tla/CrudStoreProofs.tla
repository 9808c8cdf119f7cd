-------------------------- MODULE CrudStoreProofs --------------------------
(***************************************************************************)
(* Proofs about CrudStore, for any number of threads, entities, documents, *)
(* files and ids, on disks that fail and in processes that crash; and, for *)
(* one thread on a disk that does not fail, that the store is the atomic   *)
(* map of KeyValueStore.                                                   *)
(***************************************************************************)
EXTENDS CrudRefinement, SequenceTheorems, TLAPS

-----------------------------------------------------------------------------
(* The operators of the model.                                             *)

LEMMA SuffixType ==
    ASSUME NEW c \in Seq(Blocks), NEW n \in Nat \ {0}
    PROVE  SubSeq(c, n, Len(c)) \in Seq(Blocks)
  <1>1. Len(c) \in Nat /\ \A i \in 1 .. Len(c) : c[i] \in Blocks
    BY LenProperties, ElementOfSeq
  <1> QED BY <1>1, SubSeqProperties, n \in Int, Len(c) \in Int

LEMMA PrefixType ==
    ASSUME NEW b \in Seq(Blocks), NEW n \in 0 .. Len(b)
    PROVE  SubSeq(b, 1, n) \in Seq(Blocks)
  <1>1. Len(b) \in Nat /\ \A i \in 1 .. Len(b) : b[i] \in Blocks
    BY LenProperties, ElementOfSeq
  <1> QED BY <1>1, SubSeqProperties

\* What follows an empty prefix is all of it.
LEMMA WholeSuffix ==
    ASSUME NEW c \in Seq(Blocks)
    PROVE  <<>> \o SubSeq(c, Len(<<>>) + 1, Len(c)) = c
  <1>1. Len(<<>>) = 0 /\ Len(c) \in Nat
    BY EmptySeq, LenProperties
  <1>2. SubSeq(c, 1, Len(c)) = c
    BY SubSeqFull
  <1> QED BY <1>1, <1>2, ConcatEmptySeq

\* A write leaves a text, whatever was in the file.
LEMMA OverlayType ==
    ASSUME NEW c \in Seq(Blocks), NEW b \in Seq(Blocks)
    PROVE  Overlay(c, b) \in Seq(Blocks)
  <1>1. SubSeq(c, Len(b) + 1, Len(c)) \in Seq(Blocks)
    BY SuffixType, LenProperties
  <1> QED BY <1>1, ConcatProperties DEF Overlay

\* A write to an empty file leaves exactly what was written.
LEMMA OverlayOnEmpty ==
    ASSUME NEW b \in Seq(Blocks)
    PROVE  Overlay(<<>>, b) = b
  <1>1. Len(<<>>) = 0 /\ Len(b) \in Nat
    BY LenProperties, EmptySeq
  <1>2. SubSeq(<<>>, Len(b) + 1, Len(<<>>)) = <<>>
    BY <1>1, SubSeqEmpty, Len(b) + 1 \in Int
  <1> QED BY <1>2, ConcatEmptySeq DEF Overlay

\* The id a create takes is an int.
LEMMA NextIdsType ==
    ASSUME NEW s \in SUBSET Ids
    PROVE  NextIds(s) \subseteq Ids
  BY MaxIntAssumption DEF NextIds, Largest, Wrap, Ids, MinInt

\* It is new, unless it wrapped around to the smallest int.
LEMMA NextIdsAreFresh ==
    ASSUME NEW s \in SUBSET Ids, NEW k \in NextIds(s), k # MinInt
    PROVE  k \notin s
  BY MaxIntAssumption DEF NextIds, Largest, Wrap, Ids, MinInt

-----------------------------------------------------------------------------
(* Type correctness.                                                       *)

\* What the step of a thread says of its request and of the file it has open.
Shape(t) ==
    /\ pc[t] \in {"list", "lookup", "read", "ensure", "pick", "open", "write",
                  "remove"} => req[t].entity \in Entities
    /\ pc[t] \in {"list", "lookup", "read"} => IsGet(req[t])
    /\ pc[t] = "list" => req[t].id = 0
    /\ pc[t] \in {"ensure", "pick", "open", "write"}
           => req[t].body \in Bodies /\ (IsPost(req[t]) \/ IsPut(req[t]))
    /\ pc[t] = "pick" => IsPost(req[t])
    /\ pc[t] = "remove" => IsDelete(req[t])
    /\ pc[t] \in {"read", "write"} => ino[t] \in Inodes
    /\ ino[t] # NoInode => pc[t] \in {"read", "write", "threw"}

TypeInv == TypeOK /\ \A t \in Threads : Shape(t)

USE DEF Goto, Answer, Steps, Statuses, vars, threadVars, disk

LEMMA TypeInit == Init => TypeInv
  <1> SUFFICES ASSUME Init PROVE TypeInv
    OBVIOUS
  <1>1. NoRequest \in Requests /\ 0 \in Ids
    BY RequestIdsAssumption, MaxIntAssumption DEF NoRequest, Requests, Ids, MinInt
  <1>2. <<>> \in Seq(Blocks)
    BY EmptySeq
  <1> QED BY <1>1, <1>2 DEF Init, TypeInv, TypeOK, Shape

LEMMA TypeStep == TypeInv /\ [Next]_vars => TypeInv'
  <1> SUFFICES ASSUME TypeInv, [Next]_vars PROVE TypeInv'
    OBVIOUS
  <1> USE DEF TypeInv, TypeOK, Shape
  <1>0. CASE UNCHANGED vars
    BY <1>0 DEF IsGet, IsPost, IsPut, IsDelete
  <1>1. CASE Terminate
    <2>1. NoRequest \in Requests /\ 0 \in Ids
      BY RequestIdsAssumption, MaxIntAssumption
         DEF NoRequest, Requests, Ids, MinInt
    <2>2. <<>> \in Seq(Blocks)
      BY EmptySeq
    <2> QED BY <1>1, <2>1, <2>2 DEF Terminate, Reclaim
  <1>2. ASSUME NEW t \in Threads, NEW r \in Requests, Refuse(t, r)
        PROVE  TypeInv'
    BY <1>2 DEF Refuse, IsGet, IsPost, IsPut, IsDelete
  <1>3. ASSUME NEW t \in Threads, NEW r \in Requests, StoiThrows(t, r)
        PROVE  TypeInv'
    BY <1>3 DEF StoiThrows, IsGet, IsPost, IsPut, IsDelete
  <1>4. ASSUME NEW t \in Threads, NEW r \in Requests, Begin(t, r)
        PROVE  TypeInv'
    <2>0. r.id \in RequestIds /\ r.entity \in Entities \cup {BadPath}
      BY DEF Requests
    <2>1. r.id \in Ids /\ r.entity \in Entities
      <3>1. r.id \in 0 .. MaxInt + 1
        BY <2>0, RequestIdsAssumption
      <3>2. r.entity # BadPath /\ ~ (r.id > MaxInt)
        BY <1>4 DEF Begin, WellFormed, Malformed, StoiOverflows
      <3> QED BY <2>0, <3>1, <3>2, MaxIntAssumption DEF Ids, MinInt
    <2>2. /\ IsPost(r) \/ IsPut(r) => r.body \in Bodies
          /\ r.method \in Methods
      <3>1. r.method \in Methods /\ r.body \in Bodies \cup {NotJson}
        BY DEF Requests, Methods
      <3>2. r.id <= MaxInt
        BY <2>1, MaxIntAssumption DEF Ids, MinInt
      <3>3. IsPost(r) \/ IsPut(r) => r.body # NotJson
        BY <1>4, <3>2 DEF Begin, WellFormed, Malformed
      <3> QED BY <3>1, <3>3
    <2> QED BY <1>4, <2>1, <2>2 DEF Begin, FirstStep, Methods,
                                    IsGet, IsPost, IsPut, IsDelete
  <1>5. ASSUME NEW t \in Threads, Respond(t) PROVE TypeInv'
    <2>1. NoRequest \in Requests /\ 0 \in Ids
      BY RequestIdsAssumption, MaxIntAssumption
         DEF NoRequest, Requests, Ids, MinInt
    <2>2. <<>> \in Seq(Blocks)
      BY EmptySeq
    <2> QED BY <1>5, <2>1, <2>2 DEF Respond
  <1>6. ASSUME NEW t \in Threads, List(t) PROVE TypeInv'
    BY <1>6 DEF List, StoredIds
  <1>7. ASSUME NEW t \in Threads, Lookup(t) PROVE TypeInv'
    <2>1. Target(t) \in Inodes
      BY <1>7 DEF Lookup, Target
    <2> HIDE DEF Shape
    <2>2. TypeOK'
      BY <1>7, <2>1 DEF Lookup
    <2>3. ASSUME NEW u \in Threads PROVE Shape(u)'
      BY <1>7, <2>1, <2>3 DEF Lookup, Shape, IsGet, IsPost, IsPut, IsDelete
    <2> QED BY <2>2, <2>3
  <1>8. ASSUME NEW t \in Threads, LookupFails(t) PROVE TypeInv'
    BY <1>8 DEF LookupFails
  <1>9. ASSUME NEW t \in Threads, ReadMore(t) PROVE TypeInv'
    <2> DEFINE c == content[ino[t]]
    <2>1. c \in Seq(Blocks) /\ got[t] \in Seq(Blocks)
      BY <1>9 DEF ReadMore
    <2>2. got[t] \o SubSeq(c, Len(got[t]) + 1, Len(c)) \in Seq(Blocks)
      BY <2>1, SuffixType, ConcatProperties, LenProperties
    <2> QED BY <1>9, <2>2 DEF ReadMore, IsGet, IsPost, IsPut, IsDelete
  <1>10. ASSUME NEW t \in Threads, ReadEnd(t) PROVE TypeInv'
    <2>1. <<>> \in Seq(Blocks)
      BY EmptySeq
    <2> QED BY <1>10, <2>1 DEF ReadEnd, Reclaim
  <1>11. ASSUME NEW t \in Threads, EnsureDir(t) PROVE TypeInv'
    BY <1>11 DEF EnsureDir
  <1>12. ASSUME NEW t \in Threads, PickId(t) PROVE TypeInv'
    <2>1. StoredIds(req[t].entity) \in SUBSET Ids
      BY DEF StoredIds
    <2>2. PICK k \in NextIds(StoredIds(req[t].entity)) : id' = [id EXCEPT ![t] = k]
      BY <1>12 DEF PickId
    <2>3. k \in Ids
      BY <2>1, NextIdsType
    <2> QED BY <1>12, <2>2, <2>3 DEF PickId, IsGet, IsPost, IsPut, IsDelete
  <1>13. ASSUME NEW t \in Threads, Open(t) PROVE TypeInv'
    <2>1. <<>> \in Seq(Blocks)
      BY EmptySeq
    <2>2. PICK i \in Inodes :
             /\ link' = [link EXCEPT ![req[t].entity][id[t]] = i]
             /\ content' = [content EXCEPT ![i] = Truncate(@)]
             /\ owed' = [owed EXCEPT ![i] = Owe(t, i)]
             /\ ino' = [ino EXCEPT ![t] = i]
             /\ Disturb(t, i, req[t].entity, id[t])
      BY <1>13 DEF Open
    <2>3. disturbed' \in [Threads -> BOOLEAN]
      BY <2>2 DEF Disturb
    <2>4. link' \in [Entities -> [Ids -> Inodes \cup {NoInode}]]
      BY <2>2, <1>13 DEF Open
    <2>5. content' \in [Inodes -> Seq(Blocks)]
      BY <2>1, <2>2 DEF Truncate
    <2>6. owed' \in [Inodes -> Bodies \cup {Nothing}]
      <3>1. Owe(t, i) \in Bodies \cup {Nothing}
        BY <1>13 DEF Open, Owe
      <3> QED BY <2>2, <3>1
    <2>7. TypeOK'
      BY <1>13, <2>2, <2>3, <2>4, <2>5, <2>6 DEF Open
    <2>8. ASSUME NEW u \in Threads PROVE Shape(u)'
      BY <1>13, <2>2 DEF Open, IsGet, IsPost, IsPut, IsDelete
    <2> QED BY <2>7, <2>8
  <1>14. ASSUME NEW t \in Threads, OpenFails(t) PROVE TypeInv'
    BY <1>14 DEF OpenFails
  <1>15. ASSUME NEW t \in Threads, Write(t) \/ WriteFails(t) PROVE TypeInv'
    <2>1. PICK text \in Seq(Blocks), debt \in Bodies \cup {Nothing} :
             Flush(t, text, debt)
      <3>1. CASE Write(t)
        BY <3>1, BodiesAssumption DEF Write, Flush
      <3>2. CASE WriteFails(t)
        <4>1. req[t].body \in Seq(Blocks) /\ Len(req[t].body) \in Nat
          BY <3>2, BodiesAssumption, LenProperties DEF WriteFails
        <4>2. PICK n \in 0 .. Len(req[t].body) - 1 :
                 Flush(t, SubSeq(req[t].body, 1, n), Nothing)
          BY <3>2 DEF WriteFails
        <4>3. n \in 0 .. Len(req[t].body)
          BY <4>1
        <4>4. SubSeq(req[t].body, 1, n) \in Seq(Blocks)
          BY <4>1, <4>3, PrefixType
        <4> QED BY <4>2, <4>4
      <3> QED BY <1>15, <3>1, <3>2
    <2>2. <<>> \in Seq(Blocks)
      BY EmptySeq
    <2>3. Overlay(content[ino[t]], text) \in Seq(Blocks)
      BY <2>1, OverlayType DEF Flush
    <2> QED BY <2>1, <2>2, <2>3 DEF Flush, Reclaim, IsGet, IsPost, IsPut, IsDelete
  <1>16. ASSUME NEW t \in Threads, Remove(t) PROVE TypeInv'
    <2>1. <<>> \in Seq(Blocks)
      BY EmptySeq
    <2> HIDE DEF Shape
    <2>2. TypeOK'
      <3>1. /\ content' \in [Inodes -> Seq(Blocks)]
            /\ owed' \in [Inodes -> Bodies \cup {Nothing}]
        BY <1>16, <2>1 DEF Remove, Reclaim
      <3>2. link' \in [Entities -> [Ids -> Inodes \cup {NoInode}]]
        BY <1>16 DEF Remove
      <3>3. pc' \in [Threads -> Steps] /\ status' \in [Threads -> Statuses]
        BY <1>16 DEF Remove
      <3> QED BY <1>16, <3>1, <3>2, <3>3 DEF Remove
    <2>3. ASSUME NEW u \in Threads PROVE Shape(u)'
      BY <1>16, <2>3 DEF Remove, Shape, IsGet, IsPost, IsPut, IsDelete
    <2> QED BY <2>2, <2>3
  <1>17. ASSUME NEW t \in Threads, FilesystemThrows(t) PROVE TypeInv'
    BY <1>17 DEF FilesystemThrows
  <1> HIDE DEF TypeInv, TypeOK, Shape
  <1> QED
    BY <1>0, <1>1, <1>2, <1>3, <1>4, <1>5, <1>6, <1>7, <1>8, <1>9, <1>10,
       <1>11, <1>12, <1>13, <1>14, <1>15, <1>16, <1>17
       DEF Next, Handle, Step

\* Every state has the declared types: in particular an id never leaves the
\* range of an int, and a thread reads and writes only through an open file.
THEOREM TypeCorrect == Spec => []TypeOK
  <1>1. TypeInv => TypeOK
    BY DEF TypeInv
  <1> QED BY <1>1, TypeInit, TypeStep, PTL DEF Spec
-----------------------------------------------------------------------------
(* Creates.                                                                *)

\* The steps that neither start a request nor pick an id, make a file or
\* unlink one: they leave the other threads' creates and the files alone, and
\* none of them brings a create to the opening of its file.
LEMMA Elsewhere ==
    ASSUME NEW t \in Threads, pc \in [Threads -> Steps],
           req \in [Threads -> Requests], id \in [Threads -> Ids],
           disturbed \in [Threads -> BOOLEAN],
           List(t) \/ Lookup(t) \/ LookupFails(t) \/ ReadMore(t)
             \/ ReadEnd(t) \/ EnsureDir(t) \/ OpenFails(t) \/ Respond(t)
             \/ FilesystemThrows(t) \/ Write(t) \/ WriteFails(t)
    PROVE  /\ link' = link
           /\ pc'[t] = "open" => ~ IsPost(req'[t])
           /\ \A v \in Threads \ {t} :
                 /\ pc'[v] = pc[v] /\ req'[v] = req[v] /\ id'[v] = id[v]
                 /\ disturbed'[v] = disturbed[v] \/ disturbed'[v]
  <1> DEFINE goal == /\ link' = link
                     /\ pc'[t] = "open" => ~ IsPost(req'[t])
                     /\ \A v \in Threads \ {t} :
                           /\ pc'[v] = pc[v] /\ req'[v] = req[v] /\ id'[v] = id[v]
                           /\ disturbed'[v] = disturbed[v] \/ disturbed'[v]
  <1>1. CASE List(t) \/ LookupFails(t) \/ OpenFails(t)
    BY <1>1 DEF List, LookupFails, OpenFails
  <1>2. CASE Lookup(t)
    BY <1>2 DEF Lookup
  <1>3. CASE ReadMore(t)
    <2>1. pc' = pc /\ pc[t] = "read" /\ req' = req /\ id' = id
          /\ disturbed' = disturbed /\ link' = link
      BY <1>3 DEF ReadMore
    <2> QED BY <2>1
  <1>4. CASE ReadEnd(t)
    BY <1>4 DEF ReadEnd
  <1>5. CASE EnsureDir(t)
    BY <1>5 DEF EnsureDir
  <1>6. CASE Respond(t)
    BY <1>6 DEF Respond
  <1>7. CASE FilesystemThrows(t)
    BY <1>7 DEF FilesystemThrows
  <1>8. CASE Write(t) \/ WriteFails(t)
    <2>1. PICK text, debt : Flush(t, text, debt)
      BY <1>8 DEF Write, WriteFails
    <2>2. pc' = [pc EXCEPT ![t] = "done"] /\ req' = req /\ id' = id
          /\ disturbed' = disturbed /\ link' = link
      BY <2>1 DEF Flush
    <2> QED BY <2>2
  <1> QED BY <1>1, <1>2, <1>3, <1>4, <1>5, <1>6, <1>7, <1>8

LEMMA StompsStep ==
    ASSUME TypeInv, CreateStompsOnlyInARace, [Next]_vars
    PROVE  CreateStompsOnlyInARace'
  <1> USE DEF TypeInv, TypeOK, CreateStompsOnlyInARace, Target
  <1> SUFFICES ASSUME NEW v \in Threads,
                      pc'[v] = "open", IsPost(req'[v]),
                      link'[req'[v].entity][id'[v]] # NoInode
               PROVE  disturbed'[v] \/ id'[v] = MinInt
    BY DEF IsPost
  <1>0. CASE UNCHANGED vars
    BY <1>0 DEF IsPost
  <1>1. CASE Terminate
    BY <1>1 DEF Terminate
  <1>2. ASSUME NEW t \in Threads, NEW r \in Requests,
               Refuse(t, r) \/ StoiThrows(t, r) \/ Begin(t, r)
        PROVE  disturbed'[v] \/ id'[v] = MinInt
    <2>1. CASE v # t
      BY <1>2, <2>1 DEF Refuse, StoiThrows, Begin, IsPost
    <2>2. CASE v = t
      <3>1. r.method \in Methods
        BY DEF Requests, Methods
      <3>2. req'[t] = r /\ pc'[t] # "open"
        BY <1>2, <3>1 DEF Refuse, StoiThrows, Begin, FirstStep, Methods,
                          IsGet, IsPost, IsPut, IsDelete
      <3> QED BY <2>2, <3>2
    <2> QED BY <2>1, <2>2
  <1>3. ASSUME NEW t \in Threads,
               List(t) \/ Lookup(t) \/ LookupFails(t) \/ ReadMore(t)
                 \/ ReadEnd(t) \/ EnsureDir(t) \/ OpenFails(t) \/ Respond(t)
                 \/ FilesystemThrows(t) \/ Write(t) \/ WriteFails(t)
        PROVE  disturbed'[v] \/ id'[v] = MinInt
    <2>1. /\ link' = link
          /\ pc'[t] = "open" => ~ IsPost(req'[t])
          /\ v # t => /\ pc'[v] = pc[v] /\ req'[v] = req[v] /\ id'[v] = id[v]
                      /\ disturbed'[v] = disturbed[v] \/ disturbed'[v]
      BY <1>3, Elsewhere
    <2>2. v # t
      BY <2>1
    <2> QED BY <2>1, <2>2 DEF IsPost
  <1>5. ASSUME NEW t \in Threads, PickId(t)
        PROVE  disturbed'[v] \/ id'[v] = MinInt
    <2>1. CASE v # t
      BY <1>5, <2>1 DEF PickId, IsPost
    <2>2. CASE v = t
      <3>1. PICK k \in NextIds(StoredIds(req[t].entity)) :
               id' = [id EXCEPT ![t] = k]
        BY <1>5 DEF PickId
      <3>2. StoredIds(req[t].entity) \in SUBSET Ids
        BY DEF StoredIds
      <3>3. k \in Ids
        BY <3>2, NextIdsType
      <3>4. link[req[t].entity][k] # NoInode
        BY <1>5, <2>2, <3>1 DEF PickId
      <3>5. k \in StoredIds(req[t].entity)
        BY <3>3, <3>4 DEF StoredIds
      <3>6. k = MinInt
        BY <3>2, <3>5, NextIdsAreFresh
      <3> QED BY <2>2, <3>1, <3>6
    <2> QED BY <2>1, <2>2
  <1>6. ASSUME NEW t \in Threads, Open(t)
        PROVE  disturbed'[v] \/ id'[v] = MinInt
    <2>1. PICK i \in Inodes :
             /\ link' = [link EXCEPT ![req[t].entity][id[t]] = i]
             /\ Disturb(t, i, req[t].entity, id[t])
      BY <1>6 DEF Open
    <2>2. v # t /\ pc[v] = "open" /\ req'[v] = req[v] /\ id'[v] = id[v]
      BY <1>6 DEF Open
    <2>3. CASE req[v].entity = req[t].entity /\ id[v] = id[t]
      BY <2>1, <2>2, <2>3 DEF Disturb, IsPost
    <2>4. CASE ~ (req[v].entity = req[t].entity /\ id[v] = id[t])
      <3>1. req[v].entity \in Entities /\ req[t].entity \in Entities
        BY <1>6, <2>2 DEF Shape, Open
      <3>2. link'[req[v].entity][id[v]] = link[req[v].entity][id[v]]
        BY <2>1, <2>4, <3>1
      <3>3. disturbed[v] \/ id[v] = MinInt
        BY <2>2, <3>2 DEF IsPost
      <3> QED BY <2>1, <2>2, <3>3 DEF Disturb
    <2> QED BY <2>3, <2>4
  <1>7. ASSUME NEW t \in Threads, Remove(t)
        PROVE  disturbed'[v] \/ id'[v] = MinInt
    <2>1. v # t /\ pc[v] = "open" /\ req'[v] = req[v] /\ id'[v] = id[v]
      BY <1>7 DEF Remove
    <2>2. req[v].entity \in Entities /\ req[t].entity \in Entities
      BY <1>7, <2>1 DEF Shape, Remove
    <2>3. link[req[v].entity][id[v]] # NoInode
      BY <1>7, <2>1, <2>2 DEF Remove
    <2> QED BY <1>7, <2>1, <2>3 DEF Remove, IsPost
  <1> QED
    BY <1>0, <1>1, <1>2, <1>3, <1>5, <1>6, <1>7 DEF Next, Handle, Step

\* A create opens a file that exists only after another request got there
\* first, or after the largest int.
THEOREM CreateStompsTheorem == Spec => []CreateStompsOnlyInARace
  <1>1. Init => CreateStompsOnlyInARace
    BY DEF Init, CreateStompsOnlyInARace
  <1>2. TypeInv /\ CreateStompsOnlyInARace /\ [Next]_vars
            => CreateStompsOnlyInARace'
    BY StompsStep
  <1> QED BY <1>1, <1>2, TypeInit, TypeStep, PTL DEF Spec

-----------------------------------------------------------------------------
(* Documents.                                                              *)

Writes(t, i) == pc[t] = "write" /\ ino[t] = i

WritesNext(t, i) == pc'[t] = "write" /\ ino'[t] = i

\* An inode that owes a document holds it, or holds nothing yet and has one
\* writer, which brings that document.
Doc(i) ==
    owed[i] # Nothing =>
        /\ \A t, u \in Threads : Writes(t, i) /\ Writes(u, i) => t = u
        /\ \A t \in Threads :
              Writes(t, i) => content[i] = <<>> /\ owed[i] = req[t].body
        /\ (\A t \in Threads : ~ Writes(t, i)) => content[i] = owed[i]

DocInv == \A i \in Inodes : Doc(i)

\* A step that moves no writer of i, and changes i at most by giving it up.
LEMMA DocKept ==
    ASSUME NEW i \in Inodes, Doc(i),
           \A u \in Threads : pc'[u] = "write" /\ ino'[u] = i
                                 <=> pc[u] = "write" /\ ino[u] = i,
           \A u \in Threads : Writes(u, i) => req'[u] = req[u],
           \/ owed'[i] = Nothing
           \/ owed'[i] = owed[i] /\ content'[i] = content[i]
    PROVE  Doc(i)'
  BY DEF Doc, Writes

LEMMA DocStep ==
    ASSUME TypeInv, DocInv, [Next]_vars
    PROVE  DocInv'
  <1> USE DEF TypeInv, TypeOK
  <1> SUFFICES ASSUME NEW i \in Inodes PROVE Doc(i)'
    BY DEF DocInv
  <1>d. Doc(i)
    BY DEF DocInv
  <1>0. CASE UNCHANGED vars
    BY <1>0, <1>d DEF Doc, Writes
  <1>1. CASE Terminate
    <2>1. \A t \in Threads : ~ (pc'[t] = "write")
      BY <1>1 DEF Terminate
    <2>2. CASE Writers(i) # {}
      BY <1>1, <2>2 DEF Terminate, Reclaim, Doc
    <2>3. CASE Writers(i) = {}
      <3>1. \A t \in Threads : ~ Writes(t, i)
        BY <2>3 DEF Writes, Writers
      <3>2. \/ owed'[i] = Nothing
            \/ owed'[i] = owed[i] /\ content'[i] = content[i]
        BY <1>1, <2>3 DEF Terminate, Reclaim
      <3> QED BY <1>d, <2>1, <3>1, <3>2 DEF Doc, Writes
    <2> QED BY <2>2, <2>3
  <1>2. ASSUME NEW t \in Threads, NEW r \in Requests,
               Refuse(t, r) \/ StoiThrows(t, r) \/ Begin(t, r)
        PROVE  Doc(i)'
    <2>1. r.method \in Methods
      BY DEF Requests, Methods
    <2>2. pc[t] # "write" /\ pc'[t] # "write"
      BY <1>2, <2>1 DEF Refuse, StoiThrows, Begin, FirstStep, Methods,
                        IsGet, IsPost, IsPut, IsDelete
    <2>3. \A u \in Threads : pc'[u] = "write" /\ ino'[u] = i
                                   <=> pc[u] = "write" /\ ino[u] = i
      BY <1>2, <2>2 DEF Refuse, StoiThrows, Begin
    <2>4. \A u \in Threads : Writes(u, i) => req'[u] = req[u]
      BY <1>2, <2>2 DEF Refuse, StoiThrows, Begin, Writes
    <2>5. owed'[i] = owed[i] /\ content'[i] = content[i]
      BY <1>2 DEF Refuse, StoiThrows, Begin
    <2> QED BY <1>d, <2>3, <2>4, <2>5, DocKept
  <1>3. ASSUME NEW t \in Threads,
               List(t) \/ Lookup(t) \/ LookupFails(t) \/ ReadMore(t)
        PROVE  Doc(i)'
    <2>1. \A u \in Threads : pc'[u] = "write" /\ ino'[u] = i
                                   <=> pc[u] = "write" /\ ino[u] = i
      BY <1>3 DEF List, Lookup, LookupFails, ReadMore
    <2>2. \A u \in Threads : Writes(u, i) => req'[u] = req[u]
      BY <1>3 DEF List, Lookup, LookupFails, ReadMore, Writes
    <2>3. \/ owed'[i] = Nothing
          \/ owed'[i] = owed[i] /\ content'[i] = content[i]
      BY <1>3 DEF List, Lookup, LookupFails, ReadMore
    <2> QED BY <1>d, <2>1, <2>2, <2>3, DocKept
  <1>4. ASSUME NEW t \in Threads,
               EnsureDir(t) \/ PickId(t) \/ OpenFails(t)
                 \/ FilesystemThrows(t) \/ Respond(t)
        PROVE  Doc(i)'
    <2>1. \A u \in Threads : pc'[u] = "write" /\ ino'[u] = i
                                   <=> pc[u] = "write" /\ ino[u] = i
      BY <1>4 DEF EnsureDir, PickId, OpenFails, FilesystemThrows,
                      Respond
    <2>2. \A u \in Threads : Writes(u, i) => req'[u] = req[u]
      BY <1>4 DEF EnsureDir, PickId, OpenFails, FilesystemThrows,
                      Respond, Writes
    <2>3. \/ owed'[i] = Nothing
          \/ owed'[i] = owed[i] /\ content'[i] = content[i]
      BY <1>4 DEF EnsureDir, PickId, OpenFails, FilesystemThrows,
                      Respond
    <2> QED BY <1>d, <2>1, <2>2, <2>3, DocKept
  <1>5. ASSUME NEW t \in Threads, ReadEnd(t) \/ Remove(t)
        PROVE  Doc(i)'
    <2>1. \A u \in Threads : pc'[u] = "write" /\ ino'[u] = i
                                   <=> pc[u] = "write" /\ ino[u] = i
      BY <1>5 DEF ReadEnd, Remove
    <2>2. \A u \in Threads : Writes(u, i) => req'[u] = req[u]
      BY <1>5 DEF ReadEnd, Remove, Writes
    <2>3. \/ owed'[i] = Nothing
          \/ owed'[i] = owed[i] /\ content'[i] = content[i]
      BY <1>5 DEF ReadEnd, Remove, Reclaim
    <2> QED BY <1>d, <2>1, <2>2, <2>3, DocKept
  <1>6. ASSUME NEW t \in Threads, Open(t)
        PROVE  Doc(i)'
    <2>1. PICK j \in Inodes :
             /\ content' = [content EXCEPT ![j] = Truncate(@)]
             /\ owed' = [owed EXCEPT ![j] = Owe(t, j)]
             /\ ino' = [ino EXCEPT ![t] = j]
      BY <1>6 DEF Open
    <2>2. CASE i # j
      <3>1. \A u \in Threads : pc'[u] = "write" /\ ino'[u] = i
                                     <=> pc[u] = "write" /\ ino[u] = i
        BY <1>6, <2>1, <2>2 DEF Open
      <3>2. \A u \in Threads : Writes(u, i) => req'[u] = req[u]
        BY <1>6 DEF Open
      <3>3. owed'[i] = owed[i] /\ content'[i] = content[i]
        BY <2>1, <2>2
      <3> QED BY <1>d, <3>1, <3>2, <3>3, DocKept
    <2>3. CASE i = j /\ Writers(i) = {}
      <3>1. owed'[i] = req[t].body /\ content'[i] = <<>>
        BY <2>1, <2>3 DEF Owe, Truncate
      <3>2. \A u \in Threads : Writes(u, i)' => u = t
        BY <1>6, <2>1, <2>3 DEF Open, Writes, Writers
      <3>3. Writes(t, i)' /\ req'[t] = req[t]
        BY <1>6, <2>1, <2>3 DEF Open, Writes
      <3> QED BY <3>1, <3>2, <3>3 DEF Doc
    <2>4. CASE i = j /\ Writers(i) # {}
      BY <1>6, <2>1, <2>4 DEF Open, Owe, Doc
    <2> QED BY <2>2, <2>3, <2>4
  <1>7. ASSUME NEW t \in Threads, Write(t) \/ WriteFails(t)
        PROVE  Doc(i)'
    <2>1. CASE i # ino[t]
      <3>1. \A u \in Threads : pc'[u] = "write" /\ ino'[u] = i
                                     <=> pc[u] = "write" /\ ino[u] = i
        <4>1. /\ pc' = [pc EXCEPT ![t] = "done"]
              /\ ino' = [ino EXCEPT ![t] = NoInode]
          BY <1>7 DEF Write, WriteFails, Flush
        <4> QED BY <2>1, <4>1
      <3>2. \A u \in Threads : Writes(u, i) => req'[u] = req[u]
        BY <1>7 DEF Write, WriteFails, Flush
      <3>3. \/ owed'[i] = Nothing
            \/ owed'[i] = owed[i] /\ content'[i] = content[i]
        BY <1>7, <2>1 DEF Write, WriteFails, Flush, Reclaim
      <3> QED BY <1>d, <3>1, <3>2, <3>3, DocKept
    <2>2. CASE i = ino[t] /\ WriteFails(t)
      BY <2>2 DEF WriteFails, Flush, Reclaim, Doc
    <2>3. CASE i = ino[t] /\ Write(t)
      <3>1. SUFFICES ASSUME owed'[i] # Nothing PROVE Doc(i)'
        BY DEF Doc
      <3>2. /\ owed'[i] = owed[i]
            /\ content'[i] = Overlay(content[i], req[t].body)
        BY <2>3, <3>1 DEF Write, Flush, Reclaim
      <3>3. content[i] = <<>> /\ owed[i] = req[t].body
        BY <1>d, <2>3, <3>1, <3>2 DEF Doc, Writes, Write, Flush
      <3>4. req[t].body \in Seq(Blocks)
        BY <2>3, BodiesAssumption DEF Shape, Write, Flush
      <3>5. content'[i] = owed'[i]
        BY <3>2, <3>3, <3>4, OverlayOnEmpty
      <3>6. \A u \in Threads : ~ (pc'[u] = "write" /\ ino'[u] = i)
        BY <1>d, <2>3, <3>1, <3>2 DEF Doc, Writes, Write, Flush
      <3> QED BY <3>5, <3>6 DEF Doc, Writes
    <2> QED BY <1>7, <2>1, <2>2, <2>3
  <1> QED
    BY <1>0, <1>1, <1>2, <1>3, <1>4, <1>5, <1>6, <1>7 DEF Next, Handle, Step

\* A stored file that nobody is writing holds the document of the request that
\* opened it last, whole, unless two requests wrote it at once, the disk failed
\* or the process died meanwhile.
THEOREM WholeDocumentTheorem == Spec => []WholeDocument
  <1>1. Init => DocInv
    BY DEF Init, DocInv, Doc
  <1>2. TypeInv /\ DocInv /\ [Next]_vars => DocInv'
    BY DocStep
  <1>3. TypeInv /\ DocInv => WholeDocument
    BY DEF TypeInv, TypeOK, DocInv, Doc, Writes, WholeDocument, Writers
  <1> QED BY <1>1, <1>2, <1>3, TypeInit, TypeStep, PTL DEF Spec

-----------------------------------------------------------------------------
(* Answers.                                                                *)

\* An undisturbed reader has a whole document before it, of which it has read
\* nothing yet, or everything.
Reader(t) ==
    pc[t] = "read" /\ ~ disturbed[t] =>
        /\ owed[ino[t]] # Nothing
        /\ \A u \in Threads : ~ Writes(u, ino[t])
        /\ got[t] \in {<<>>, content[ino[t]]}

Answered(t) ==
    pc[t] = "done" /\ IsGet(req[t]) /\ req[t].id # 0 /\ status[t] = 200
        => disturbed[t] \/ got[t] \in Bodies

Unread(t) == pc[t] \in {"idle", "lookup"} => got[t] = <<>>

AnswerInv == \A t \in Threads : Reader(t) /\ Answered(t) /\ Unread(t)

Untouched(v) ==
    /\ pc'[v] = pc[v] /\ req'[v] = req[v] /\ ino'[v] = ino[v]
    /\ got'[v] = got[v] /\ status'[v] = status[v]
    /\ disturbed[v] => disturbed'[v]

FileUntouched(v) ==
    pc[v] = "read" /\ ~ disturbed'[v]
        => /\ owed'[ino[v]] = owed[ino[v]]
           /\ content'[ino[v]] = content[ino[v]]
           /\ \A u \in Threads : WritesNext(u, ino[v]) => Writes(u, ino[v])

\* Another thread's step that leaves thread v, and what v has open, alone.
LEMMA AnswerKept ==
    ASSUME NEW v \in Threads, AnswerInv, Untouched(v), FileUntouched(v)
    PROVE  (Reader(v) /\ Answered(v) /\ Unread(v))'
  <1>0. Reader(v) /\ Answered(v) /\ Unread(v)
    BY DEF AnswerInv
  <1>1. Reader(v)'
    BY <1>0 DEF Reader, Writes, WritesNext, Untouched, FileUntouched
  <1>2. Answered(v)'
    BY <1>0 DEF Answered, IsGet, Untouched
  <1>3. Unread(v)'
    BY <1>0 DEF Unread, Untouched
  <1> QED BY <1>1, <1>2, <1>3

LEMMA AnswerStep ==
    ASSUME TypeInv, DocInv, AnswerInv, [Next]_vars
    PROVE  AnswerInv'
  <1> USE DEF TypeInv, TypeOK
  <1> SUFFICES ASSUME NEW v \in Threads
               PROVE  (Reader(v) /\ Answered(v) /\ Unread(v))'
    BY DEF AnswerInv
  <1>i. Reader(v) /\ Answered(v) /\ Unread(v)
    BY DEF AnswerInv
  <1>0. CASE UNCHANGED vars
    BY <1>0, <1>i DEF Reader, Answered, Unread, Writes, WritesNext, IsGet
  <1>1. CASE Terminate
    BY <1>1 DEF Terminate, Reader, Answered, Unread
  <1>2. ASSUME NEW t \in Threads, NEW r \in Requests,
               Refuse(t, r) \/ StoiThrows(t, r) \/ Begin(t, r)
        PROVE  (Reader(v) /\ Answered(v) /\ Unread(v))'
    <2>1. r.method \in Methods
      BY DEF Requests, Methods
    <2>2. pc'[t] \notin {"read", "write"} /\ pc[t] = "idle"
      BY <1>2, <2>1 DEF Refuse, StoiThrows, Begin, FirstStep, Methods,
                        IsGet, IsPost, IsPut, IsDelete
    <2>3. /\ ino' = ino /\ got' = got /\ disturbed' = disturbed
          /\ owed' = owed /\ content' = content
          /\ req' = [req EXCEPT ![t] = r]
      BY <1>2 DEF Refuse, StoiThrows, Begin
    <2>4. CASE v # t
      <3>1. pc'[v] = pc[v] /\ status'[v] = status[v]
        BY <1>2, <2>4 DEF Refuse, StoiThrows, Begin
      <3>2. \A u \in Threads : WritesNext(u, ino[v]) => Writes(u, ino[v])
        BY <1>2, <2>2, <2>3 DEF Refuse, StoiThrows, Begin, Writes, WritesNext
      <3>3. Untouched(v) /\ FileUntouched(v)
        BY <2>3, <2>4, <3>1, <3>2 DEF Untouched, FileUntouched
      <3> QED BY <3>3, AnswerKept
    <2>5. CASE v = t
      <3>1. Answered(t)'
        BY <1>2, <2>1, <2>2 DEF Refuse, StoiThrows, Begin, FirstStep, Methods,
                          IsGet, IsPost, IsPut, IsDelete, Answered
      <3> QED BY <1>i, <2>2, <2>3, <2>5, <3>1 DEF Reader, Unread
    <2> QED BY <2>4, <2>5
  <1>3. ASSUME NEW t \in Threads, v = t,
               List(t) \/ LookupFails(t) \/ EnsureDir(t) \/ PickId(t)
                 \/ OpenFails(t) \/ FilesystemThrows(t) \/ Respond(t)
        PROVE  (Reader(v) /\ Answered(v) /\ Unread(v))'
    <2>1. CASE List(t) \/ LookupFails(t) \/ OpenFails(t)
      BY <1>3, <2>1 DEF List, LookupFails, OpenFails, Shape,
                        Reader, Answered, Unread
    <2>2. CASE EnsureDir(t) \/ PickId(t)
      BY <1>3, <2>2 DEF EnsureDir, PickId, Reader, Answered, Unread
    <2>3. CASE FilesystemThrows(t) \/ Respond(t)
      BY <1>3, <2>3 DEF FilesystemThrows, Respond, Reader, Answered, Unread
    <2> QED BY <1>3, <2>1, <2>2, <2>3
  <1>4. ASSUME NEW t \in Threads, v # t,
               List(t) \/ LookupFails(t) \/ EnsureDir(t) \/ PickId(t)
                 \/ OpenFails(t) \/ FilesystemThrows(t) \/ Respond(t)
        PROVE  (Reader(v) /\ Answered(v) /\ Unread(v))'
    <2>1. CASE List(t) \/ LookupFails(t) \/ OpenFails(t)
      <3>1. Untouched(v)
        BY <1>4, <2>1 DEF List, LookupFails, OpenFails, Untouched
      <3>2. FileUntouched(v)
        BY <1>4, <2>1 DEF List, LookupFails, OpenFails,
                          FileUntouched, Writes, WritesNext
      <3> QED BY <3>1, <3>2, AnswerKept
    <2>2. CASE EnsureDir(t) \/ PickId(t)
      <3>1. Untouched(v)
        BY <1>4, <2>2 DEF EnsureDir, PickId, Untouched
      <3>2. FileUntouched(v)
        BY <1>4, <2>2 DEF EnsureDir, PickId,
                          FileUntouched, Writes, WritesNext
      <3> QED BY <3>1, <3>2, AnswerKept
    <2>3. CASE FilesystemThrows(t) \/ Respond(t)
      <3>1. Untouched(v)
        BY <1>4, <2>3 DEF FilesystemThrows, Respond, Untouched
      <3>2. FileUntouched(v)
        BY <1>4, <2>3 DEF FilesystemThrows, Respond,
                          FileUntouched, Writes, WritesNext
      <3> QED BY <3>1, <3>2, AnswerKept
    <2> QED BY <1>4, <2>1, <2>2, <2>3
  <1>5. ASSUME NEW t \in Threads, Lookup(t)
        PROVE  (Reader(v) /\ Answered(v) /\ Unread(v))'
    <2>1. CASE v # t
      <3>1. \A u \in Threads : WritesNext(u, ino[v]) => Writes(u, ino[v])
        BY <1>5 DEF Lookup, Writes, WritesNext
      <3>2. Untouched(v)
        BY <1>5, <2>1 DEF Lookup, Untouched
      <3>3. FileUntouched(v)
        BY <1>5, <3>1 DEF Lookup, FileUntouched
      <3> QED BY <3>2, <3>3, AnswerKept
    <2>2. CASE v = t
      <3>1. pc'[t] = "read" /\ got'[t] = <<>> /\ ino'[t] = Target(t)
        BY <1>5, <1>i, <2>2 DEF Lookup, Unread
      <3>2. ~ disturbed'[t] =>
               /\ Writers(Target(t)) = {}
               /\ owed'[Target(t)] # Nothing
        BY <1>5 DEF Lookup
      <3>3. \A u \in Threads : WritesNext(u, Target(t)) => u \in Writers(Target(t))
        BY <1>5 DEF Lookup, WritesNext, Writers
      <3> QED BY <2>2, <3>1, <3>2, <3>3
              DEF Reader, Answered, Unread, Writes, WritesNext, Writers
    <2> QED BY <2>1, <2>2
  <1>6. ASSUME NEW t \in Threads, ReadMore(t)
        PROVE  (Reader(v) /\ Answered(v) /\ Unread(v))'
    <2>1. CASE v # t
      <3>1. \A u \in Threads : WritesNext(u, ino[v]) => Writes(u, ino[v])
        BY <1>6 DEF ReadMore, Writes, WritesNext
      <3>2. Untouched(v)
        BY <1>6, <2>1 DEF ReadMore, Untouched
      <3>3. FileUntouched(v)
        BY <1>6, <3>1 DEF ReadMore, FileUntouched
      <3> QED BY <3>2, <3>3, AnswerKept
    <2>2. CASE v = t
      <3>1. content[ino[t]] \in Seq(Blocks) /\ got[t] \in Seq(Blocks)
        BY <1>6 DEF ReadMore, Shape
      <3>2. CASE disturbed[t]
        BY <1>6, <2>2, <3>2 DEF ReadMore, Reader, Answered, Unread
      <3>3. CASE ~ disturbed[t]
        <4>1. got[t] = <<>>
          BY <1>6, <1>i, <2>2, <3>1, <3>3, LenProperties DEF ReadMore, Reader
        <4>2. got'[t] = content[ino[t]]
          BY <1>6, <3>1, <4>1, WholeSuffix DEF ReadMore
        <4>3. \A u \in Threads : WritesNext(u, ino[t]) => Writes(u, ino[t])
          BY <1>6 DEF ReadMore, Writes, WritesNext
        <4> QED BY <1>6, <1>i, <2>2, <3>3, <4>2, <4>3
                DEF ReadMore, Reader, Writes, WritesNext, Answered, Unread
      <3> QED BY <3>2, <3>3
    <2> QED BY <2>1, <2>2
  <1>7. ASSUME NEW t \in Threads, ReadEnd(t)
        PROVE  (Reader(v) /\ Answered(v) /\ Unread(v))'
    <2>1. CASE v # t
      <3>1. \A u \in Threads : WritesNext(u, ino[v]) => Writes(u, ino[v])
        BY <1>7 DEF ReadEnd, Writes, WritesNext
      <3>2. pc[v] = "read" => ino'[v] = ino[v] /\ ino[v] \in Inodes
        BY <1>7, <2>1 DEF ReadEnd, Shape
      <3>3. pc[v] = "read" => /\ owed'[ino[v]] = owed[ino[v]]
                              /\ content'[ino[v]] = content[ino[v]]
        BY <1>7, <3>2 DEF ReadEnd, Reclaim, Free
      <3>4. FileUntouched(v)
        BY <3>1, <3>3 DEF FileUntouched
      <3>5. Untouched(v)
        BY <1>7, <2>1 DEF ReadEnd, Untouched
      <3> QED BY <3>4, <3>5, AnswerKept
    <2>2. CASE v = t
      <3> DEFINE c == content[ino[t]]
      <3>1. /\ pc[t] = "read" /\ pc'[t] = "done"
            /\ disturbed'[t] = disturbed[t] /\ got'[t] = got[t]
            /\ Len(c) <= Len(got[t])
        BY <1>7 DEF ReadEnd
      <3>2. ASSUME ~ disturbed[t] PROVE got[t] \in Bodies
        <4>1. /\ owed[ino[t]] # Nothing /\ ino[t] \in Inodes
              /\ \A u \in Threads : ~ Writes(u, ino[t])
              /\ got[t] \in {<<>>, c}
          BY <1>i, <2>2, <3>1, <3>2 DEF Reader, Shape
        <4>2. c \in Bodies
          <5>1. Doc(ino[t])
            BY <4>1, Zenon DEF DocInv
          <5>2. c = owed[ino[t]]
            BY <4>1, <5>1, Zenon DEF Doc
          <5>3. owed[ino[t]] \in Bodies
            BY <4>1
          <5> QED BY <5>2, <5>3, Zenon
        <4>3. c \in Seq(Blocks) /\ c # <<>>
          BY <4>2, BodiesAssumption
        <4>4. Len(c) # 0 /\ Len(c) \in Nat /\ Len(<<>>) = 0
          BY <4>3, EmptySeq, LenProperties
        <4> QED BY <3>1, <4>1, <4>2, <4>4
      <3> QED BY <2>2, <3>1, <3>2 DEF Reader, Answered, Unread
    <2> QED BY <2>1, <2>2
  <1>8. ASSUME NEW t \in Threads, Open(t)
        PROVE  (Reader(v) /\ Answered(v) /\ Unread(v))'
    <2>1. PICK i \in Inodes :
             /\ content' = [content EXCEPT ![i] = Truncate(@)]
             /\ owed' = [owed EXCEPT ![i] = Owe(t, i)]
             /\ ino' = [ino EXCEPT ![t] = i]
             /\ Disturb(t, i, req[t].entity, id[t])
      BY <1>8 DEF Open
    <2>2. CASE v = t
      BY <1>8, <2>2 DEF Open, Reader, Answered, Unread
    <2>3. CASE v # t
      <3>1. /\ pc'[v] = pc[v] /\ req'[v] = req[v] /\ ino'[v] = ino[v]
            /\ got'[v] = got[v] /\ status'[v] = status[v]
        BY <1>8, <2>1, <2>3 DEF Open
      <3>2. disturbed[v] => disturbed'[v]
        BY <2>1 DEF Disturb
      <3>3. pc[v] = "read" /\ ~ disturbed'[v] => ino[v] # i
        BY <2>1, <2>3 DEF Disturb
      <3>4. ino[v] # i =>
               \A u \in Threads : WritesNext(u, ino[v]) => Writes(u, ino[v])
        BY <1>8, <2>1 DEF Open, Writes, WritesNext
      <3>5. ino[v] # i => /\ owed'[ino[v]] = owed[ino[v]]
                          /\ content'[ino[v]] = content[ino[v]]
        BY <2>1
      <3>6. Untouched(v) /\ FileUntouched(v)
        BY <3>1, <3>2, <3>3, <3>4, <3>5 DEF Untouched, FileUntouched
      <3> QED BY <3>6, AnswerKept
    <2> QED BY <2>2, <2>3
  <1>9. ASSUME NEW t \in Threads, Write(t) \/ WriteFails(t)
        PROVE  (Reader(v) /\ Answered(v) /\ Unread(v))'
    <2>1. /\ pc[t] = "write" /\ pc' = [pc EXCEPT ![t] = "done"]
          /\ ino' = [ino EXCEPT ![t] = NoInode]
          /\ req' = req /\ got' = got /\ disturbed' = disturbed
      BY <1>9 DEF Write, WriteFails, Flush
    <2>2. CASE v = t
      <3>1. pc'[t] = "done" /\ req'[t] = req[t]
        BY <2>1
      <3>2. Shape(t)
        OBVIOUS
      <3>3. ~ IsGet(req[t])
        BY <2>1, <3>2 DEF Shape, IsGet, IsPost, IsPut
      <3>4. ~ IsGet(req'[t])
        BY <3>1, <3>3
      <3> QED BY <2>2, <3>1, <3>4 DEF Reader, Answered, Unread
    <2>3. CASE v # t
      <3>1. status'[v] = status[v]
        <4>1. PICK text, debt : Flush(t, text, debt)
          BY <1>9 DEF Write, WriteFails
        <4>2. status' = [status EXCEPT ![t] = IF IsPost(req[t]) /\ id[t] = -1
                                              THEN 500 ELSE 200]
          BY <4>1 DEF Flush
        <4> QED BY <2>3, <4>2
      <3>2. \A u \in Threads : WritesNext(u, ino[v]) => Writes(u, ino[v])
        BY <2>1 DEF Writes, WritesNext
      <3>3. pc[v] = "read" /\ ~ disturbed[v] =>
               ino[v] # ino[t] /\ ino[v] \in Inodes
        BY <1>i, <2>1 DEF Reader, Writes, Shape
      <3>4. pc[v] = "read" => ~ Free(ino[v])'
        BY <2>1, <2>3 DEF Free
      <3>5. pc[v] = "read" /\ ~ disturbed[v] =>
               /\ owed'[ino[v]] = owed[ino[v]]
               /\ content'[ino[v]] = content[ino[v]]
        <4>1. PICK text, debt : Flush(t, text, debt)
          BY <1>9 DEF Write, WriteFails
        <4> QED BY <3>3, <3>4, <4>1 DEF Flush, Reclaim
      <3>6. Untouched(v)
        BY <2>1, <2>3, <3>1 DEF Untouched
      <3>7. FileUntouched(v)
        BY <2>1, <3>2, <3>5 DEF FileUntouched
      <3> QED BY <3>6, <3>7, AnswerKept
    <2> QED BY <2>2, <2>3
  <1>10. ASSUME NEW t \in Threads, Remove(t)
         PROVE  (Reader(v) /\ Answered(v) /\ Unread(v))'
    <2>1. CASE v = t
      BY <1>10, <2>1 DEF Remove, Reader, Answered, Unread, Shape,
                         IsGet, IsDelete
    <2>2. CASE v # t
      <3>1. \A u \in Threads : WritesNext(u, ino[v]) => Writes(u, ino[v])
        BY <1>10 DEF Remove, Writes, WritesNext
      <3>2. pc[v] = "read" => ~ Free(ino[v])' /\ ino[v] \in Inodes
        BY <1>10 DEF Remove, Free, Shape
      <3>3. pc[v] = "read" => /\ owed'[ino[v]] = owed[ino[v]]
                              /\ content'[ino[v]] = content[ino[v]]
        BY <1>10, <3>2 DEF Remove, Reclaim
      <3>4. Untouched(v)
        <4> DEFINE code == IF Target(t) = NoInode THEN 404 ELSE 200
        <4>1. status' = [status EXCEPT ![t] = code]
          BY <1>10 DEF Remove
        <4> HIDE DEF code
        <4>2. status'[v] = status[v]
          BY <2>2, <4>1
        <4> QED BY <1>10, <2>2, <4>2 DEF Remove, Untouched
      <3>5. FileUntouched(v)
        BY <3>1, <3>3 DEF FileUntouched
      <3> QED BY <3>4, <3>5, AnswerKept
    <2> QED BY <2>1, <2>2
  <1> QED
    BY <1>0, <1>1, <1>2, <1>3, <1>4, <1>5, <1>6, <1>7, <1>8, <1>9, <1>10
       DEF Next, Handle, Step

\* A GET answered 200 carries a whole document, unless the file was opened for
\* writing while it was read or was damaged before.
THEOREM WholeAnswerTheorem == Spec => []WholeAnswer
  <1>1. Init => DocInv /\ AnswerInv
    BY DEF Init, DocInv, Doc, AnswerInv, Reader, Answered, Unread
  <1>2. TypeInv /\ DocInv /\ AnswerInv /\ [Next]_vars
            => DocInv' /\ AnswerInv'
    BY DocStep, AnswerStep
  <1>3. AnswerInv => WholeAnswer
    BY DEF AnswerInv, Answered, WholeAnswer
  <1> QED BY <1>1, <1>2, <1>3, TypeInit, TypeStep, PTL DEF Spec

-----------------------------------------------------------------------------
(* Requests that do not overlap.                                           *)

\* One thread serves all requests, and nothing goes wrong on the disk or with
\* the process.
OneAtATime ==
    /\ \A t, u \in Threads : t = u
    /\ DiskFaults = FALSE /\ Crashes = FALSE

\* What a request has before it that no other one interferes with.
Alone(t) ==
    /\ pc[t] \in {"read", "write"} => ino[t] = Target(t)
    /\ pc[t] = "read" => got[t] \in {<<>>, content[ino[t]]}
    /\ pc[t] = "write" => content[ino[t]] = <<>>
    /\ pc[t] = "open" /\ IsPost(req[t]) => id[t] \in NextIds(StoredIds(req[t].entity))
    /\ pc[t] \notin {"read", "done", "threw"} => got[t] = <<>>
    /\ pc[t] # "done" => listed[t] = {}
    /\ pc[t] \in {"idle", "list"} => id[t] = 0
    /\ pc[t] = "done" => status[t] # 0 /\ got[t] \in Bodies \cup {<<>>}

\* Every file that is not being written holds a document.
Whole ==
    \A e \in Entities, k \in Ids :
        link[e][k] # NoInode /\ Writers(link[e][k]) = {} => content[link[e][k]] \in Bodies

AloneInv == TypeInv /\ LinkInjective /\ Whole /\ \A t \in Threads : Alone(t)

LEMMA WritersOf ==
    ASSUME OneAtATime, NEW t \in Threads, NEW i
    PROVE  Writers(i) = IF pc[t] = "write" /\ ino[t] = i THEN {t} ELSE {}
  BY DEF OneAtATime, Writers

\* The document of an entry.
LEMMA Documents ==
    ASSUME OneAtATime, NEW t \in Threads, NEW i
    PROVE  Document(i) = IF i = NoInode THEN Missing
                         ELSE IF pc[t] = "write" /\ ino[t] = i THEN req[t].body
                         ELSE content[i]
  <1>1. CASE Writers(i) = {}
    BY <1>1, WritersOf DEF Document
  <1>2. CASE Writers(i) = {t}
    BY <1>2, WritersOf DEF Document
  <1> QED BY <1>1, <1>2, WritersOf

\* What is stored is what has an entry, and is a document.
LEMMA StoredDocuments ==
    ASSUME OneAtATime, AloneInv, NEW t \in Threads,
           NEW e \in Entities, NEW k \in Ids, link[e][k] # NoInode
    PROVE  Document(link[e][k]) \in Bodies
  <1>1. CASE pc[t] = "write" /\ ino[t] = link[e][k]
    BY <1>1, Documents DEF AloneInv, TypeInv, Shape
  <1>2. CASE ~ (pc[t] = "write" /\ ino[t] = link[e][k])
    BY <1>2, Documents, WritersOf DEF AloneInv, Whole
  <1> QED BY <1>1, <1>2

LEMMA StoredEntries ==
    ASSUME OneAtATime, AloneInv, NEW t \in Threads, NEW e \in Entities
    PROVE  Promise!Stored(e) = StoredIds(e)
  <1>1. \A k \in Ids : Document(link[e][k]) # Missing <=> link[e][k] # NoInode
    BY StoredDocuments, MissingAssumption DEF Document
  <1> QED BY <1>1 DEF Promise!Stored, StoredIds, StoreView

\* No entry and no file that has one changes.
FilesStay ==
    /\ link' = link
    /\ \A e \in Entities, k \in Ids :
          link[e][k] # NoInode => content'[link[e][k]] = content[link[e][k]]

LEMMA StoreStays ==
    ASSUME OneAtATime, AloneInv, NEW t \in Threads, FilesStay,
           pc[t] # "write", pc'[t] # "write"
    PROVE  StoreView' = StoreView /\ LinkInjective' /\ Whole'
  <1>1. \A i : Document(i) = (IF i = NoInode THEN Missing ELSE content[i])
    BY Documents
  <1>2. \A i : Writers(i) = {} /\ Writers(i)' = {}
    BY DEF OneAtATime, Writers
  <1>3. \A i : Document(i)' = (IF i = NoInode THEN Missing ELSE content'[i])
    BY <1>2 DEF Document
  <1>4. StoreView' = StoreView
    BY <1>1, <1>3 DEF StoreView, FilesStay
  <1>5. LinkInjective'
    BY DEF FilesStay, AloneInv, LinkInjective
  <1>6. Whole'
    BY <1>2 DEF FilesStay, AloneInv, Whole
  <1> QED BY <1>4, <1>5, <1>6

\* What a request that has no reply yet has left alone.
LEMMA Unanswered ==
    ASSUME AloneInv, NEW t \in Threads
    PROVE  /\ pc[t] \notin {"read", "done", "threw"} => got[t] = <<>>
           /\ pc[t] # "done" => listed[t] = {}
           /\ pc[t] \in {"idle", "list"} => id[t] = 0
  BY DEF AloneInv, Alone

LEMMA Replied ==
    ASSUME OneAtATime, NEW t \in Threads, pc[t] \notin {"write", "done"}, NEW r, ReplyOf(t)' = r
    PROVE  Promise!Answer(t, r)
  <1>1. ReplyOf(t) = NoReply
    BY DEF ReplyOf
  <1>2. ReplyView' = [ReplyView EXCEPT ![t] = r]
    BY DEF OneAtATime, ReplyView
  <1> QED BY <1>1, <1>2 DEF Promise!Answer, ReplyView

LEMMA AloneInit == Init => AloneInv
  BY TypeInit DEF Init, AloneInv, Alone, LinkInjective, Whole

\* The steps that leave the files as they are.
LEMMA AloneHandle ==
    ASSUME OneAtATime, AloneInv, NEW t \in Threads, NEW r \in Requests,
           Refuse(t, r) \/ StoiThrows(t, r) \/ Begin(t, r)
    PROVE  /\ Alone(t)' /\ FilesStay /\ pc[t] = "idle"
           /\ pc'[t] \notin {"read", "pick", "open", "write"}
  <1> USE DEF AloneInv, TypeInv, TypeOK
  <1>1. pc[t] = "idle" /\ got[t] = <<>> /\ listed[t] = {} /\ id[t] = 0
    BY DEF Refuse, StoiThrows, Begin, Alone
  <1>2. FilesStay
    BY DEF Refuse, StoiThrows, Begin, FilesStay
  <1>3. r.method \in Methods
    BY DEF Requests, Methods
  <1>4. FirstStep(r) \in {"list", "lookup", "ensure", "remove"}
        /\ (FirstStep(r) = "list" => r.id = 0)
    BY <1>3 DEF FirstStep, Methods, IsGet, IsPost, IsPut, IsDelete
  <1>5. got'[t] = <<>> /\ listed'[t] = {}
    BY <1>1 DEF Refuse, StoiThrows, Begin
  <1>6. CASE Refuse(t, r)
    <2>1. pc'[t] = "done" /\ status'[t] = 400
      BY <1>6 DEF Refuse
    <2> QED BY <1>1, <1>2, <1>5, <2>1 DEF Alone
  <1>7. CASE StoiThrows(t, r)
    <2>1. pc'[t] = "threw"
      BY <1>7 DEF StoiThrows
    <2> QED BY <1>1, <1>2, <1>5, <2>1 DEF Alone
  <1>8. CASE Begin(t, r)
    <2>1. pc'[t] = FirstStep(r) /\ id'[t] = r.id
      BY <1>8 DEF Begin
    <2> QED BY <1>1, <1>2, <1>4, <1>5, <2>1 DEF Alone
  <1> QED BY <1>6, <1>7, <1>8

LEMMA AloneQuiet ==
    ASSUME OneAtATime, AloneInv, NEW t \in Threads,
           List(t) \/ Lookup(t) \/ LookupFails(t) \/ ReadMore(t) \/ EnsureDir(t)
             \/ PickId(t) \/ OpenFails(t) \/ Respond(t)
    PROVE  /\ Alone(t)' /\ FilesStay /\ pc[t] # "write" /\ pc'[t] # "write"
  <1> USE DEF AloneInv, TypeInv, TypeOK
  <1>1. Alone(t) /\ Shape(t)
    OBVIOUS
  <1>2. CASE List(t)
    BY <1>1, <1>2 DEF List, Alone, FilesStay
  <1>3. CASE Lookup(t)
    <2>1. /\ pc[t] = "lookup" /\ pc'[t] = "read" /\ ino'[t] = Target(t)
          /\ req' = req /\ id' = id /\ link' = link /\ content' = content
          /\ got' = got /\ listed' = listed
      BY <1>3 DEF Lookup
    <2>2. Target(t)' = Target(t)
      BY <2>1 DEF Target
    <2>3. Alone(t)'
      BY <1>1, <2>1, <2>2 DEF Alone
    <2> QED BY <2>1, <2>3 DEF FilesStay
  <1>4. CASE LookupFails(t)
    BY <1>1, <1>4 DEF LookupFails, Alone, FilesStay
  <1>5. CASE ReadMore(t)
    <2>1. content[ino[t]] \in Seq(Blocks) /\ got[t] \in Seq(Blocks)
      BY <1>1, <1>5 DEF ReadMore, Shape
    <2>2. got[t] = <<>>
      BY <1>1, <1>5, <2>1, LenProperties DEF ReadMore, Alone
    <2>3. got'[t] = content[ino[t]]
      BY <1>5, <2>1, <2>2, WholeSuffix DEF ReadMore
    <2> QED BY <1>1, <1>5, <2>3 DEF ReadMore, Alone, FilesStay, Target
  <1>6. CASE EnsureDir(t)
    BY <1>1, <1>6 DEF EnsureDir, Alone, FilesStay, Shape, IsPost, IsPut
  <1>7. CASE PickId(t)
    <2>1. PICK k \in NextIds(StoredIds(req[t].entity)) : id' = [id EXCEPT ![t] = k]
      BY <1>7 DEF PickId
    <2>2. StoredIds(req[t].entity)' = StoredIds(req[t].entity)
      BY <1>7 DEF PickId, StoredIds
    <2> QED BY <1>1, <1>7, <2>1, <2>2 DEF PickId, Alone, FilesStay
  <1>8. CASE OpenFails(t)
    BY <1>1, <1>8 DEF OpenFails, Alone, FilesStay
  <1>9. CASE Respond(t)
    BY <1>1, <1>9 DEF Respond, Alone, FilesStay
  <1> QED BY <1>2, <1>3, <1>4, <1>5, <1>6, <1>7, <1>8, <1>9

\* What has an entry is not free.
LEMMA LinkedStays ==
    ASSUME NEW c, NEW o, Reclaim(c, o), NEW i \in Inodes, Linked(i)'
    PROVE  content'[i] = c[i]
  BY DEF Reclaim, Free

LEMMA AloneReadEnd ==
    ASSUME OneAtATime, AloneInv, NEW t \in Threads, ReadEnd(t)
    PROVE  /\ Alone(t)' /\ FilesStay /\ pc[t] = "read" /\ pc'[t] = "done"
           /\ Target(t) # NoInode /\ got[t] = content[Target(t)] /\ got[t] \in Bodies
  <1> USE DEF AloneInv, TypeInv, TypeOK
  <1>1. /\ pc[t] = "read" /\ pc'[t] = "done" /\ status'[t] = 200
        /\ got' = got /\ listed' = listed /\ link' = link
        /\ ino[t] = Target(t) /\ ino[t] \in Inodes /\ req[t].entity \in Entities
    BY DEF ReadEnd, Shape, Alone
  <1>2. content[ino[t]] \in Bodies
    <2>1. Writers(ino[t]) = {}
      BY <1>1, WritersOf
    <2>2. link[req[t].entity][id[t]] = ino[t] /\ ino[t] # NoInode /\ id[t] \in Ids
      BY <1>1, SentinelsAssumption DEF Target
    <2> QED BY <1>1, <2>1, <2>2 DEF Whole
  <1>3. got[t] = content[ino[t]]
    <2>1. Len(content[ino[t]]) <= Len(got[t]) /\ got[t] \in {<<>>, content[ino[t]]}
      BY <1>1 DEF ReadEnd, Alone
    <2>2. content[ino[t]] \in Seq(Blocks) /\ content[ino[t]] # <<>>
      BY <1>2, BodiesAssumption
    <2> QED BY <2>1, <2>2, EmptySeq, LenProperties
  <1>4. FilesStay
    <2> SUFFICES ASSUME NEW e \in Entities, NEW k \in Ids, link[e][k] # NoInode
                 PROVE  content'[link[e][k]] = content[link[e][k]]
      BY <1>1 DEF FilesStay
    <2>1. link[e][k] \in Inodes /\ Linked(link[e][k])'
      BY <1>1 DEF Linked
    <2> QED BY <2>1, LinkedStays DEF ReadEnd
  <1>5. listed[t] = {}
    BY <1>1 DEF Alone
  <1>6. Alone(t)'
    BY <1>1, <1>2, <1>3, <1>5 DEF Alone
  <1> QED BY <1>1, <1>2, <1>3, <1>4, <1>6, SentinelsAssumption

LEMMA StoreViewShape ==
    /\ StoreView = [f \in Entities |-> [j \in Ids |-> StoreView[f][j]]]
    /\ StoreView' = [f \in Entities |-> [j \in Ids |-> StoreView'[f][j]]]
  BY DEF StoreView

\* A table of entries of which one has changed.
LEMMA OneEntry ==
    ASSUME NEW v, NEW w, NEW e \in Entities, NEW k \in Ids,
           v = [f \in Entities |-> [j \in Ids |-> v[f][j]]],
           w = [f \in Entities |-> [j \in Ids |-> w[f][j]]],
           \A f \in Entities, j \in Ids : ~ (f = e /\ j = k) => w[f][j] = v[f][j]
    PROVE  w = [v EXCEPT ![e][k] = w[e][k]]
  <1> DEFINE x == [v EXCEPT ![e] = [v[e] EXCEPT ![k] = w[e][k]]]
  <1>1. x = [f \in Entities |-> x[f]] /\ \A f \in Entities : f # e => x[f] = v[f]
    OBVIOUS
  <1>2. x[e] = [v[e] EXCEPT ![k] = w[e][k]] /\ v[e] = [j \in Ids |-> v[e][j]]
    OBVIOUS
  <1>3. x[e] = [j \in Ids |-> w[e][j]]
    BY <1>2
  <1>4. \A f \in Entities : x[f] = [j \in Ids |-> w[f][j]]
    BY <1>1, <1>3
  <1> QED BY <1>1, <1>4

\* The entry of the request gets an empty file, which nobody else has.
LEMMA AloneOpen ==
    ASSUME OneAtATime, AloneInv, NEW t \in Threads, Open(t)
    PROVE  /\ Alone(t)' /\ LinkInjective' /\ Whole'
           /\ StoreView' = [StoreView EXCEPT ![req[t].entity][id[t]] = req[t].body]
  <1> USE DEF AloneInv, TypeInv, TypeOK
  <1>0. PICK e \in Entities, k \in Ids : e = req[t].entity /\ k = id[t]
    BY DEF Open, Shape
  <1>1. /\ pc[t] = "open" /\ pc'[t] = "write"
        /\ req' = req /\ id' = id /\ got'[t] = <<>> /\ listed'[t] = {}
    <2>1. /\ pc[t] = "open" /\ pc'[t] = "write"
          /\ req' = req /\ id' = id /\ got' = got /\ listed' = listed
      BY DEF Open
    <2>2. got[t] = <<>> /\ listed[t] = {}
      BY <2>1 DEF Alone
    <2> QED BY <2>1, <2>2
  <1>2. PICK i \in Inodes :
          /\ IF Target(t) = NoInode THEN Free(i) ELSE i = Target(t)
          /\ link' = [link EXCEPT ![e][k] = i]
          /\ content' = [content EXCEPT ![i] = Truncate(@)]
          /\ ino' = [ino EXCEPT ![t] = i]
    BY <1>0 DEF Open
  <1>3. /\ link'[e][k] = i /\ i # NoInode
        /\ \A f \in Entities, j \in Ids : ~ (f = e /\ j = k) => link'[f][j] = link[f][j]
    BY <1>2, SentinelsAssumption
  <1>4. \A f \in Entities, j \in Ids : ~ (f = e /\ j = k) => link[f][j] # i
    <2>1. CASE Target(t) = NoInode
      BY <1>2, <2>1 DEF Free, Linked
    <2>2. CASE Target(t) # NoInode
      BY <1>0, <1>1, <1>2, <2>2 DEF LinkInjective, Target
    <2> QED BY <2>1, <2>2
  <1>5. ino'[t] = i /\ content'[i] = <<>>
    BY <1>2 DEF Truncate
  <1>6. Alone(t)'
    BY <1>0, <1>1, <1>3, <1>5 DEF Alone, Target
  <1>7. LinkInjective'
    BY <1>3, <1>4 DEF LinkInjective
  <1>8. \A j : Writers(j)' = IF j = i THEN {t} ELSE {}
    BY <1>1, <1>5 DEF OneAtATime, Writers
  <1>9. ASSUME NEW f \in Entities, NEW j \in Ids, ~ (f = e /\ j = k)
        PROVE  /\ content'[link[f][j]] = content[link[f][j]] \/ link[f][j] = NoInode
               /\ Document(link[f][j])' = Document(link[f][j])
    <2>1. link[f][j] # i /\ link'[f][j] = link[f][j]
      BY <1>3, <1>4, <1>9
    <2>2. link[f][j] # NoInode => content'[link[f][j]] = content[link[f][j]]
      BY <1>2, <2>1
    <2>3. Document(link[f][j]) = IF link[f][j] = NoInode THEN Missing
                                                        ELSE content[link[f][j]]
      BY <1>1, Documents
    <2> QED BY <1>8, <2>1, <2>2, <2>3 DEF Document
  <1>10. Whole'
    <2> SUFFICES ASSUME NEW f \in Entities, NEW j \in Ids, link'[f][j] # NoInode,
                        Writers(link[f][j])' = {}
                 PROVE  content'[link'[f][j]] \in Bodies
      BY DEF Whole
    <2>1. ~ (f = e /\ j = k)
      BY <1>3, <1>8
    <2>2. Writers(link[f][j]) = {}
      BY <1>1, WritersOf
    <2> QED BY <1>3, <1>9, <2>1, <2>2 DEF Whole
  <1>11. Document(link[e][k])' = req[t].body
    <2>1. Writers(i)' = {t}
      BY <1>8
    <2>2. Document(i)' = req[t].body
      BY <1>1, <1>3, <2>1 DEF Document
    <2> QED BY <1>3, <2>2
  <1>12. StoreView' = [StoreView EXCEPT ![e][k] = req[t].body]
    <2>1. StoreView'[e][k] = req[t].body
      BY <1>11 DEF StoreView
    <2>2. \A f \in Entities, j \in Ids :
             ~ (f = e /\ j = k) => StoreView'[f][j] = StoreView[f][j]
      BY <1>9 DEF StoreView
    <2> QED BY <2>1, <2>2, StoreViewShape, OneEntry
  <1> QED BY <1>0, <1>6, <1>7, <1>10, <1>12

\* The text goes to the empty file: it is the document of the request, as the
\* clients have seen since the file was opened.
LEMMA AloneWrite ==
    ASSUME OneAtATime, AloneInv, NEW t \in Threads, Write(t)
    PROVE  /\ Alone(t)' /\ LinkInjective' /\ Whole'
           /\ StoreView' = StoreView /\ ReplyView' = ReplyView
  <1> USE DEF AloneInv, TypeInv, TypeOK
  <1>0. PICK i \in Inodes : i = ino[t]
    BY DEF Write, Flush, Shape
  <1>1. /\ pc[t] = "write" /\ pc'[t] = "done" /\ link' = link
        /\ req' = req /\ id' = id /\ got' = got /\ listed' = listed
        /\ got[t] = <<>> /\ listed[t] = {} /\ i = Target(t) /\ content[i] = <<>>
        /\ req[t].body \in Bodies
    <2>1. /\ pc[t] = "write" /\ pc'[t] = "done" /\ link' = link
          /\ req' = req /\ id' = id /\ got' = got /\ listed' = listed
      BY DEF Write, Flush
    <2>2. /\ got[t] = <<>> /\ listed[t] = {} /\ i = Target(t) /\ content[i] = <<>>
      BY <1>0, <2>1 DEF Alone
    <2>3. req[t].body \in Bodies
      BY <2>1 DEF Shape
    <2> QED BY <2>1, <2>2, <2>3
  <1>2. status'[t] = IF IsPost(req[t]) /\ id[t] = -1 THEN 500 ELSE 200
    BY DEF Write, Flush
  <1>3. ASSUME NEW f \in Entities, NEW j \in Ids, link[f][j] # NoInode
        PROVE  content'[link[f][j]] = IF link[f][j] = i THEN req[t].body
                                      ELSE content[link[f][j]]
    <2> DEFINE c == [content EXCEPT ![i] = Overlay(@, req[t].body)]
    <2>1. PICK x \in Inodes : x = link[f][j]
      BY <1>3
    <2>2. Linked(x)'
      BY <1>1, <2>1 DEF Linked
    <2>3. \E o : Reclaim(c, o)
      BY <1>0 DEF Write, Flush
    <2>4. Overlay(content[i], req[t].body) = req[t].body
      BY <1>1, OverlayOnEmpty, BodiesAssumption
    <2>5. c[x] = IF x = i THEN req[t].body ELSE content[x]
      BY <2>4
    <2> HIDE DEF c
    <2>6. content'[x] = c[x]
      BY <2>2, <2>3, LinkedStays
    <2> QED BY <2>1, <2>5, <2>6
  <1>4. \A j : Writers(j)' = {}
    BY <1>1 DEF OneAtATime, Writers
  <1>5. Alone(t)'
    BY <1>1, <1>2 DEF Alone
  <1>6. LinkInjective'
    BY <1>1 DEF LinkInjective
  <1>7. ASSUME NEW f \in Entities, NEW j \in Ids
        PROVE  /\ Document(link[f][j])' = Document(link[f][j])
               /\ link[f][j] # NoInode => content'[link[f][j]] \in Bodies
    <2>1. Document(link[f][j]) = IF link[f][j] = NoInode THEN Missing
                                 ELSE IF link[f][j] = i THEN req[t].body
                                 ELSE content[link[f][j]]
      <3>1. Document(link[f][j]) = IF link[f][j] = NoInode THEN Missing
                                   ELSE IF pc[t] = "write" /\ ino[t] = link[f][j]
                                   THEN req[t].body ELSE content[link[f][j]]
        BY Documents
      <3> QED BY <1>0, <1>1, <3>1
    <2>2. Document(link[f][j])' = IF link[f][j] = NoInode THEN Missing
                                  ELSE content'[link[f][j]]
      BY <1>1, <1>4 DEF Document
    <2>3. link[f][j] # i => Writers(link[f][j]) = {}
      BY <1>0, WritersOf
    <2> QED BY <1>1, <1>3, <2>1, <2>2, <2>3 DEF Whole
  <1>8. Whole'
    BY <1>1, <1>7 DEF Whole
  <1>9. StoreView' = StoreView
    BY <1>7 DEF StoreView
  <1>10. ReplyOf(t)' = ReplyOf(t)
    BY <1>1, <1>2 DEF ReplyOf, StatusView
  <1>11. ReplyView' = ReplyView
    BY <1>10 DEF OneAtATime, ReplyView
  <1> QED BY <1>5, <1>6, <1>8, <1>9, <1>11

LEMMA AloneRemove ==
    ASSUME OneAtATime, AloneInv, NEW t \in Threads, Remove(t)
    PROVE  /\ Alone(t)' /\ LinkInjective' /\ Whole'
           /\ StoreView' = [StoreView EXCEPT ![req[t].entity][id[t]] = Missing]
  <1> USE DEF AloneInv, TypeInv, TypeOK
  <1>0. PICK e \in Entities, k \in Ids : e = req[t].entity /\ k = id[t]
    BY DEF Remove, Shape
  <1>1. /\ pc[t] = "remove" /\ pc'[t] = "done" /\ status'[t] \in {200, 404}
        /\ req' = req /\ id' = id /\ got'[t] = <<>> /\ listed'[t] = {}
    <2>1. got[t] = <<>> /\ listed[t] = {} /\ pc[t] = "remove"
      BY DEF Remove, Alone
    <2> QED BY <2>1 DEF Remove
  <1>2. /\ link'[e][k] = NoInode
        /\ \A f \in Entities, j \in Ids : ~ (f = e /\ j = k) => link'[f][j] = link[f][j]
    <2>1. link' = [link EXCEPT ![e][k] = NoInode]
      BY <1>0 DEF Remove
    <2> QED BY <2>1
  <1>3. \A j : Writers(j) = {} /\ Writers(j)' = {}
    BY <1>1 DEF OneAtATime, Writers
  <1>4. ASSUME NEW f \in Entities, NEW j \in Ids, ~ (f = e /\ j = k)
        PROVE  /\ Document(link[f][j])' = Document(link[f][j])
               /\ link[f][j] # NoInode => content'[link[f][j]] = content[link[f][j]]
    <2>1. link'[f][j] = link[f][j]
      BY <1>2, <1>4
    <2>2. ASSUME link[f][j] # NoInode
          PROVE  content'[link[f][j]] = content[link[f][j]]
      <3>1. PICK x \in Inodes : x = link[f][j]
        BY <2>2
      <3>2. Linked(x)'
        BY <2>1, <3>1 DEF Linked
      <3> QED BY <3>1, <3>2, LinkedStays DEF Remove
    <2> QED BY <1>3, <2>1, <2>2 DEF Document
  <1>5. Alone(t)'
    BY <1>1 DEF Alone
  <1>6. LinkInjective'
    BY <1>2 DEF LinkInjective
  <1>7. Whole'
    BY <1>2, <1>3, <1>4 DEF Whole
  <1>8. StoreView' = [StoreView EXCEPT ![e][k] = Missing]
    <2>1. StoreView'[e][k] = Missing
      BY <1>2 DEF StoreView, Document
    <2>2. \A f \in Entities, j \in Ids :
             ~ (f = e /\ j = k) => StoreView'[f][j] = StoreView[f][j]
      BY <1>4 DEF StoreView
    <2> QED BY <2>1, <2>2, StoreViewShape, OneEntry
  <1> QED BY <1>0, <1>5, <1>6, <1>7, <1>8

LEMMA AloneTerminate ==
    ASSUME OneAtATime, AloneInv, NEW t \in Threads, Terminate
    PROVE  /\ Alone(t)' /\ FilesStay /\ pc[t] = "threw" /\ pc'[t] = "idle"
  <1> USE DEF AloneInv, TypeInv, TypeOK
  <1>1. /\ pc[t] = "threw" /\ pc'[t] = "idle" /\ id'[t] = 0
        /\ got'[t] = <<>> /\ listed'[t] = {} /\ link' = link
    BY DEF Terminate, OneAtATime
  <1>2. Alone(t)'
    BY <1>1 DEF Alone
  <1>3. FilesStay
    <2> SUFFICES ASSUME NEW e \in Entities, NEW k \in Ids, link[e][k] # NoInode
                 PROVE  content'[link[e][k]] = content[link[e][k]]
      BY <1>1 DEF FilesStay
    <2>1. link[e][k] \in Inodes /\ Linked(link[e][k])'
      BY <1>1 DEF Linked
    <2> QED BY <2>1, LinkedStays DEF Terminate
  <1> QED BY <1>1, <1>2, <1>3

LEMMA AloneTogether ==
    ASSUME OneAtATime, NEW t \in Threads, TypeInv', LinkInjective', Whole', Alone(t)'
    PROVE  AloneInv'
  BY DEF OneAtATime, AloneInv

-----------------------------------------------------------------------------
(* What each step is for the map.                                          *)

\* The map has taken a step, or none.
Mapped == [Promise!Next]_<<StoreView, ReplyView>>

LEMMA StutterStep ==
    ASSUME OneAtATime, NEW t \in Threads, StoreView' = StoreView,
           pc[t] \notin {"write", "done"}, pc'[t] \notin {"write", "done"}
    PROVE  Mapped
  <1>1. ReplyOf(t)' = ReplyOf(t)
    BY DEF ReplyOf
  <1>2. ReplyView' = ReplyView
    BY <1>1 DEF OneAtATime, ReplyView
  <1> QED BY <1>2 DEF Mapped

LEMMA FailStep ==
    ASSUME OneAtATime, NEW t \in Threads, StoreView' = StoreView,
           pc[t] \notin {"write", "done"}, pc'[t] = "done",
           status'[t] \in {400, 500}, id'[t] \in Ids, got'[t] = <<>>, listed'[t] = {}
    PROVE  Mapped
  <1>1. PICK code \in {400, 500}, k \in Ids : code = status'[t] /\ k = id'[t]
    OBVIOUS
  <1>2. PICK r : r = Promise!Reply(code, k, Missing, {})
    OBVIOUS
  <1>3. Promise!Answer(t, r)
    <2>1. ReplyOf(t)' = r
      BY <1>1, <1>2 DEF ReplyOf, StatusView, Promise!Reply
    <2> QED BY <2>1, Replied
  <1>4. Promise!Fail(t)
    BY <1>2, <1>3 DEF Promise!Fail
  <1> QED BY <1>4 DEF Mapped, Promise!Next

LEMMA OperationStep ==
    ASSUME NEW t \in Threads, NEW e \in Entities, Promise!Operation(t, e)
    PROVE  Mapped
  BY DEF Mapped, Promise!Next

LEMMA HandleSimulates ==
    ASSUME OneAtATime, AloneInv, NEW t \in Threads, NEW r \in Requests,
           Refuse(t, r) \/ StoiThrows(t, r) \/ Begin(t, r), StoreView' = StoreView
    PROVE  Mapped
  <1> USE DEF AloneInv, TypeInv, TypeOK
  <1>1. /\ pc[t] = "idle" /\ got[t] = <<>> /\ listed[t] = {} /\ id[t] \in Ids
    BY DEF Refuse, StoiThrows, Begin, Alone
  <1>2. CASE Refuse(t, r)
    <2>1. /\ pc'[t] = "done" /\ status'[t] = 400 /\ id' = id
          /\ got' = got /\ listed' = listed
      BY <1>2 DEF Refuse
    <2>2. status'[t] \in {400, 500} /\ id'[t] \in Ids
      BY <1>1, <2>1
    <2>3. pc[t] \notin {"write", "done"} /\ got'[t] = <<>> /\ listed'[t] = {}
      BY <1>1, <2>1
    <2> QED BY <2>1, <2>2, <2>3, FailStep
  <1>3. CASE StoiThrows(t, r)
    <2>1. pc'[t] = "threw"
      BY <1>3 DEF StoiThrows
    <2> QED BY <1>1, <2>1, StutterStep
  <1>4. CASE Begin(t, r)
    <2>1. pc'[t] = FirstStep(r)
      BY <1>4 DEF Begin
    <2>2. r.method \in Methods
      BY DEF Requests, Methods
    <2>3. FirstStep(r) \in {"list", "lookup", "ensure", "remove"}
      BY <2>2 DEF FirstStep, Methods, IsGet, IsPost, IsPut, IsDelete
    <2> QED BY <1>1, <2>1, <2>3, StutterStep
  <1> QED BY <1>2, <1>3, <1>4

LEMMA ListSimulates ==
    ASSUME OneAtATime, AloneInv, NEW t \in Threads, List(t), StoreView' = StoreView
    PROVE  Mapped
  <1> USE DEF AloneInv, TypeInv, TypeOK
  <1>1. PICK e \in Entities : e = req[t].entity
    BY DEF List, Shape
  <1>2. PICK ks \in SUBSET Ids : ks = StoredIds(e)
    BY DEF StoredIds
  <1>3. /\ pc[t] = "list" /\ pc'[t] = "done" /\ status'[t] = 200
        /\ id'[t] = 0 /\ got'[t] = <<>> /\ listed'[t] = ks
    <2>1. pc[t] = "list" /\ got[t] = <<>> /\ id[t] = 0
      BY Unanswered DEF List
    <2> QED BY <1>1, <1>2, <2>1 DEF List
  <1>4. PICK r : r = Promise!Reply(200, 0, Missing, ks)
    OBVIOUS
  <1>5. Promise!Answer(t, r)
    <2>1. ReplyOf(t)' = r
      BY <1>3, <1>4 DEF ReplyOf, StatusView, Promise!Reply
    <2>2. pc[t] \notin {"write", "done"}
      BY <1>3
    <2> QED BY <2>1, <2>2, Replied
  <1>6. ks = Promise!Stored(e)
    BY <1>2, StoredEntries
  <1>7. Promise!List(t, e)
    BY <1>4, <1>5, <1>6 DEF Promise!List
  <1> QED BY <1>7, OperationStep DEF Promise!Operation

LEMMA LookupFailsSimulates ==
    ASSUME OneAtATime, AloneInv, NEW t \in Threads, LookupFails(t), StoreView' = StoreView
    PROVE  Mapped
  <1> USE DEF AloneInv, TypeInv, TypeOK
  <1>1. PICK e \in Entities, k \in Ids : e = req[t].entity /\ k = id[t]
    BY DEF LookupFails, Shape
  <1>2. /\ pc[t] = "lookup" /\ pc'[t] = "done" /\ status'[t] = 404
        /\ id'[t] = k /\ got'[t] = <<>> /\ listed'[t] = {}
    BY <1>1, Unanswered DEF LookupFails
  <1>3. link[e][k] = NoInode
    BY <1>1 DEF LookupFails, OneAtATime, Target
  <1>4. StoreView[e][k] = Missing
    BY <1>3 DEF StoreView, Document
  <1>5. PICK r : r = Promise!Reply(404, k, Missing, {})
    OBVIOUS
  <1>6. Promise!Answer(t, r)
    <2>1. ReplyOf(t)' = r
      BY <1>2, <1>5 DEF ReplyOf, StatusView, Promise!Reply
    <2>2. pc[t] \notin {"write", "done"}
      BY <1>2
    <2> QED BY <2>1, <2>2, Replied
  <1>7. Promise!Retrieve(t, e, k)
    BY <1>4, <1>5, <1>6 DEF Promise!Retrieve
  <1> QED BY <1>7, OperationStep DEF Promise!Operation

LEMMA ReadEndSimulates ==
    ASSUME OneAtATime, AloneInv, NEW t \in Threads, ReadEnd(t), StoreView' = StoreView
    PROVE  Mapped
  <1> USE DEF AloneInv, TypeInv, TypeOK
  <1>1. PICK e \in Entities, k \in Ids : e = req[t].entity /\ k = id[t]
    BY DEF ReadEnd, Shape
  <1>2. PICK b \in Bodies : b = got[t]
    BY AloneReadEnd
  <1>3. /\ pc[t] = "read" /\ pc'[t] = "done" /\ status'[t] = 200
        /\ id'[t] = k /\ got'[t] = b /\ listed'[t] = {}
    <2>1. pc[t] = "read" /\ listed[t] = {}
      BY Unanswered DEF ReadEnd
    <2> QED BY <1>1, <1>2, <2>1 DEF ReadEnd
  <1>4. link[e][k] # NoInode /\ content[link[e][k]] = b
    BY <1>1, <1>2, AloneReadEnd DEF Target
  <1>5. Document(link[e][k]) = b
    <2>1. Writers(link[e][k]) = {}
      BY <1>3, WritersOf
    <2> QED BY <1>4, <2>1 DEF Document
  <1>6. StoreView[e][k] = b /\ b # Missing /\ b # <<>>
    BY <1>5, MissingAssumption, BodiesAssumption DEF StoreView
  <1>7. PICK r : r = Promise!Reply(200, k, b, {})
    OBVIOUS
  <1>8. Promise!Answer(t, r)
    <2>1. ReplyOf(t)' = r
      BY <1>3, <1>6, <1>7 DEF ReplyOf, StatusView, Promise!Reply
    <2>2. pc[t] \notin {"write", "done"}
      BY <1>3
    <2> QED BY <2>1, <2>2, Replied
  <1>9. Promise!Retrieve(t, e, k)
    BY <1>6, <1>7, <1>8 DEF Promise!Retrieve
  <1> QED BY <1>9, OperationStep DEF Promise!Operation

LEMMA OpenSimulates ==
    ASSUME OneAtATime, AloneInv, NEW t \in Threads, Open(t)
    PROVE  Mapped
  <1> USE DEF AloneInv, TypeInv, TypeOK
  <1>1. PICK e \in Entities, k \in Ids, b \in Bodies :
            e = req[t].entity /\ k = id[t] /\ b = req[t].body
    BY DEF Open, Shape
  <1>2. /\ pc[t] = "open" /\ pc'[t] = "write" /\ req' = req
        /\ id'[t] = k /\ got'[t] = <<>> /\ listed'[t] = {}
        /\ IsPost(req[t]) \/ IsPut(req[t])
    <2>1. /\ pc[t] = "open" /\ got[t] = <<>> /\ listed[t] = {}
          /\ IsPost(req[t]) \/ IsPut(req[t])
      BY Unanswered DEF Open, Shape
    <2> QED BY <1>1, <2>1 DEF Open
  <1>3. StoreView' = [StoreView EXCEPT ![e][k] = b]
    BY <1>1, AloneOpen
  <1>4. PICK code : code = IF IsPost(req[t]) /\ k = -1 THEN 500 ELSE 200
    OBVIOUS
  <1>5. PICK r : r = Promise!Reply(code, k, Missing, {})
    OBVIOUS
  <1>6. Promise!Answer(t, r)
    <2>1. ReplyOf(t)' = r
      BY <1>2, <1>4, <1>5 DEF ReplyOf, StatusView, Promise!Reply
    <2>2. pc[t] \notin {"write", "done"}
      BY <1>2
    <2> QED BY <2>1, <2>2, Replied
  <1>7. CASE IsPost(req[t])
    <2>1. PICK s \in SUBSET Ids : s = StoredIds(e)
      BY DEF StoredIds
    <2>2. k \in NextIds(s)
      BY <1>1, <1>2, <1>7, <2>1 DEF Alone
    <2>3. Promise!Stored(e) = s
      BY <2>1, StoredEntries
    <2>4. Promise!Fresh(e, k)
      <3>1. CASE s = {}
        BY <2>2, <2>3, <3>1 DEF Promise!Fresh, NextIds
      <3>2. CASE s # {}
        <4>1. PICK m \in s : (\A j \in s : j <= m) /\ k = Wrap(m + 1)
          BY <2>2, <3>2 DEF NextIds, Largest
        <4>2. m < MaxInt => k = m + 1
          BY <4>1, MaxIntAssumption DEF Wrap, Ids, MinInt
        <4> QED BY <2>3, <3>2, <4>1, <4>2 DEF Promise!Fresh
      <3> QED BY <3>1, <3>2
    <2>5. code = IF k = -1 THEN 500 ELSE 200
      BY <1>4, <1>7
    <2>6. Promise!Create(t, e, b)
      BY <1>3, <1>5, <1>6, <2>4, <2>5 DEF Promise!Create
    <2> QED BY <2>6, OperationStep DEF Promise!Operation
  <1>8. CASE IsPut(req[t])
    <2>1. code = 200
      BY <1>4, <1>8 DEF IsPut, IsPost
    <2>2. Promise!Update(t, e, k, b)
      BY <1>3, <1>5, <1>6, <2>1 DEF Promise!Update
    <2> QED BY <2>2, OperationStep DEF Promise!Operation
  <1> QED BY <1>2, <1>7, <1>8

LEMMA RemoveSimulates ==
    ASSUME OneAtATime, AloneInv, NEW t \in Threads, Remove(t)
    PROVE  Mapped
  <1> USE DEF AloneInv, TypeInv, TypeOK
  <1>1. PICK e \in Entities, k \in Ids : e = req[t].entity /\ k = id[t]
    BY DEF Remove, Shape
  <1>2. /\ pc[t] = "remove" /\ pc'[t] = "done"
        /\ got[t] = <<>> /\ listed[t] = {}
    <2>1. pc[t] = "remove" /\ pc'[t] = "done"
      BY DEF Remove
    <2> QED BY <2>1, Unanswered
  <1>3. StoreView[e][k] = Missing <=> link[e][k] = NoInode
    <2>1. link[e][k] # NoInode => Document(link[e][k]) \in Bodies
      BY StoredDocuments
    <2>2. link[e][k] = NoInode => Document(link[e][k]) = Missing
      BY DEF Document
    <2> QED BY <2>1, <2>2, MissingAssumption DEF StoreView
  <1>4. PICK code : code = IF StoreView[e][k] = Missing THEN 404 ELSE 200
    OBVIOUS
  <1>5. status'[t] = code /\ id'[t] = k /\ got'[t] = <<>> /\ listed'[t] = {}
    BY <1>1, <1>2, <1>3, <1>4 DEF Remove, Target
  <1>6. PICK r : r = Promise!Reply(code, k, Missing, {})
    OBVIOUS
  <1>7. Promise!Answer(t, r)
    <2>1. ReplyOf(t)' = r
      BY <1>2, <1>5, <1>6 DEF ReplyOf, StatusView, Promise!Reply
    <2>2. pc[t] \notin {"write", "done"}
      BY <1>2
    <2> QED BY <2>1, <2>2, Replied
  <1>8. StoreView' = [StoreView EXCEPT ![e][k] = Missing]
    BY <1>1, AloneRemove
  <1>9. Promise!Delete(t, e, k)
    BY <1>4, <1>6, <1>7, <1>8 DEF Promise!Delete
  <1> QED BY <1>9, OperationStep DEF Promise!Operation

LEMMA RespondSimulates ==
    ASSUME OneAtATime, AloneInv, NEW t \in Threads, Respond(t), StoreView' = StoreView
    PROVE  Mapped
  <1> USE DEF AloneInv, TypeInv, TypeOK
  <1>1. /\ pc[t] = "done" /\ pc'[t] = "idle" /\ status[t] \in {200, 400, 404, 500}
        /\ id[t] \in Ids /\ got[t] \in Bodies \cup {<<>>} /\ listed[t] \subseteq Ids
    BY DEF Respond, Alone
  <1>2. ReplyOf(t) \in Promise!Replies
    BY <1>1 DEF ReplyOf, StatusView, Promise!Replies
  <1>3. ReplyView[t] # NoReply
    BY <1>2, NoReplyAssumption DEF ReplyView
  <1>4. ReplyOf(t)' = NoReply
    BY <1>1 DEF ReplyOf
  <1>5. ReplyView' = [ReplyView EXCEPT ![t] = NoReply]
    BY <1>4 DEF OneAtATime, ReplyView
  <1>6. Promise!Take(t)
    BY <1>3, <1>5 DEF Promise!Take
  <1> QED BY <1>6 DEF Mapped, Promise!Next

\* A step of a request keeps the invariant and is a step of the map, or none.
LEMMA AloneStep ==
    ASSUME OneAtATime, AloneInv, [Next]_vars
    PROVE  AloneInv' /\ Mapped
  <1>0. TypeInv'
    BY TypeStep DEF AloneInv
  <1>1. CASE UNCHANGED vars
    <2>1. AloneInv'
      <3>1. LinkInjective' /\ Whole'
        BY <1>1 DEF AloneInv, LinkInjective, Whole, Writers
      <3>2. ASSUME NEW t \in Threads PROVE Alone(t)'
        BY <1>1 DEF AloneInv, Alone, Target, StoredIds
      <3> QED BY <1>0, <3>1, <3>2 DEF AloneInv
    <2>2. StoreView' = StoreView /\ ReplyView' = ReplyView
      BY <1>1 DEF StoreView, Document, Writers, ReplyView, ReplyOf, StatusView
    <2> QED BY <2>1, <2>2 DEF Mapped
  <1>2. ASSUME NEW t \in Threads, Terminate
        PROVE  AloneInv' /\ Mapped
    <2>1. /\ Alone(t)' /\ FilesStay /\ pc[t] = "threw" /\ pc'[t] = "idle"
      BY <1>2, AloneTerminate
    <2>2. StoreView' = StoreView /\ LinkInjective' /\ Whole'
      BY <2>1, StoreStays
    <2> QED BY <1>0, <2>1, <2>2, AloneTogether, StutterStep
  <1>3. ASSUME NEW t \in Threads, NEW r \in Requests,
               Refuse(t, r) \/ StoiThrows(t, r) \/ Begin(t, r)
        PROVE  AloneInv' /\ Mapped
    <2>1. /\ Alone(t)' /\ FilesStay /\ pc[t] = "idle"
          /\ pc'[t] \notin {"read", "pick", "open", "write"}
      BY <1>3, AloneHandle
    <2>2. StoreView' = StoreView /\ LinkInjective' /\ Whole'
      BY <2>1, StoreStays
    <2>3. Mapped
      BY <1>3, <2>2, HandleSimulates
    <2> QED BY <1>0, <2>1, <2>2, <2>3, AloneTogether
  <1>4. ASSUME NEW t \in Threads,
               List(t) \/ Lookup(t) \/ LookupFails(t) \/ ReadMore(t) \/ EnsureDir(t)
                 \/ PickId(t) \/ OpenFails(t) \/ Respond(t)
        PROVE  AloneInv' /\ Mapped
    <2>1. /\ Alone(t)' /\ FilesStay /\ pc[t] # "write" /\ pc'[t] # "write"
      BY <1>4, AloneQuiet
    <2>2. StoreView' = StoreView /\ LinkInjective' /\ Whole'
      BY <2>1, StoreStays
    <2>3. ASSUME Lookup(t) \/ ReadMore(t) \/ EnsureDir(t) \/ PickId(t)
          PROVE  Mapped
      <3>1. pc[t] \notin {"write", "done"} /\ pc'[t] \notin {"write", "done"}
        BY <2>3 DEF Lookup, ReadMore, EnsureDir, PickId, AloneInv, TypeInv, TypeOK
      <3> QED BY <2>2, <3>1, StutterStep
    <2>4. ASSUME OpenFails(t)
          PROVE  Mapped
      <3>1. /\ pc[t] = "open" /\ pc'[t] = "done" /\ status'[t] = 500
            /\ id'[t] \in Ids /\ got'[t] = <<>> /\ listed'[t] = {}
        <4>1. pc[t] = "open" /\ got[t] = <<>> /\ listed[t] = {}
          BY <2>4, Unanswered DEF OpenFails
        <4> QED BY <2>4, <4>1 DEF OpenFails, AloneInv, TypeInv, TypeOK
      <3> QED BY <2>2, <3>1, FailStep
    <2>5. Mapped
      BY <1>4, <2>2, <2>3, <2>4, ListSimulates, LookupFailsSimulates,
         RespondSimulates
    <2> QED BY <1>0, <2>1, <2>2, <2>5, AloneTogether
  <1>5. ASSUME NEW t \in Threads, ReadEnd(t)
        PROVE  AloneInv' /\ Mapped
    <2>1. Alone(t)' /\ FilesStay /\ pc[t] = "read" /\ pc'[t] = "done"
      BY <1>5, AloneReadEnd
    <2>2. StoreView' = StoreView /\ LinkInjective' /\ Whole'
      BY <2>1, StoreStays
    <2>3. Mapped
      BY <1>5, <2>2, ReadEndSimulates
    <2> QED BY <1>0, <2>1, <2>2, <2>3, AloneTogether
  <1>6. ASSUME NEW t \in Threads, Open(t)
        PROVE  AloneInv' /\ Mapped
    BY <1>0, <1>6, AloneOpen, OpenSimulates, AloneTogether
  <1>7. ASSUME NEW t \in Threads, Write(t)
        PROVE  AloneInv' /\ Mapped
    BY <1>0, <1>7, AloneWrite, AloneTogether DEF Mapped
  <1>8. ASSUME NEW t \in Threads, Remove(t)
        PROVE  AloneInv' /\ Mapped
    BY <1>0, <1>8, AloneRemove, RemoveSimulates, AloneTogether
  <1>9. \A t \in Threads : ~ WriteFails(t) /\ ~ FilesystemThrows(t)
    BY DEF OneAtATime, WriteFails, FilesystemThrows
  <1>10. Terminate => \E t \in Threads : TRUE
    BY DEF Terminate, OneAtATime
  <1> QED BY <1>1, <1>2, <1>3, <1>4, <1>5, <1>6, <1>7, <1>8, <1>9, <1>10
          DEF Next, Handle, Step

\* When requests do not overlap, no system call fails and the process is not
\* killed, the store is the atomic map crud_store.h describes, whatever the
\* requests, documents, ids and room on the disk: each of create, retrieve,
\* update, del and list takes effect in one of its system calls
\* (crud_store.cc:12-101) and is answered accordingly.
THEOREM AtomicStoreTheorem == OneAtATime => (Spec => AtomicStore)
  <1>1. Init => Promise!Init
    <2> SUFFICES ASSUME Init PROVE Promise!Init
      OBVIOUS
    <2>1. StoreView = [e \in Entities |-> [k \in Ids |-> Missing]]
      BY DEF Init, StoreView, Document
    <2>2. ReplyView = [t \in Threads |-> NoReply]
      BY DEF Init, ReplyView, ReplyOf
    <2> QED BY <2>1, <2>2 DEF Promise!Init
  <1>2. OneAtATime /\ AloneInv /\ [Next]_vars => AloneInv' /\ [Promise!Next]_(Promise!vars)
    BY AloneStep DEF Mapped, Promise!vars
  <1>3. OneAtATime => OneAtATime'
    BY DEF OneAtATime
  <1> QED BY <1>1, <1>2, <1>3, AloneInit, PTL DEF Spec, AtomicStore, Promise!Spec
=============================================================================

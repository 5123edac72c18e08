------------------------- MODULE MongoReadersProofs -------------------------
(***************************************************************************)
(* What a reader of all pages sorted by the unique key can miss, for any   *)
(* calls and collection.                                                   *)
(***************************************************************************)
EXTENDS MongoAccessProofs

\* The rank of a document in a collection.
RankIn(col, id) == Cardinality({other \in Ids : col[other] # Free /\ col[other] <= col[id]})

\* Of a set of documents, those a reader will not come to: they are on a page it has left,
\* or behind the end it was told.
Behind(col, some, edge, end) ==
  {id \in some : RankIn(col, id) <= edge \/ (end # NotYet /\ RankIn(col, id) > end)}

\* Where the part of the collection ends that c has fetched, and what it fetched.
Edge(c) == IF items[c] = NotYet THEN skip(c) ELSE skip(c) + limit(c)
Fetched(c) == IF items[c] = NotYet THEN seen[c] ELSE seen[c] \cup items[c]

\* The documents c will miss are no more than were written since it began.
MissesFew(c) ==
  /\ stayed[c] \subseteq Present
  /\ Cardinality(Behind(docs, stayed[c] \ Fetched(c), Edge(c), total[c])) <= writes[c]

\* The same of a reader at any stage: it starts at the first page, and at its end what it
\* has not seen it has missed.
ReadsWell(c) ==
  ByKey(c) =>
    /\ pc[c] = "idle" => page[c] = 1
    /\ pc[c] \in {"idle", "listing"} => outcome[c] # "result"
    /\ pc[c] = "listing" => MissesFew(c)
    /\ outcome[c] = "result" => Cardinality(stayed[c] \ seen[c]) <= writes[c]

ReadInv == \A c \in Calls : ReadsWell(c)

-----------------------------------------------------------------------------
(* Ranks.                                                                  *)

LEMMA RankInType ==
  ASSUME NEW col, NEW id
  PROVE  RankIn(col, id) \in Nat
<1>1. {other \in Ids : col[other] # Free /\ col[other] <= col[id]} \in SUBSET Ids
    OBVIOUS
<1> QED BY <1>1, Counted DEF RankIn

LEMMA RankIsRankIn == \A id : rank(id) = RankIn(docs, id)
<1> SUFFICES ASSUME NEW id PROVE rank(id) = RankIn(docs, id)
    OBVIOUS
<1>1. {other \in Present : docs[other] <= docs[id]} = {other \in Ids : docs[other] # Free /\ docs[other] <= docs[id]}
    BY DEF Present
<1> QED BY <1>1 DEF rank, RankIn

-----------------------------------------------------------------------------
(* One write moves at most one document behind a reader.                   *)

LEMMA AtMostOne ==
  ASSUME NEW S \in SUBSET Ids, NEW new \in SUBSET Ids, NEW T \in SUBSET Ids,
         T \subseteq S \cup new, \A a, b \in new : a = b
  PROVE  Cardinality(T) <= Cardinality(S) + 1
<1>1. IsFiniteSet(S) /\ Cardinality(S) \in Nat /\ Cardinality(T) \in Nat
    BY Counted
<1>2. CASE new = {}
    BY <1>1, <1>2, FS_Subset
<1>3. CASE new # {}
  <2>1. PICK a : a \in new
      BY <1>3
  <2>2. T \subseteq S \cup {a}
      BY <2>1
  <2>3. IsFiniteSet(S \cup {a}) /\ Cardinality(S \cup {a}) \in {Cardinality(S), Cardinality(S) + 1}
      BY <1>1, FS_AddElement
  <2>4. Cardinality(T) <= Cardinality(S \cup {a})
      BY <2>2, <2>3, FS_Subset
  <2> QED BY <1>1, <2>3, <2>4
<1> QED BY <1>2, <1>3

\* The write of one document moves another by at most one rank: up when the written one
\* comes before it, down when it goes from there.
Comes(col, x, y) == col[x] # Free /\ col[x] <= col[y]

LEMMA WriteMoves ==
  ASSUME NEW col, NEW then, NEW x \in Ids, NEW y \in Ids, x # y,
         \A id \in Ids \ {x} : then[id] = col[id]
  PROVE  RankIn(then, y) = IF Comes(col, x, y) <=> Comes(then, x, y) THEN RankIn(col, y)
                           ELSE IF Comes(then, x, y) THEN RankIn(col, y) + 1 ELSE RankIn(col, y) - 1
<1> DEFINE S == {other \in Ids : Comes(col, other, y)}
           T == {other \in Ids : Comes(then, other, y)}
           K == S \ {x}
<1>1. Cardinality(S) = RankIn(col, y) /\ Cardinality(T) = RankIn(then, y)
    BY DEF RankIn, Comes
<1>2. S = (IF Comes(col, x, y) THEN K \cup {x} ELSE K) /\ x \notin K
    OBVIOUS
<1>3. T = IF Comes(then, x, y) THEN K \cup {x} ELSE K
    BY DEF Comes
<1>4. IsFiniteSet(K) /\ Cardinality(K) \in Nat
    BY Counted
<1> HIDE DEF K, S, T
<1>5. Cardinality(K \cup {x}) = Cardinality(K) + 1
    BY <1>2, <1>4, FS_AddElement
<1> QED BY <1>1, <1>2, <1>3, <1>4, <1>5

\* A document stays where it is, or the write moves every other one the same way.
LEMMA OneWay ==
  ASSUME NEW col \in [Ids -> Keys \cup {Free}], NEW then \in [Ids -> Keys \cup {Free}],
         NEW x \in Ids, \A id \in Ids \ {x} : then[id] = col[id]
  PROVE  LET others == {id \in Ids \ {x} : col[id] # Free}
         IN \/ \A y \in others : RankIn(then, y) \in {RankIn(col, y), RankIn(col, y) + 1}
            \/ \A y \in others : RankIn(then, y) \in {RankIn(col, y), RankIn(col, y) - 1}
<1> DEFINE others == {id \in Ids \ {x} : col[id] # Free}
<1>1. ASSUME NEW y \in others, NEW z \in others,
             ~Comes(col, x, y), Comes(then, x, y), Comes(col, x, z), ~Comes(then, x, z)
      PROVE  FALSE
  <2>1. col[y] \in Nat /\ col[z] \in Nat /\ then[y] = col[y] /\ then[z] = col[z]
      BY MongoAssumption
  <2>2. col[x] \in Nat /\ then[x] \in Nat
      BY <1>1, MongoAssumption DEF Comes
  <2> QED BY <1>1, <2>1, <2>2, MongoAssumption DEF Comes
<1>2. \/ \A y \in others : Comes(col, x, y) \/ ~Comes(then, x, y)
      \/ \A y \in others : ~Comes(col, x, y) \/ Comes(then, x, y)
    BY <1>1
<1>3. \A y \in others :
        RankIn(then, y) = IF Comes(col, x, y) <=> Comes(then, x, y) THEN RankIn(col, y)
                          ELSE IF Comes(then, x, y) THEN RankIn(col, y) + 1 ELSE RankIn(col, y) - 1
    BY WriteMoves
<1> QED BY <1>2, <1>3

\* So a write moves at most one document behind a reader.
LEMMA OneFallsBehind ==
  ASSUME Inv, NEW then \in [Ids -> Keys \cup {Free}], NEW x \in Ids,
         \A id \in Ids \ {x} : then[id] = docs[id],
         NEW some \in SUBSET Present, NEW edge \in Nat, NEW end, end # NotYet => end \in Nat
  PROVE  Cardinality(Behind(then, some \ {x}, edge, end)) <= Cardinality(Behind(docs, some, edge, end)) + 1
<1> DEFINE S == Behind(docs, some, edge, end)
           T == Behind(then, some \ {x}, edge, end)
           new == T \ S
           others == {id \in Ids \ {x} : docs[id] # Free}
<1>1. S \in SUBSET Ids /\ T \in SUBSET Ids /\ T \subseteq S \cup new
    BY DEF Behind, Present
<1>2. \A y \in new : y \in others /\ y \in Present
    BY DEF Behind, Present
<1>3. \A y \in new : RankIn(docs, y) \in Nat /\ RankIn(then, y) \in Nat
    BY RankInType
<1>4. \A y \in new : /\ RankIn(docs, y) > edge /\ (end # NotYet => RankIn(docs, y) <= end)
                     /\ RankIn(then, y) <= edge \/ (end # NotYet /\ RankIn(then, y) > end)
    BY <1>3 DEF Behind
<1>5. \/ \A y \in others : RankIn(then, y) \in {RankIn(docs, y), RankIn(docs, y) + 1}
      \/ \A y \in others : RankIn(then, y) \in {RankIn(docs, y), RankIn(docs, y) - 1}
    BY OneWay DEF Inv, TypeOK
<1> HIDE DEF new
<1>6. \/ \A y \in new : RankIn(docs, y) = end
      \/ \A y \in new : RankIn(docs, y) = edge + 1
    BY <1>2, <1>3, <1>4, <1>5
<1>7. \A a, b \in new : a = b
    BY <1>2, <1>6, RanksAreDistinct, RankIsRankIn
<1>8. new \in SUBSET Ids
    BY <1>1 DEF new
<1> QED BY <1>1, <1>7, <1>8, AtMostOne

\* An operation writes one document at most.
LEMMA OperateWritesOne ==
  ASSUME Inv, NEW d \in Calls, Operate(d), NEW some \in Ids
  PROVE  \E x \in Ids : \A id \in Ids \ {x} : docs'[id] = docs[id]
<1> DEFINE o == program(d)[step[d] + 1]
<1>1. o \in Operations /\ docs' \in After(o)
    BY OperationType DEF Inv, Operate
<1>2. docs \in [Ids -> Keys \cup {Free}]
    BY DEF Inv, TypeOK
<1> HIDE DEF o
<1>3. \E x \in Ids : \E k : docs' = [docs EXCEPT ![x] = k] \/ docs' = docs
  <2>1. CASE o.op \in {"create", "createMany"}
      BY <1>1, <2>1 DEF After, Present
  <2>2. CASE o.op \in {"update", "updateMany"}
      BY <1>1, <2>2, OperationFields DEF After
  <2>3. CASE o.op \in {"delete", "deleteMany", "find"}
      BY <1>1, <2>3, OperationFields DEF After
  <2> QED BY <1>1, <2>1, <2>2, <2>3, OperationFields
<1> QED BY <1>2, <1>3

-----------------------------------------------------------------------------
(* The invariant.                                                          *)

\* What a reader has is of its type.
LEMMA ReadTypes ==
  ASSUME Inv, PagesFromOne, NEW c \in Calls, pc[c] = "listing"
  PROVE  /\ skip(c) \in Nat /\ limit(c) \in Nat \ {0} /\ Edge(c) \in Nat
         /\ total[c] # NotYet => total[c] \in Nat
         /\ items[c] # NotYet => items[c] \in SUBSET Ids
         /\ stayed[c] \in SUBSET Ids /\ seen[c] \in SUBSET Ids /\ writes[c] \in Nat
<1>1. /\ items[c] \in (SUBSET Ids) \cup {NotYet} /\ total[c] \in Nat \cup {NotYet}
      /\ stayed[c] \in SUBSET Ids /\ seen[c] \in SUBSET Ids /\ writes[c] \in Nat
    BY DEF Inv, TypeOK
<1> QED BY <1>1, SkipType DEF Edge

\* A write by any call.
LEMMA OperateMissesFew ==
  ASSUME Inv, PagesFromOne, NEW d \in Calls, Operate(d), NEW c \in Calls, pc[c] = "listing", MissesFew(c)
  PROVE  MissesFew(c)'
<1> DEFINE changed == {id \in Ids : docs'[id] # docs[id]}
           unseen == stayed[c] \ Fetched(c)
           missed == Behind(docs, unseen, Edge(c), total[c])
<1>1. /\ stayed'[c] = stayed[c] \ changed /\ writes'[c] = writes[c] + Cardinality(changed)
      /\ UNCHANGED <<job, pc, reading>>
    BY DEF Operate, Inv, TypeOK
<1>2. Edge(c)' = Edge(c) /\ Fetched(c)' = Fetched(c) /\ total' = total
    BY <1>1 DEF Edge, Fetched, skip, limit, FindsUsers, reading
<1>3. (stayed[c] \ Fetched(c))' = unseen \ changed
    BY <1>1, <1>2
<1>4. MissesFew(c)' <=> /\ stayed'[c] \subseteq Present'
                        /\ Cardinality(Behind(docs', unseen \ changed, Edge(c), total[c])) <= writes[c] + Cardinality(changed)
    BY <1>1, <1>2, <1>3 DEF MissesFew
<1>5. stayed'[c] \subseteq Present'
    BY <1>1 DEF MissesFew, Present
<1>6. docs' \in [Ids -> Keys \cup {Free}]
    BY OperateKeeps DEF Inv, TypeOK
<1>7. writes[c] \in Nat /\ Cardinality(missed) \in Nat /\ Cardinality(missed) <= writes[c]
  <2>1. missed \in SUBSET Ids
      BY ReadTypes DEF Behind
  <2> QED BY <2>1, ReadTypes, Counted DEF MissesFew
<1>8. CASE changed = {}
  <2>1. docs' = docs
      BY <1>6, <1>8 DEF Inv, TypeOK
  <2>2. unseen \ changed = unseen /\ Cardinality(changed) = 0
      BY <1>8, FS_EmptySet
  <2> QED BY <1>4, <1>5, <1>7, <2>1, <2>2
<1>9. CASE changed # {}
  <2>1. PICK x \in Ids : changed = {x}
    <3>1. PICK x \in Ids : \A id \in Ids \ {x} : docs'[id] = docs[id]
        BY <1>9, OperateWritesOne
    <3> QED BY <1>9, <3>1
  <2>2. Cardinality(changed) = 1
      BY <2>1, FS_Singleton
  <2>3. \A id \in Ids \ {x} : docs'[id] = docs[id]
      BY <2>1
  <2>4. unseen \in SUBSET Present /\ Edge(c) \in Nat /\ (total[c] # NotYet => total[c] \in Nat)
      BY ReadTypes DEF MissesFew
  <2> HIDE DEF changed, unseen
  <2>5. Cardinality(Behind(docs', unseen \ {x}, Edge(c), total[c])) <= Cardinality(missed) + 1
      BY <1>6, <2>3, <2>4, OneFallsBehind
  <2>6. Cardinality(Behind(docs', unseen \ {x}, Edge(c), total[c])) \in Nat
    <3>1. Behind(docs', unseen \ {x}, Edge(c), total[c]) \in SUBSET Ids
        BY <2>4 DEF Behind, Present
    <3> QED BY <3>1, Counted
  <2> HIDE DEF missed
  <2> QED BY <1>4, <1>5, <1>7, <2>1, <2>2, <2>5, <2>6
<1> QED BY <1>8, <1>9

\* What hangs on the reader alone and the collection, which another's step leaves.
LEMMA MissesFewKept ==
  ASSUME NEW c \in Calls, MissesFew(c), UNCHANGED <<docs, job, stayed, writes>>,
         page'[c] = page[c], items'[c] = items[c], total'[c] = total[c], seen'[c] = seen[c]
  PROVE  MissesFew(c)'
<1>1. Present' = Present /\ Edge(c)' = Edge(c) /\ Fetched(c)' = Fetched(c)
    BY DEF Present, Edge, Fetched, skip, limit, FindsUsers
<1> QED BY <1>1 DEF MissesFew

\* A reader that has not fetched less, whose rest is not behind it, misses no more.
LEMMA MissesNoMore ==
  ASSUME Inv, PagesFromOne, NEW c \in Calls, pc[c] = "listing", MissesFew(c),
         UNCHANGED <<docs, stayed, writes>>,
         Behind(docs, stayed[c] \ Fetched(c)', Edge(c)', total'[c])
           \subseteq Behind(docs, stayed[c] \ Fetched(c), Edge(c), total[c])
  PROVE  MissesFew(c)'
<1> DEFINE S == Behind(docs, stayed[c] \ Fetched(c), Edge(c), total[c])
           T == Behind(docs, stayed[c] \ Fetched(c)', Edge(c)', total'[c])
<1>1. S \in SUBSET Ids /\ T \in SUBSET Ids /\ writes[c] \in Nat
    BY ReadTypes DEF Behind
<1>2. Cardinality(T) <= Cardinality(S) /\ Cardinality(T) \in Nat /\ Cardinality(S) \in Nat
    BY <1>1, Counted, FS_Subset
<1>3. Cardinality(T) <= writes[c]
    BY <1>1, <1>2 DEF MissesFew
<1>4. Present' = Present
    BY DEF Present
<1> QED BY <1>3, <1>4 DEF MissesFew

\* The documents of a page are fetched when the reader passes them.
LEMMA FindMissesFew ==
  ASSUME Inv, PagesFromOne, NEW c \in Calls, ByKey(c), FindPage(c), MissesFew(c)
  PROVE  MissesFew(c)'
<1>1. /\ pc[c] = "listing" /\ items[c] = NotYet
      /\ items'[c] = {id \in Present : rank(id) \in (skip(c) + 1)..(skip(c) + limit(c))}
      /\ UNCHANGED <<docs, job, page, total, seen, stayed, writes>>
    BY DEF FindPage, Pages, Inv, TypeOK
<1>2. skip(c) \in Nat /\ limit(c) \in Nat \ {0}
    BY <1>1, SkipType
<1>3. Edge(c) = skip(c) /\ Fetched(c) = seen[c]
    BY <1>1 DEF Edge, Fetched
<1>4. Edge(c)' \in {skip(c), skip(c) + limit(c)} /\ Fetched(c)' \in {seen[c], seen[c] \cup items'[c]}
    BY <1>1 DEF Edge, Fetched, skip, limit, FindsUsers
<1>5. items'[c] # NotYet => Edge(c)' = skip(c) + limit(c) /\ Fetched(c)' = seen[c] \cup items'[c]
    BY <1>1 DEF Edge, Fetched, skip, limit, FindsUsers
<1>6. items'[c] = NotYet => Edge(c)' = skip(c) /\ Fetched(c)' = seen[c]
    BY <1>1 DEF Edge, Fetched, skip, limit, FindsUsers
<1>7. \A id \in stayed[c] : /\ id \in Present
                            /\ RankIn(docs, id) \in Nat
                            /\ rank(id) = RankIn(docs, id)
    BY RankInType, RankIsRankIn DEF MissesFew
<1>8. Behind(docs, stayed[c] \ Fetched(c)', Edge(c)', total'[c])
        \subseteq Behind(docs, stayed[c] \ Fetched(c), Edge(c), total[c])
    BY <1>1, <1>2, <1>3, <1>5, <1>6, <1>7 DEF Behind
<1> QED BY <1>1, <1>8, MissesNoMore

\* At the moment of the count nothing is behind its end.
LEMMA CountMissesFew ==
  ASSUME Inv, PagesFromOne, NEW c \in Calls, CountDocuments(c), MissesFew(c)
  PROVE  MissesFew(c)'
<1>1. /\ pc[c] = "listing" /\ total[c] = NotYet /\ total'[c] = Cardinality(Present)
      /\ UNCHANGED <<docs, job, page, items, seen, stayed, writes>>
    BY DEF CountDocuments, Inv, TypeOK
<1>2. Edge(c)' = Edge(c) /\ Fetched(c)' = Fetched(c)
    BY <1>1 DEF Edge, Fetched, skip, limit, FindsUsers
<1>3. \A id \in stayed[c] : RankIn(docs, id) \in 1..Cardinality(Present)
    BY RanksCover, RankIsRankIn DEF MissesFew
<1>4. Cardinality(Present) \in Nat
    BY Counted DEF Present
<1>5. Behind(docs, stayed[c] \ Fetched(c)', Edge(c)', total'[c])
        \subseteq Behind(docs, stayed[c] \ Fetched(c), Edge(c), total[c])
    BY <1>1, <1>2, <1>3, <1>4 DEF Behind
<1> QED BY <1>1, <1>5, MissesNoMore

\* The next page begins where the last one ended.
LEMMA NextMissesFew ==
  ASSUME Inv, PagesFromOne, NEW c \in Calls, NextPage(c), MissesFew(c), pc'[c] = "listing"
  PROVE  MissesFew(c)'
<1>1. /\ pc[c] = "listing" /\ items[c] # NotYet /\ total[c] # NotYet
      /\ items'[c] = NotYet /\ total'[c] = NotYet /\ page'[c] = page[c] + 1
      /\ seen'[c] = seen[c] \cup items[c]
      /\ UNCHANGED <<docs, job, stayed, writes>>
    BY DEF NextPage, Return, Goto, Inv, TypeOK
<1>2. page[c] \in Nat /\ skip(c) \in Nat /\ limit(c) \in Nat \ {0}
    BY <1>1, SkipType DEF Inv, TypeOK
<1>3. limit(c)' = limit(c)
    BY <1>1 DEF limit, FindsUsers
<1>4. skip(c)' = skip(c) + limit(c)
  <2>1. skip(c)' = (page'[c] - 1) * limit(c)' /\ skip(c) = (page[c] - 1) * limit(c)
      BY DEF skip
  <2>2. page'[c] - 1 = page[c]
      BY <1>1, <1>2
  <2> QED BY <1>2, <1>3, <2>1, <2>2
<1>5. Edge(c)' = Edge(c) /\ Fetched(c)' = Fetched(c)
    BY <1>1, <1>4 DEF Edge, Fetched
<1>6. Behind(docs, stayed[c] \ Fetched(c)', Edge(c)', total'[c])
        \subseteq Behind(docs, stayed[c] \ Fetched(c), Edge(c), total[c])
    BY <1>1, <1>5 DEF Behind
<1> QED BY <1>1, <1>6, MissesNoMore

\* After the last page everything is behind the reader or the end it was told.
LEMMA LastPage ==
  ASSUME Inv, PagesFromOne, NEW c \in Calls, NextPage(c), MissesFew(c), pc'[c] # "listing", ~FindsUsers(c)
  PROVE  Cardinality(stayed'[c] \ seen'[c]) <= writes'[c]
<1>1. /\ pc[c] = "listing" /\ items[c] # NotYet /\ total[c] # NotYet
      /\ page[c] * limit(c) >= total[c]
      /\ seen'[c] = seen[c] \cup items[c] /\ UNCHANGED <<stayed, writes>>
    BY DEF NextPage, Return, Goto, Inv, TypeOK
<1>2. page[c] \in Nat /\ skip(c) \in Nat /\ limit(c) \in Nat \ {0} /\ total[c] \in Nat
    BY <1>1, SkipType, ReadTypes DEF Inv, TypeOK
<1>3. Edge(c) = skip(c) + limit(c) /\ Fetched(c) = seen'[c]
    BY <1>1 DEF Edge, Fetched
<1>4. Edge(c) = page[c] * limit(c)
    BY <1>2, <1>3 DEF skip
<1>5. \A id \in stayed[c] : RankIn(docs, id) \in Nat
    BY RankInType
<1>6. Edge(c) \in Nat /\ Edge(c) >= total[c]
    BY <1>1, <1>2, <1>3, <1>4
<1>7. stayed[c] \ seen'[c] = Behind(docs, stayed[c] \ Fetched(c), Edge(c), total[c])
    BY <1>1, <1>2, <1>3, <1>5, <1>6 DEF Behind
<1> QED BY <1>1, <1>7 DEF MissesFew

\* A reader begins at the first page, behind which nothing is.
LEMMA BeginMissesFew ==
  ASSUME Inv, PagesFromOne, PagesFit, NEW c \in Calls, Begin(c), ByKey(c), page[c] = 1
  PROVE  MissesFew(c)'
<1>1. /\ stayed'[c] = Present /\ items'[c] = NotYet /\ total'[c] = NotYet /\ pc'[c] = "listing"
      /\ UNCHANGED <<docs, job, page, items, total, seen, writes>>
    BY DEF Begin, Goto, reading, ByKey, PagesFit, Inv, TypeOK
<1>2. limit(c)' \in Nat
  <2>1. limit(c)' = (IF job[c].limit = 0 THEN DefaultLimit ELSE job[c].limit)
      BY <1>1 DEF limit, FindsUsers, ByKey
  <2> QED BY <2>1, JobType, JobFields, MongoAssumption DEF Inv, ByKey
<1>3. Edge(c)' = 0
  <2>1. Edge(c)' = (1 - 1) * limit(c)'
      BY <1>1 DEF Edge, skip
  <2> QED BY <1>2, <2>1
<1>4. \A id \in Present : RankIn(docs, id) \in 1..Cardinality(Present)
    BY RanksCover, RankIsRankIn
<1>5. Cardinality(Present) \in Nat
    BY Counted DEF Present
<1>6. Behind(docs, Present \ Fetched(c)', 0, NotYet) = {}
    BY <1>4, <1>5 DEF Behind
<1>7. writes[c] \in Nat
    BY DEF Inv, TypeOK
<1>8. Present' = Present
    BY <1>1 DEF Present
<1> QED BY <1>1, <1>3, <1>6, <1>7, <1>8, FS_EmptySet DEF MissesFew

-----------------------------------------------------------------------------
(* The theorem.                                                            *)

LEMMA OperateReadsWell ==
  ASSUME PageInv, NEW d \in Calls, Operate(d), NEW c \in Calls, ReadsWell(c)
  PROVE  ReadsWell(c)'
<1> DEFINE changed == {id \in Ids : docs'[id] # docs[id]}
<1>1. Inv /\ PagesFromOne
    BY DEF PageInv
<1>2. /\ stayed'[c] = stayed[c] \ changed
      /\ writes'[c] = IF pc[c] = "listing" THEN writes[c] + Cardinality(changed) ELSE writes[c]
      /\ UNCHANGED <<job, pc, outcome, reading>>
    BY <1>1 DEF Operate, Inv, TypeOK
<1>3. Cardinality(changed) \in Nat /\ writes[c] \in Nat
    BY <1>1, Counted DEF Inv, TypeOK
<1>4. /\ Cardinality(stayed[c] \ seen[c]) \in Nat /\ Cardinality(stayed'[c] \ seen[c]) \in Nat
      /\ Cardinality(stayed'[c] \ seen[c]) <= Cardinality(stayed[c] \ seen[c])
  <2>1. stayed[c] \in SUBSET Ids /\ stayed'[c] \subseteq stayed[c]
      BY <1>1, <1>2 DEF Inv, TypeOK
  <2> HIDE DEF changed
  <2>2. stayed[c] \ seen[c] \in SUBSET Ids /\ stayed'[c] \ seen[c] \subseteq stayed[c] \ seen[c]
      BY <2>1
  <2> QED BY <2>2, Counted, FS_Subset
<1>5. ByKey(c) /\ pc[c] = "listing" => MissesFew(c)'
    BY <1>1, OperateMissesFew DEF ReadsWell
<1> HIDE DEF changed
<1> QED BY <1>2, <1>3, <1>4, <1>5 DEF ReadsWell, ByKey, reading

\* A step that leaves the collection, the reader and its end alone.
LEMMA OthersReadWell ==
  ASSUME NEW c \in Calls, ReadsWell(c), UNCHANGED <<docs, job, writes>>,
         pc'[c] = pc[c], outcome'[c] = outcome[c], stayed' = stayed,
         page'[c] = page[c], items'[c] = items[c], total'[c] = total[c], seen'[c] = seen[c]
  PROVE  ReadsWell(c)'
BY MissesFewKept DEF ReadsWell, ByKey

\* A step that ends a call without a page, or is no reader's.
LEMMA EndReadsWell ==
  ASSUME NEW c \in Calls, ReadsWell(c), UNCHANGED <<docs, job, writes, stayed, reading>>,
         pc'[c] \notin {"idle", "listing"}, outcome'[c] = "result" => outcome[c] = "result" \/ ~ByKey(c)
  PROVE  ReadsWell(c)'
BY DEF ReadsWell, ByKey, reading

LEMMA StepReadsWell == PageInv /\ ReadInv /\ [Next]_vars => ReadInv'
<1> SUFFICES ASSUME PageInv, ReadInv, [Next]_vars, NEW c \in Calls PROVE ReadsWell(c)'
    BY DEF ReadInv
<1>0. ReadsWell(c) /\ Inv /\ PagesFromOne /\ PagesFit
    BY DEF ReadInv, PageInv
<1>1. ASSUME NEW d \in Calls, Operate(d) PROVE ReadsWell(c)'
    BY <1>0, <1>1, OperateReadsWell
<1>2. ASSUME NEW d \in Calls, FindPage(d) \/ CountDocuments(d) \/ NextPage(d) PROVE ReadsWell(c)'
  <2>1. CASE d # c
    <3>1. /\ UNCHANGED <<docs, job, writes, stayed>>
          /\ pc'[c] = pc[c] /\ outcome'[c] = outcome[c]
          /\ page'[c] = page[c] /\ items'[c] = items[c] /\ total'[c] = total[c] /\ seen'[c] = seen[c]
        BY <1>0, <1>2, <2>1 DEF FindPage, CountDocuments, NextPage, Return, Goto, Inv, TypeOK
    <3> QED BY <1>0, <3>1, OthersReadWell
  <2>2. CASE d = c /\ (FindPage(c) \/ CountDocuments(c))
    <3>1. pc[c] = "listing" /\ UNCHANGED <<job, pc, outcome>>
        BY <2>2 DEF FindPage, CountDocuments
    <3>2. ByKey(c) => MissesFew(c)'
        BY <1>0, <2>2, <3>1, FindMissesFew, CountMissesFew DEF ReadsWell
    <3> QED BY <1>0, <3>1, <3>2 DEF ReadsWell, ByKey
  <2>3. CASE d = c /\ NextPage(c)
    <3>1. pc[c] = "listing" /\ job' = job /\ pc'[c] \in {"listing", "done"} /\ (pc'[c] = "listing" => outcome' = outcome)
        BY <1>0, <2>3 DEF NextPage, Return, Goto, Inv, TypeOK
    <3>2. CASE pc'[c] = "listing"
        BY <1>0, <2>3, <3>1, <3>2, NextMissesFew DEF ReadsWell, ByKey
    <3>3. CASE pc'[c] = "done"
      <4>1. ByKey(c) => Cardinality(stayed'[c] \ seen'[c]) <= writes'[c]
          BY <1>0, <2>3, <3>1, <3>3, LastPage DEF ReadsWell, ByKey, FindsUsers
      <4> QED BY <3>1, <3>3, <4>1 DEF ReadsWell, ByKey
    <3> QED BY <3>1, <3>2, <3>3
  <2> QED BY <1>2, <2>1, <2>2, <2>3
<1>3. ASSUME NEW d \in Calls, Begin(d) PROVE ReadsWell(c)'
  <2>1. UNCHANGED <<docs, job, writes, outcome, reading>>
      BY <1>3 DEF Begin
  <2>2. CASE d # c
    <3>1. pc'[c] = pc[c] /\ stayed'[c] = stayed[c]
        BY <1>0, <1>3, <2>2 DEF Begin, Goto, Inv, TypeOK
    <3>2. MissesFew(c) => MissesFew(c)'
      <4>1. Present' = Present /\ Edge(c)' = Edge(c) /\ Fetched(c)' = Fetched(c)
          BY <2>1 DEF Present, Edge, Fetched, skip, limit, FindsUsers, reading
      <4> QED BY <2>1, <3>1, <4>1 DEF MissesFew, reading
    <3> QED BY <1>0, <2>1, <3>1, <3>2 DEF ReadsWell, ByKey, reading
  <2>3. CASE d = c
    <3>1. ByKey(c) => MissesFew(c)' /\ pc'[c] = "listing" /\ outcome[c] # "result"
        BY <1>0, <1>3, <2>3, BeginMissesFew DEF ReadsWell, ByKey, Begin, Goto, Inv, TypeOK
    <3> QED BY <2>1, <3>1 DEF ReadsWell, ByKey
  <2> QED BY <2>2, <2>3
<1>4. ASSUME NEW d \in Calls, StartSession(d) \/ OperationFails(d) \/ CallbackDone(d) \/ CommitTransaction(d)
                                \/ AbortTransaction(d) \/ EndSession(d) \/ PageFails(d)
      PROVE  ReadsWell(c)'
  <2>1. UNCHANGED <<docs, job, writes, stayed, reading>>
      BY <1>4 DEF StartSession, OperationFails, Throw, CallbackDone, CommitTransaction, AbortTransaction,
         EndSession, PageFails
  <2>2. \/ pc'[c] = pc[c] /\ outcome'[c] = outcome[c]
        \/ d = c /\ pc'[c] \notin {"idle", "listing"}
      BY <1>0, <1>4 DEF StartSession, OperationFails, Throw, CallbackDone, CommitTransaction, AbortTransaction,
         EndSession, PageFails, Return, Goto, Inv, TypeOK
  <2>3. d = c => (outcome'[c] = "result" => outcome[c] = "result" \/ ~ByKey(c))
      BY <1>0, <1>4 DEF StartSession, OperationFails, FromDuplicate, Throw, CallbackDone, CommitTransaction,
         AbortTransaction, EndSession, PageFails, Return, Goto, Inv, TypeOK, AtItsSteps, ByKey
  <2>4. CASE pc'[c] = pc[c] /\ outcome'[c] = outcome[c]
      BY <1>0, <2>1, <2>4, OthersReadWell DEF reading
  <2> QED BY <1>0, <2>1, <2>2, <2>3, <2>4, EndReadsWell
<1>5. CASE Crash
  <2>1. /\ UNCHANGED <<docs, job, writes, stayed, reading, outcome>>
        /\ pc'[c] = pc[c] \/ pc'[c] = "lost"
      BY <1>5 DEF Crash
  <2> QED BY <1>0, <2>1, OthersReadWell, EndReadsWell DEF reading
<1>6. CASE UNCHANGED vars
    BY <1>0, <1>6, OthersReadWell DEF vars, reading
<1> QED BY <1>1, <1>2, <1>3, <1>4, <1>5, <1>6 DEF Next, Continue, Rest

\* A reader of all pages sorted by the unique key misses no more of the documents that were there all the time
\* than were written meanwhile, however the writes of any calls fall between its pages
\* (base.repository.ts:123-160).
THEOREM FewAreMissed == Spec => []MissedOnlyByWrites
<1>1. Init => ReadInv
    BY DEF Init, ReadInv, ReadsWell
<1>2. ReadInv => MissedOnlyByWrites
    BY DEF ReadInv, ReadsWell, MissedOnlyByWrites
<1> QED BY <1>1, <1>2, StepReadsWell, PagesAlwaysFit, PTL DEF Spec

=============================================================================

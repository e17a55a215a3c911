--------------------------- MODULE UidStoreProofs ---------------------------
(***************************************************************************)
(* Proofs about UidStore: for any set of ids, any hash and any spread of   *)
(* the ids over files, a file holds at most one record of an id, a cached  *)
(* entry says what flash says, and uid_status() answers with what was last *)
(* stored, outside the three cases its property names.                     *)
(*                                                                         *)
(* The invariant relates the three places an id lives in: what the caller  *)
(* stored (truth), the file and the slot.  FlashIsTruth is what makes an   *)
(* eviction harmless; FreedIsMissed says how a slot comes to point to      *)
(* freed memory.                                                           *)
(***************************************************************************)
EXTENDS UidStore, SequenceTheorems, TLAPS

\* An id whose last write to flash went well is in its file as it was stored.
FlashIsTruth ==
    \A i \in Ids \ doubt :
        truth[i] = IF Stored(i) THEN read_entry_from_file(i).val ELSE NoEntry

FreedIsMissed == \A s \in Slots : cache[s] = Freed => s \in missed

UidInv ==
    /\ UidTypeOK /\ OneRecord /\ CacheMatchesFlash /\ FlashIsTruth /\ FreedIsMissed
    /\ AnswersRight

-----------------------------------------------------------------------------
(* Records and places *)

\* The markers of the table and of the files are no ids and no records.
LEMMA Distinct ==
    /\ \A i \in Ids : i # Hole.id /\ i # Empty.id /\ i # Freed.id /\ i # Silent.id
    /\ \A r \in UidRecords : r.id \in Ids /\ r # Freed /\ r # Empty
    /\ \A i \in Ids : \A v \in Statuses :
         /\ Record(i, v) \in UidRecords /\ Record(i, v).id = i /\ Record(i, v).val = v
    /\ Empty # Freed
<1>1. \A i \in Ids : i # "zero" /\ i # "empty" /\ i # "freed" /\ i # "none"
  BY UidAssumption
<1>2. \A i \in Ids : i # Hole.id /\ i # Empty.id /\ i # Freed.id /\ i # Silent.id
  BY <1>1 DEF Hole, Empty, Freed, Silent
<1>3. \A i \in Ids : \A v \in Statuses :
        /\ Record(i, v) \in UidRecords /\ Record(i, v).id = i /\ Record(i, v).val = v
  BY DEF UidRecords, Record
<1>4. \A r \in UidRecords : r.id \in Ids
  BY DEF UidRecords, Record
<1>5. \A r \in UidRecords : r # Freed /\ r # Empty
  BY <1>2, <1>4
<1>6. Empty # Freed
  BY DEF Empty, Freed
<1> QED BY <1>2, <1>3, <1>4, <1>5, <1>6

\* Every id has a slot and a file.
LEMMA Homes == \A i \in Ids : hash_uid[i] \in Slots /\ get_filename[i] \in Files
BY DEF Slots, Files

\* With one record per id the search finds it wherever it is.
LEMMA PlaceIs ==
    ASSUME OneRecord, NEW i \in Ids, NEW n \in Places(i)
    PROVE  /\ Stored(i) /\ Place(i) = n
           /\ read_entry_from_file(i) = files[get_filename[i]][n]
<1>1. Stored(i)
  BY DEF Stored
<1>2. \A m \in Places(i) : m = n
  BY DEF OneRecord
<1>3. n \in Nat
  BY DEF Places
<1>4. \A m \in Places(i) : n <= m
  BY <1>2, <1>3
<1>5. Place(i) \in Places(i)
  BY <1>4 DEF Place
<1>6. Place(i) = n
  BY <1>2, <1>5
<1> QED BY <1>1, <1>6 DEF read_entry_from_file

\* The search of a stored id ends at its record.
LEMMA PlaceIn ==
    ASSUME OneRecord, NEW i \in Ids, Stored(i)
    PROVE  /\ Place(i) \in Places(i)
           /\ Place(i) \in 1..Len(files[get_filename[i]])
           /\ files[get_filename[i]][Place(i)].id = i
<1>1. PICK n \in Places(i) : TRUE
  BY DEF Stored
<1>2. Place(i) = n
  BY <1>1, PlaceIs
<1> QED BY <1>2 DEF Places

\* Writing over the record of an id, or zeroing it, touches no other id.
LEMMA OverwriteIs ==
    ASSUME FilesTyped, OneRecord, NEW i \in Ids, Stored(i),
           NEW r \in UidRecords \union {Hole}, r.id = i \/ r = Hole,
           files' = [files EXCEPT ![get_filename[i]][Place(i)] = r]
    PROVE  /\ FilesTyped'
           /\ \A j \in Ids \ {i} :
                /\ Places(j)' = Places(j)
                /\ \A n \in Places(j) :
                     files'[get_filename[j]][n] = files[get_filename[j]][n]
           /\ Places(i)' = IF r.id = i THEN {Place(i)} ELSE {}
           /\ files'[get_filename[i]][Place(i)] = r
<1> DEFINE f == get_filename[i]
           p == Place(i)
           R == UidRecords \union {Hole}
<1>0. f \in Files /\ files \in [Files -> Seq(R)] /\ files[f] \in Seq(R)
  BY Homes DEF FilesTyped
<1>1. p \in Places(i) /\ p \in 1..Len(files[f]) /\ files[f][p].id = i
  BY PlaceIn
<1>2. \A m \in Places(i) : m = p
  BY <1>1 DEF OneRecord
<1> HIDE DEF p, R
<1>3. files' = [files EXCEPT ![f] = [files[f] EXCEPT ![p] = r]]
  BY <1>0 DEF p
<1> DEFINE g == [files[f] EXCEPT ![p] = r]
<1>4. /\ g \in Seq(R) /\ Len(g) = Len(files[f])
      /\ \A n \in 1..Len(files[f]) : g[n] = IF n = p THEN r ELSE files[f][n]
  <2>1. r \in R
    BY DEF R
  <2>2. g \in Seq(R) /\ Len(g) = Len(files[f])
    BY <1>0, <1>1, <2>1, ExceptSeq
  <2>3. \A n \in 1..Len(files[f]) : g[n] = IF n = p THEN r ELSE files[f][n]
    BY <1>0
  <2> QED BY <2>2, <2>3
<1> HIDE DEF g
<1>5. /\ files' \in [Files -> Seq(R)] /\ files'[f] = g
      /\ \A h \in Files : h # f => files'[h] = files[h]
  BY <1>0, <1>3, <1>4 DEF g
<1>6. FilesTyped'
  BY <1>5 DEF FilesTyped, R
<1>7. ASSUME NEW j \in Ids \ {i}
      PROVE  /\ Places(j)' = Places(j)
             /\ \A n \in Places(j) :
                  files'[get_filename[j]][n] = files[get_filename[j]][n]
  <2>0. get_filename[j] \in Files
    BY Homes
  <2>1. CASE get_filename[j] # f
    BY <1>5, <2>0, <2>1 DEF Places
  <2>2. CASE get_filename[j] = f
    <3>1. r.id # j
      BY Distinct
    <3>2. files[f][p].id # j
      BY <1>1
    <3>3. \A n \in 1..Len(files[f]) : (g[n].id = j) <=> (files[f][n].id = j)
      BY <1>4, <3>1, <3>2
    <3>4. \A n \in 1..Len(files[f]) : files[f][n].id = j => g[n] = files[f][n]
      BY <1>4, <3>2
    <3>5. Places(j)' = {n \in 1..Len(g) : g[n].id = j}
      BY <1>5, <2>2 DEF Places
    <3>6. Places(j) = {n \in 1..Len(files[f]) : files[f][n].id = j}
      BY <2>2 DEF Places
    <3> HIDE DEF f
    <3> QED BY <1>4, <1>5, <2>2, <3>3, <3>4, <3>5, <3>6
  <2> QED BY <2>1, <2>2
<1>8. Places(i)' = {n \in 1..Len(g) : g[n].id = i}
  BY <1>5 DEF Places
<1>9. \A n \in 1..Len(files[f]) : n # p => files[f][n].id # i
  BY <1>2 DEF Places
<1>10. Places(i)' = IF r.id = i THEN {p} ELSE {}
  BY <1>1, <1>4, <1>8, <1>9
<1>11. files'[f][p] = r
  BY <1>1, <1>4, <1>5
<1> QED BY <1>6, <1>7, <1>10, <1>11 DEF p

\* A record added at the end of a file.
LEMMA AppendIs ==
    ASSUME FilesTyped, NEW i \in Ids, ~Stored(i), NEW r \in UidRecords, r.id = i,
           files' = [files EXCEPT ![get_filename[i]] = Append(@, r)]
    PROVE  /\ FilesTyped'
           /\ \A j \in Ids \ {i} :
                /\ Places(j)' = Places(j)
                /\ \A n \in Places(j) :
                     files'[get_filename[j]][n] = files[get_filename[j]][n]
           /\ Places(i)' = {Len(files[get_filename[i]]) + 1}
           /\ files'[get_filename[i]][Len(files[get_filename[i]]) + 1] = r
<1> DEFINE f == get_filename[i]
           R == UidRecords \union {Hole}
           g == Append(files[f], r)
           l == Len(files[f])
<1>0. f \in Files /\ files \in [Files -> Seq(R)] /\ files[f] \in Seq(R) /\ r \in R
  BY Homes DEF FilesTyped
<1> HIDE DEF R
<1>1. /\ g \in Seq(R) /\ l \in Nat /\ Len(g) = l + 1 /\ g[l + 1] = r
      /\ \A n \in 1..l : g[n] = files[f][n]
  BY <1>0, AppendProperties, LenProperties
<1>2. files' = [files EXCEPT ![f] = g]
  BY <1>0
<1> HIDE DEF g
<1>3. /\ files' \in [Files -> Seq(R)] /\ files'[f] = g
      /\ \A h \in Files : h # f => files'[h] = files[h]
  BY <1>0, <1>1, <1>2
<1>4. FilesTyped'
  BY <1>3 DEF FilesTyped, R
<1>5. ASSUME NEW j \in Ids \ {i}
      PROVE  /\ Places(j)' = Places(j)
             /\ \A n \in Places(j) :
                  files'[get_filename[j]][n] = files[get_filename[j]][n]
  <2>0. get_filename[j] \in Files
    BY Homes
  <2>1. CASE get_filename[j] # f
    BY <1>3, <2>0, <2>1 DEF Places
  <2>2. CASE get_filename[j] = f
    <3>1. r.id # j
      OBVIOUS
    <3>2. Places(j)' = {n \in 1..Len(g) : g[n].id = j}
      BY <1>3, <2>2 DEF Places
    <3>3. Places(j) = {n \in 1..l : files[f][n].id = j}
      BY <2>2 DEF Places
    <3> HIDE DEF f, l
    <3>4. Places(j)' = Places(j)
      BY <1>1, <3>1, <3>2, <3>3
    <3> QED BY <1>1, <1>3, <2>2, <3>3, <3>4
  <2> QED BY <2>1, <2>2
<1>6. Places(i)' = {n \in 1..Len(g) : g[n].id = i}
  BY <1>3 DEF Places
<1>7. \A n \in 1..l : files[f][n].id # i
  BY DEF Stored, Places
<1> HIDE DEF l
<1>8. Places(i)' = {l + 1}
  BY <1>1, <1>6, <1>7
<1>9. files'[f][l + 1] = r
  BY <1>1, <1>3
<1> QED BY <1>4, <1>5, <1>8, <1>9 DEF l

\* What a change to the record of one id means for reading every id.
LEMMA ChangeIs ==
    ASSUME OneRecord, NEW i \in Ids, NEW P,
           \A j \in Ids \ {i} :
                /\ Places(j)' = Places(j)
                /\ \A n \in Places(j) :
                     files'[get_filename[j]][n] = files[get_filename[j]][n],
           Places(i)' = P, P = {} \/ \E n \in Nat : P = {n}
    PROVE  /\ OneRecord'
           /\ \A j \in Ids \ {i} :
                /\ Stored(j)' <=> Stored(j)
                /\ Stored(j) => read_entry_from_file(j)' = read_entry_from_file(j)
           /\ Stored(i)' <=> P # {}
           /\ \A n \in P : read_entry_from_file(i)' = files'[get_filename[i]][n]
<1>1. OneRecord'
  <2>1. \A m, n \in Places(i)' : m = n
    OBVIOUS
  <2>2. \A j \in Ids \ {i} : \A m, n \in Places(j)' : m = n
    BY DEF OneRecord
  <2>3. \A j \in Ids : \A m, n \in Places(j)' : m = n
    BY <2>1, <2>2
  <2> QED BY <2>3 DEF OneRecord
<1>2. ASSUME NEW j \in Ids \ {i}
      PROVE  /\ Stored(j)' <=> Stored(j)
             /\ Stored(j) => read_entry_from_file(j)' = read_entry_from_file(j)
  <2>1. Places(j)' = Places(j)
    OBVIOUS
  <2>2. Stored(j)' <=> Stored(j)
    BY <2>1 DEF Stored
  <2>3. Place(j)' = Place(j)
    BY <2>1 DEF Place
  <2>4. Stored(j) => Place(j) \in Places(j)
    BY PlaceIn
  <2>5. Stored(j) => files'[get_filename[j]][Place(j)] = files[get_filename[j]][Place(j)]
    BY <2>4
  <2>6. read_entry_from_file(j)' = files'[get_filename[j]][Place(j)]
    BY <2>3 DEF read_entry_from_file
  <2> QED BY <2>2, <2>5, <2>6 DEF read_entry_from_file
<1>3. Stored(i)' <=> P # {}
  BY DEF Stored
<1>4. ASSUME NEW n \in P PROVE read_entry_from_file(i)' = files'[get_filename[i]][n]
  <2>1. P = {n} /\ n \in Nat
    OBVIOUS
  <2>2. Place(i)' = CHOOSE k \in P : \A m \in P : k <= m
    BY DEF Place
  <2>3. \A m \in P : n <= m
    BY <2>1
  <2>4. (CHOOSE k \in P : \A m \in P : k <= m) \in P
    BY <2>3
  <2>5. Place(i)' = n
    BY <2>1, <2>2, <2>4
  <2> QED BY <2>5 DEF read_entry_from_file
<1> QED BY <1>1, <1>2, <1>3, <1>4

\* save_entry_into_file() stores the record and changes no other id.
LEMMA SaveIs ==
    ASSUME FilesTyped, OneRecord, NEW i \in Ids, NEW v \in Statuses,
           files' = save_entry_into_file(Record(i, v))
    PROVE  /\ FilesTyped' /\ OneRecord'
           /\ \A j \in Ids \ {i} :
                /\ Stored(j)' <=> Stored(j)
                /\ Stored(j) => read_entry_from_file(j)' = read_entry_from_file(j)
           /\ Stored(i)' /\ read_entry_from_file(i)' = Record(i, v)
<1> DEFINE r == Record(i, v)
<1>1. r \in UidRecords /\ r.id = i
  BY Distinct
<1> HIDE DEF r
<1>2. CASE Stored(i)
  <2>1. files' = [files EXCEPT ![get_filename[i]][Place(i)] = r]
    BY <1>1, <1>2 DEF save_entry_into_file, r
  <2>2. /\ FilesTyped'
        /\ \A j \in Ids \ {i} :
             /\ Places(j)' = Places(j)
             /\ \A n \in Places(j) :
                  files'[get_filename[j]][n] = files[get_filename[j]][n]
        /\ Places(i)' = {Place(i)}
        /\ files'[get_filename[i]][Place(i)] = r
    BY <1>1, <1>2, <2>1, OverwriteIs
  <2>3. Place(i) \in Nat
    BY <1>2, PlaceIn
  <2> QED BY <2>2, <2>3, ChangeIs DEF r
<1>3. CASE ~Stored(i)
  <2>1. files' = [files EXCEPT ![get_filename[i]] = Append(@, r)]
    BY <1>1, <1>3 DEF save_entry_into_file, r
  <2> DEFINE q == Len(files[get_filename[i]]) + 1
  <2>2. /\ FilesTyped'
        /\ \A j \in Ids \ {i} :
             /\ Places(j)' = Places(j)
             /\ \A n \in Places(j) :
                  files'[get_filename[j]][n] = files[get_filename[j]][n]
        /\ Places(i)' = {q}
        /\ files'[get_filename[i]][q] = r
    BY <1>1, <1>3, <2>1, AppendIs
  <2>3. q \in Nat
    <3>1. files[get_filename[i]] \in Seq(UidRecords \union {Hole})
      BY Homes DEF FilesTyped
    <3> QED BY <3>1, LenProperties
  <2> HIDE DEF q
  <2> QED BY <2>2, <2>3, ChangeIs DEF r
<1> QED BY <1>2, <1>3

\* remove_entry_from_file() removes the record and changes no other id.
LEMMA RemoveIs ==
    ASSUME FilesTyped, OneRecord, NEW i \in Ids, Stored(i),
           files' = [files EXCEPT ![get_filename[i]][Place(i)] = Hole]
    PROVE  /\ FilesTyped' /\ OneRecord' /\ ~Stored(i)'
           /\ \A j \in Ids \ {i} :
                /\ Stored(j)' <=> Stored(j)
                /\ Stored(j) => read_entry_from_file(j)' = read_entry_from_file(j)
<1>1. Hole \in UidRecords \union {Hole} /\ Hole.id # i
  BY Distinct
<1>2. /\ FilesTyped'
      /\ \A j \in Ids \ {i} :
           /\ Places(j)' = Places(j)
           /\ \A n \in Places(j) :
                files'[get_filename[j]][n] = files[get_filename[j]][n]
      /\ Places(i)' = {}
  BY <1>1, OverwriteIs
<1> QED BY <1>2, ChangeIs

-----------------------------------------------------------------------------
(* Each step keeps UidInv *)

\* A write or a removal of one id.
LEMMA OneIdKeeps ==
    ASSUME UidInv, NEW i \in Ids, NEW w \in Statuses \union {NoEntry},
           FilesTyped', OneRecord',
           \A j \in Ids \ {i} :
                /\ Stored(j)' <=> Stored(j)
                /\ Stored(j) => read_entry_from_file(j)' = read_entry_from_file(j),
           truth' = [truth EXCEPT ![i] = w],
           doubt' = doubt \union {i} \/ doubt' = doubt \ {i},
           i \notin doubt' =>
                w = IF Stored(i)' THEN read_entry_from_file(i)'.val ELSE NoEntry,
           NEW c \in UidRecords \union {Empty, Freed},
           cache' = [cache EXCEPT ![hash_uid[i]] = c],
           c = cache[hash_uid[i]] \/ c = Empty \/ c.id = i,
           c.id = i /\ i \notin doubt' => Stored(i)' /\ read_entry_from_file(i)' = c,
           missed' = missed, answer' = Silent
    PROVE  UidInv'
<1>0. /\ cache \in [Slots -> UidRecords \union {Empty, Freed}] /\ hash_uid[i] \in Slots
      /\ truth \in [Ids -> Statuses \union {NoEntry}]
  BY Homes DEF UidInv, UidTypeOK
<1>1. /\ cache'[hash_uid[i]] = c
      /\ \A s \in Slots : s # hash_uid[i] => cache'[s] = cache[s]
  BY <1>0
<1>2. UidTypeOK'
  BY <1>0 DEF UidTypeOK
<1>3. \A j \in Ids \ {i} : j \notin doubt' => j \notin doubt
  OBVIOUS
<1>4. CacheMatchesFlash'
  <2>1. SUFFICES ASSUME NEW j \in Ids, (cache[hash_uid[j]].id = j)', j \notin doubt'
                 PROVE  Stored(j)' /\ read_entry_from_file(j)' = cache'[hash_uid[j]]
    BY DEF CacheMatchesFlash
  <2>2. CASE j = i
    BY <1>1, <2>1, <2>2
  <2>3. CASE j # i
    <3>1. cache'[hash_uid[j]] = cache[hash_uid[j]]
      <4>1. CASE hash_uid[j] # hash_uid[i]
        BY <1>1, <4>1, Homes
      <4>2. CASE hash_uid[j] = hash_uid[i]
        BY <1>1, <2>1, <2>3, <4>2, Distinct
      <4> QED BY <4>1, <4>2
    <3>2. Stored(j) /\ read_entry_from_file(j) = cache[hash_uid[j]]
      BY <1>3, <2>1, <2>3, <3>1 DEF UidInv, CacheMatchesFlash
    <3> QED BY <2>3, <3>1, <3>2
  <2> QED BY <2>2, <2>3
<1>5. FlashIsTruth'
  <2>1. SUFFICES ASSUME NEW j \in Ids \ doubt'
                 PROVE  truth'[j] = IF Stored(j)' THEN read_entry_from_file(j)'.val ELSE NoEntry
    BY DEF FlashIsTruth
  <2>2. CASE j = i
    BY <1>0, <2>2
  <2>3. CASE j # i
    <3>1. truth'[j] = truth[j]
      BY <1>0, <2>3
    <3>2. truth[j] = IF Stored(j) THEN read_entry_from_file(j).val ELSE NoEntry
      BY <1>3, <2>3 DEF UidInv, FlashIsTruth
    <3> QED BY <2>3, <3>1, <3>2
  <2> QED BY <2>2, <2>3
<1>6. FreedIsMissed'
  <2>1. SUFFICES ASSUME NEW s \in Slots, cache'[s] = Freed PROVE s \in missed
    BY DEF FreedIsMissed
  <2>2. cache[s] = Freed
    <3>1. CASE s = hash_uid[i]
      BY <1>1, <2>1, <3>1, Distinct
    <3>2. CASE s # hash_uid[i]
      BY <1>1, <2>1, <3>2
    <3> QED BY <3>1, <3>2
  <2> QED BY <2>2 DEF UidInv, FreedIsMissed
<1>7. AnswersRight'
  <2>1. answer'.id \notin Ids
    BY Distinct
  <2> QED BY <2>1 DEF AnswersRight
<1> QED BY <1>2, <1>4, <1>5, <1>6, <1>7 DEF UidInv

\* Nothing in flash changes.
LEMMA SameFiles ==
    ASSUME files' = files
    PROVE  /\ FilesTyped => FilesTyped'
           /\ OneRecord => OneRecord'
           /\ \A j \in Ids : /\ Stored(j)' <=> Stored(j)
                             /\ read_entry_from_file(j)' = read_entry_from_file(j)
<1>1. FilesTyped => FilesTyped'
  BY DEF FilesTyped
<1>2. ASSUME NEW j \in Ids
      PROVE  /\ Places(j)' = Places(j)
             /\ Stored(j)' <=> Stored(j)
             /\ read_entry_from_file(j)' = read_entry_from_file(j)
  <2>1. Places(j)' = Places(j)
    BY DEF Places
  <2>2. Place(j)' = Place(j)
    BY <2>1 DEF Place
  <2>3. Stored(j)' <=> Stored(j)
    BY <2>1 DEF Stored
  <2> QED BY <2>1, <2>2, <2>3 DEF read_entry_from_file
<1>3. OneRecord => OneRecord'
  BY <1>2 DEF OneRecord
<1> QED BY <1>1, <1>2, <1>3

\* uid_update(), saved or not.
LEMMA UpdateKeeps ==
    ASSUME UidInv, NEW i \in Ids, NEW v \in Statuses, uid_update(i, v)
    PROVE  UidInv'
<1> DEFINE c == IF cache[hash_uid[i]] = Freed THEN Freed ELSE Record(i, v)
<1>0. FilesTyped /\ OneRecord /\ cache \in [Slots -> UidRecords \union {Empty, Freed}]
  BY DEF UidInv, UidTypeOK
<1>1. /\ cache' = [cache EXCEPT ![hash_uid[i]] = c] /\ truth' = [truth EXCEPT ![i] = v]
      /\ missed' = missed /\ answer' = Silent
  BY <1>0, Homes DEF uid_update
<1>2. /\ c \in UidRecords \union {Empty, Freed}
      /\ c = cache[hash_uid[i]] \/ c.id = i
      /\ c.id = i => c = Record(i, v)
  BY Distinct
<1> HIDE DEF c
<1>3. CASE UpdateSaved(i, v)
  <2>1. files' = save_entry_into_file(Record(i, v)) /\ doubt' = doubt \ {i}
    BY <1>3 DEF UpdateSaved
  <2>2. /\ FilesTyped' /\ OneRecord'
        /\ \A j \in Ids \ {i} :
             /\ Stored(j)' <=> Stored(j)
             /\ Stored(j) => read_entry_from_file(j)' = read_entry_from_file(j)
        /\ Stored(i)' /\ read_entry_from_file(i)' = Record(i, v)
    BY <1>0, <2>1, SaveIs
  <2>3. v = IF Stored(i)' THEN read_entry_from_file(i)'.val ELSE NoEntry
    BY <2>2, Distinct
  <2>4. c.id = i => Stored(i)' /\ read_entry_from_file(i)' = c
    BY <1>2, <2>2
  <2> QED BY <1>1, <1>2, <2>1, <2>2, <2>3, <2>4, OneIdKeeps
<1>4. CASE UpdateFails(i)
  <2>1. files' = files /\ doubt' = doubt \union {i}
    BY <1>4 DEF UpdateFails
  <2>2. /\ FilesTyped' /\ OneRecord'
        /\ \A j \in Ids \ {i} :
             /\ Stored(j)' <=> Stored(j)
             /\ Stored(j) => read_entry_from_file(j)' = read_entry_from_file(j)
    BY <1>0, <2>1, SameFiles
  <2>3. i \in doubt'
    BY <2>1
  <2> QED BY <1>1, <1>2, <2>1, <2>2, <2>3, OneIdKeeps
<1> QED BY <1>3, <1>4 DEF uid_update

\* uid_delete(): removed, not removed, or not there.
LEMMA DeleteKeeps ==
    ASSUME UidInv, NEW i \in Ids, uid_delete(i)
    PROVE  UidInv'
<1>0. /\ FilesTyped /\ OneRecord /\ cache \in [Slots -> UidRecords \union {Empty, Freed}]
      /\ hash_uid[i] \in Slots
  BY Homes DEF UidInv, UidTypeOK
<1>1. /\ truth' = [truth EXCEPT ![i] = NoEntry] /\ missed' = missed /\ answer' = Silent
      /\ NoEntry \in Statuses \union {NoEntry}
  BY DEF uid_delete
<1>2. PICK c \in UidRecords \union {Empty, Freed} :
        /\ cache' = [cache EXCEPT ![hash_uid[i]] = c]
        /\ c = cache[hash_uid[i]] \/ c = Empty
        /\ c.id # i
  <2>1. PICK r \in Contents(hash_uid[i]) :
          cache' = IF r.id = i THEN [cache EXCEPT ![hash_uid[i]] = Empty] ELSE cache
    BY DEF uid_delete
  <2>2. CASE r.id = i
    <3>1. cache' = [cache EXCEPT ![hash_uid[i]] = Empty] /\ Empty.id # i
      BY <2>1, <2>2, Distinct
    <3> QED BY <3>1
  <2>3. CASE r.id # i
    <3>1. cache[hash_uid[i]].id # i
      <4>1. CASE cache[hash_uid[i]] = Freed
        BY <4>1, Distinct
      <4>2. CASE cache[hash_uid[i]] # Freed
        BY <2>1, <2>3, <4>2 DEF Contents
      <4> QED BY <4>1, <4>2
    <3>2. cache' = [cache EXCEPT ![hash_uid[i]] = cache[hash_uid[i]]]
      BY <1>0, <2>1, <2>3
    <3>3. cache[hash_uid[i]] \in UidRecords \union {Empty, Freed}
      BY <1>0
    <3> QED BY <3>1, <3>2, <3>3
  <2> QED BY <2>2, <2>3
<1>3. CASE Stored(i) /\ files' = [files EXCEPT ![get_filename[i]][Place(i)] = Hole]
           /\ doubt' = doubt \ {i}
  <2>1. /\ FilesTyped' /\ OneRecord' /\ ~Stored(i)'
        /\ \A j \in Ids \ {i} :
             /\ Stored(j)' <=> Stored(j)
             /\ Stored(j) => read_entry_from_file(j)' = read_entry_from_file(j)
    BY <1>0, <1>3, RemoveIs
  <2> QED BY <1>1, <1>2, <1>3, <2>1, OneIdKeeps
<1>4. CASE files' = files /\ (doubt' = doubt \union {i} \/ (~Stored(i) /\ doubt' = doubt \ {i}))
  <2>1. /\ FilesTyped' /\ OneRecord'
        /\ \A j \in Ids \ {i} :
             /\ Stored(j)' <=> Stored(j)
             /\ Stored(j) => read_entry_from_file(j)' = read_entry_from_file(j)
    BY <1>0, <1>4, SameFiles
  <2>2. i \notin doubt' => ~Stored(i)'
    BY <1>4, SameFiles
  <2> QED BY <1>1, <1>2, <1>4, <2>1, <2>2, OneIdKeeps
<1> QED BY <1>3, <1>4 DEF uid_delete, remove_entry_from_file

\* The whole table is emptied: uid_clear() and a restart.
LEMMA EmptiedKeeps ==
    ASSUME UidInv, FilesTyped', OneRecord', FlashIsTruth', cache' = [s \in Slots |-> Empty],
           truth' \in [Ids -> Statuses \union {NoEntry}], answer' = Silent
    PROVE  UidInv'
<1>1. UidTypeOK'
  BY DEF UidTypeOK
<1>2. \A s \in Slots : cache'[s] = Empty
  OBVIOUS
<1>3. CacheMatchesFlash' /\ FreedIsMissed'
  BY <1>2, Homes, Distinct DEF CacheMatchesFlash, FreedIsMissed
<1>4. AnswersRight'
  <2>1. answer'.id \notin Ids
    BY Distinct
  <2> QED BY <2>1 DEF AnswersRight
<1> QED BY <1>1, <1>3, <1>4 DEF UidInv

\* uid_clear(), with files it could not delete.
LEMMA ClearKeeps == ASSUME UidInv, uid_clear PROVE UidInv'
<1>1. PICK kept \in SUBSET Files :
        /\ cache' = [s \in Slots |-> Empty]
        /\ files' = [f \in Files |-> IF f \in kept THEN files[f] ELSE <<>>]
        /\ truth' = [i \in Ids |-> NoEntry]
        /\ doubt' = {i \in Ids : get_filename[i] \in kept /\ Stored(i)}
        /\ answer' = Silent
  BY DEF uid_clear
<1>2. FilesTyped'
  BY <1>1 DEF UidInv, UidTypeOK, FilesTyped
<1>3. ASSUME NEW j \in Ids
      PROVE  Places(j)' = IF get_filename[j] \in kept THEN Places(j) ELSE {}
  <2>1. get_filename[j] \in Files
    BY Homes
  <2>2. CASE get_filename[j] \in kept
    BY <1>1, <2>1, <2>2 DEF Places
  <2>3. CASE get_filename[j] \notin kept
    <3>1. files'[get_filename[j]] = <<>> /\ Len(<<>>) = 0
      BY <1>1, <2>1, <2>3
    <3> QED BY <2>3, <3>1 DEF Places
  <2> QED BY <2>2, <2>3
<1>4. OneRecord'
  BY <1>3 DEF UidInv, OneRecord
<1>5. FlashIsTruth'
  <2>1. \A j \in Ids \ doubt' : ~Stored(j)'
    BY <1>1, <1>3 DEF Stored
  <2> QED BY <1>1, <2>1 DEF FlashIsTruth
<1>6. truth' \in [Ids -> Statuses \union {NoEntry}]
  BY <1>1
<1> QED BY <1>1, <1>2, <1>4, <1>5, <1>6, EmptiedKeeps

\* A restart.
LEMMA CreateKeeps == ASSUME UidInv, uid_store_create PROVE UidInv'
<1>1. /\ cache' = [s \in Slots |-> Empty] /\ files' = files /\ truth' = truth
      /\ doubt' = doubt /\ answer' = Silent
  BY DEF uid_store_create
<1>2. FilesTyped' /\ OneRecord'
  BY <1>1, SameFiles DEF UidInv, UidTypeOK
<1>3. FlashIsTruth'
  BY <1>1, SameFiles DEF UidInv, FlashIsTruth
<1> QED BY <1>1, <1>2, <1>3, EmptiedKeeps DEF UidInv, UidTypeOK

\* A look-up: the slot keeps its entry, takes the record of the id, or is
\* freed; the answer is right unless the slot is then a missed one.
LEMMA LookupKeeps ==
    ASSUME UidInv, NEW i \in Ids, files' = files, truth' = truth, doubt' = doubt,
           missed \subseteq missed',
           NEW c \in UidRecords \union {Empty, Freed},
           cache' = [cache EXCEPT ![hash_uid[i]] = c],
           \/ c = cache[hash_uid[i]]
           \/ c = Freed /\ hash_uid[i] \in missed'
           \/ Stored(i) /\ c = read_entry_from_file(i),
           answer'.id = i,
           i \notin doubt /\ ~answer'.starved /\ hash_uid[i] \notin missed'
                => answer'.val = truth[i]
    PROVE  UidInv'
<1>0. /\ cache \in [Slots -> UidRecords \union {Empty, Freed}] /\ hash_uid[i] \in Slots
      /\ FilesTyped /\ OneRecord
  BY Homes DEF UidInv, UidTypeOK
<1>1. /\ cache'[hash_uid[i]] = c
      /\ \A s \in Slots : s # hash_uid[i] => cache'[s] = cache[s]
  BY <1>0
<1>2. UidTypeOK' /\ OneRecord'
  BY <1>0, SameFiles DEF UidInv, UidTypeOK
<1>3. FlashIsTruth'
  BY SameFiles DEF UidInv, FlashIsTruth
<1>4. Stored(i) => read_entry_from_file(i).id = i
  BY <1>0, PlaceIn DEF read_entry_from_file
<1>5. CacheMatchesFlash'
  <2>1. SUFFICES ASSUME NEW j \in Ids, (cache[hash_uid[j]].id = j)', j \notin doubt
                 PROVE  Stored(j) /\ read_entry_from_file(j) = cache'[hash_uid[j]]
    BY SameFiles DEF CacheMatchesFlash
  <2>2. CASE cache'[hash_uid[j]] = cache[hash_uid[j]]
    BY <2>1, <2>2 DEF UidInv, CacheMatchesFlash
  <2>3. CASE cache'[hash_uid[j]] # cache[hash_uid[j]]
    <3>1. hash_uid[j] = hash_uid[i]
      BY <1>1, <2>3, Homes
    <3>2. Stored(i) /\ c = read_entry_from_file(i)
      BY <1>1, <2>1, <2>3, <3>1, Distinct
    <3> QED BY <1>1, <1>4, <2>1, <3>1, <3>2
  <2> QED BY <2>2, <2>3
<1>6. FreedIsMissed'
  <2>1. SUFFICES ASSUME NEW s \in Slots, cache'[s] = Freed PROVE s \in missed'
    BY DEF FreedIsMissed
  <2>2. CASE cache[s] = Freed
    BY <2>2 DEF UidInv, FreedIsMissed
  <2>3. CASE cache[s] # Freed
    <3>1. s = hash_uid[i] /\ c = Freed
      BY <1>1, <2>1, <2>3
    <3>2. Stored(i) => read_entry_from_file(i) # Freed
      BY <1>4, Distinct
    <3> QED BY <2>3, <3>1, <3>2
  <2> QED BY <2>2, <2>3
<1>7. AnswersRight'
  BY DEF AnswersRight
<1> QED BY <1>2, <1>3, <1>5, <1>6, <1>7 DEF UidInv

\* The four ways through uid_status().
LEMMA StatusKeeps == ASSUME UidInv, NEW i \in Ids, uid_status(i) PROVE UidInv'
<1> DEFINE e == cache[hash_uid[i]]
<1>0. /\ cache \in [Slots -> UidRecords \union {Empty, Freed}] /\ hash_uid[i] \in Slots
      /\ FilesTyped /\ OneRecord
  BY Homes DEF UidInv, UidTypeOK
<1>1. files' = files /\ truth' = truth /\ doubt' = doubt
  BY DEF uid_status
<1>2. e \in UidRecords \union {Empty, Freed} /\ cache = [cache EXCEPT ![hash_uid[i]] = e]
  BY <1>0
<1>3. i \notin doubt => truth[i] = IF Stored(i) THEN read_entry_from_file(i).val ELSE NoEntry
  BY DEF UidInv, FlashIsTruth
<1>4. e = Freed => hash_uid[i] \in missed
  BY <1>0 DEF UidInv, FreedIsMissed
<1>5. e.id = i /\ i \notin doubt => Stored(i) /\ read_entry_from_file(i) = e
  BY DEF UidInv, CacheMatchesFlash
<1>e. e = cache[hash_uid[i]]
  OBVIOUS
<1> HIDE DEF e
<1>6. CASE StatusHit(i)
  <2>1. PICK r \in Contents(hash_uid[i]) : r.id = i /\ Says(i, r.val)
    BY <1>6 DEF StatusHit
  <2>2. cache' = cache /\ missed' = missed
    BY <1>6 DEF StatusHit
  <2>3. answer'.id = i /\ answer'.val = r.val
    BY <2>1 DEF Says
  <2>4. e # Freed => r = e
    BY <2>1 DEF Contents, e
  <2>5. i \notin doubt /\ hash_uid[i] \notin missed' => answer'.val = truth[i]
    BY <1>3, <1>4, <1>5, <2>1, <2>2, <2>3, <2>4
  <2>6. cache' = [cache EXCEPT ![hash_uid[i]] = e]
    BY <1>2, <2>2
  <2>7. missed \subseteq missed'
    BY <2>2
  <2> QED BY <1>1, <1>2, <1>e, <2>3, <2>5, <2>6, <2>7, LookupKeeps, Zenon
<1>7. CASE StatusFound(i)
  <2> DEFINE c == IF e = Freed THEN Freed ELSE read_entry_from_file(i)
  <2>1. /\ Stored(i) /\ Says(i, read_entry_from_file(i).val) /\ missed' = missed
        /\ cache' = [cache EXCEPT ![hash_uid[i]] = c]
    BY <1>0, <1>7 DEF StatusFound, e
  <2>2. answer'.id = i /\ answer'.val = read_entry_from_file(i).val
    BY <2>1 DEF Says
  <2>3. read_entry_from_file(i) \in UidRecords
    <3>1. files[get_filename[i]] \in Seq(UidRecords \union {Hole})
      BY <1>0, Homes DEF FilesTyped
    <3>2. /\ Place(i) \in 1..Len(files[get_filename[i]])
          /\ read_entry_from_file(i).id = i
      BY <1>0, <2>1, PlaceIn DEF read_entry_from_file
    <3>3. read_entry_from_file(i) \in UidRecords \union {Hole}
      BY <3>1, <3>2, ElementOfSeq DEF read_entry_from_file
    <3> QED BY <3>2, <3>3, Distinct
  <2>4. /\ c \in UidRecords \union {Empty, Freed}
        /\ c = e \/ (Stored(i) /\ c = read_entry_from_file(i))
    <3>1. CASE e = Freed
      BY <3>1
    <3>2. CASE e # Freed
      <4>1. c = read_entry_from_file(i)
        BY <3>2
      <4> HIDE DEF c
      <4> QED BY <2>1, <2>3, <4>1
    <3> QED BY <3>1, <3>2
  <2>5. i \notin doubt => answer'.val = truth[i]
    BY <1>3, <2>1, <2>2
  <2> HIDE DEF c
  <2> QED BY <1>1, <2>1, <2>2, <2>4, <2>5, LookupKeeps DEF e
<1>8. CASE StatusNotFound(i)
  <2> DEFINE c == IF e = Empty THEN Empty ELSE Freed
  <2>1. /\ ~Stored(i) /\ Says(i, NoEntry)
        /\ cache' = [cache EXCEPT ![hash_uid[i]] = c]
        /\ missed' = IF e = Empty THEN missed ELSE missed \union {hash_uid[i]}
    BY <1>0, <1>8 DEF StatusNotFound, e
  <2>2. answer'.id = i /\ answer'.val = NoEntry
    BY <2>1 DEF Says
  <2>3. /\ c \in UidRecords \union {Empty, Freed} /\ missed \subseteq missed'
        /\ c = e \/ (c = Freed /\ hash_uid[i] \in missed')
    <3>1. CASE e = Empty
      BY <2>1, <3>1
    <3>2. CASE e # Empty
      <4>1. c = Freed /\ missed' = missed \union {hash_uid[i]}
        BY <2>1, <3>2
      <4> HIDE DEF c
      <4> QED BY <4>1
    <3> QED BY <3>1, <3>2
  <2>4. i \notin doubt => answer'.val = truth[i]
    BY <1>3, <2>1, <2>2
  <2> HIDE DEF c
  <2> QED BY <1>1, <2>1, <2>2, <2>3, <2>4, LookupKeeps DEF e
<1>9. CASE StatusStarved(i)
  <2>1. /\ cache' = cache /\ missed' = missed /\ answer'.id = i /\ answer'.starved = TRUE
    BY <1>9 DEF StatusStarved
  <2>2. cache' = [cache EXCEPT ![hash_uid[i]] = e]
    BY <1>2, <2>1
  <2>3. missed \subseteq missed'
    BY <2>1
  <2> QED BY <1>1, <1>2, <1>e, <2>1, <2>2, <2>3, LookupKeeps, Zenon
<1> QED BY <1>6, <1>7, <1>8, <1>9 DEF uid_status

-----------------------------------------------------------------------------
(* The theorems *)

\* The inductive invariant of the store.
LEMMA UidInvHolds == UidSpec => []UidInv
<1>1. UidInit => UidInv
  <2>1. SUFFICES ASSUME UidInit PROVE UidInv
    OBVIOUS
  <2>2. UidTypeOK
    BY <2>1 DEF UidInit, UidTypeOK, FilesTyped
  <2>3. \A i \in Ids : Places(i) = {}
    <3>1. \A f \in Files : files[f] = <<>> /\ Len(files[f]) = 0
      BY <2>1 DEF UidInit
    <3>2. ASSUME NEW i \in Ids PROVE 1..Len(files[get_filename[i]]) = {}
      <4>1. Len(files[get_filename[i]]) = 0
        BY <3>1, Homes, Zenon
      <4>2. 1..0 = {}
        OBVIOUS
      <4> QED BY <4>1, <4>2, Zenon
    <3> QED BY <3>2, Zenon DEF Places
  <2>4. OneRecord /\ FlashIsTruth
    BY <2>1, <2>3 DEF UidInit, OneRecord, FlashIsTruth, Stored
  <2>5. \A s \in Slots : cache[s] = Empty
    BY <2>1 DEF UidInit
  <2>6. CacheMatchesFlash /\ FreedIsMissed
    BY <2>5, Homes, Distinct DEF CacheMatchesFlash, FreedIsMissed
  <2>7. answer.id \notin Ids
    BY <2>1, Distinct DEF UidInit
  <2> QED BY <2>2, <2>4, <2>6, <2>7 DEF UidInv, AnswersRight
<1>2. UidInv /\ [UidNext]_uidVars => UidInv'
  <2>1. SUFFICES ASSUME UidInv, [UidNext]_uidVars PROVE UidInv'
    OBVIOUS
  <2>2. CASE \E i \in Ids : uid_status(i)
    BY <2>1, <2>2, StatusKeeps
  <2>3. CASE \E i \in Ids, v \in Statuses : uid_update(i, v)
    BY <2>1, <2>3, UpdateKeeps
  <2>4. CASE \E i \in Ids : uid_delete(i)
    BY <2>1, <2>4, DeleteKeeps
  <2>5. CASE uid_clear
    BY <2>1, <2>5, ClearKeeps
  <2>6. CASE uid_store_create
    BY <2>1, <2>6, CreateKeeps
  <2>7. CASE UNCHANGED uidVars
    <3>1. /\ cache' = cache /\ files' = files /\ truth' = truth /\ doubt' = doubt
          /\ missed' = missed /\ answer' = answer
      BY <2>7 DEF uidVars
    <3>2. UidTypeOK' /\ OneRecord' /\ FreedIsMissed'
      BY <2>1, <3>1, SameFiles DEF UidInv, UidTypeOK, FreedIsMissed
    <3>3. CacheMatchesFlash' /\ FlashIsTruth'
      BY <2>1, <3>1, SameFiles DEF UidInv, CacheMatchesFlash, FlashIsTruth
    <3>4. AnswersRight'
      BY <2>1, <3>1 DEF UidInv, AnswersRight
    <3> QED BY <3>2, <3>3, <3>4 DEF UidInv
  <2> QED BY <2>1, <2>2, <2>3, <2>4, <2>5, <2>6, <2>7 DEF UidNext
<1> QED BY <1>1, <1>2, PTL DEF UidSpec

\* The store of idTags keeps its promise: right answers, one record for an id,
\* and a cache that agrees with the files.
THEOREM StoreIsRight == UidSpec => []StoreRight
<1>1. UidInv => StoreRight
  BY DEF UidInv, StoreRight
<1> QED BY <1>1, UidInvHolds, PTL
=============================================================================

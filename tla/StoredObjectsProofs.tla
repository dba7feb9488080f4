------------------------- MODULE StoredObjectsProofs -------------------------
(***************************************************************************)
(* Proofs about StoredObjects, for every set of records, objects and       *)
(* purge workers, and every delay the assumptions allow.                   *)
(***************************************************************************)
EXTENDS StoredObjects, TLAPS

(***************************************************************************)
(* The inductive invariant.  Accounted says of a database, the one in      *)
(* force or a backup, how its rows go with what is in the store and with   *)
(* the links that are still good; it is stated of the database, so that    *)
(* what a backup knew is true of the store whenever it is restored.        *)
(***************************************************************************)
AccountedAt(d, o, drawn, here, left) ==
  /\ o \notin drawn => /\ d.object[o] = NoRow /\ d.purge[o] = None
                       /\ o \notin d.gone /\ o \notin here /\ left[o] = 0
  /\ d.object[o].kind = "none" => d.object[o].of = {}
  /\ d.object[o].kind \in {"pending", "uploaded", "kept", "purged"} => d.purge[o] = None
  /\ d.object[o].kind \in {"kept", "blocked", "purged"} => left[o] = 0
  /\ d.object[o].kind \in {"blocked", "purged"} => o \in d.gone
  /\ d.purge[o] # None => left[o] <= d.purge[o]
  /\ o \in d.gone /\ d.purge[o] = None => o \notin here /\ left[o] = 0

Accounted(d, drawn, here, left) == \A o \in Object : AccountedAt(d, o, drawn, here, left)

\* A pass has locked rows that are due, no other has them, and what it removed is gone.
Passes ==
  /\ \A w \in Worker :
       /\ wk[w].done \cap wk[w].failed = {}
       /\ wk[w].done \cup wk[w].failed \subseteq wk[w].batch
       /\ \A o \in wk[w].batch : db.purge[o] = 0
       /\ wk[w].done \cap store = {}
  /\ \A v, w \in Worker : v # w => wk[v].batch \cap wk[w].batch = {}

Objects ==
  /\ TypeOK
  /\ Accounted(db, used, store, link)
  /\ Accounted(backup, used, store, link)
  /\ Passes

\* The suppressions that count: the exported ones while a backup is being restored.
Tombstones == IF Serving THEN db.suppression ELSE ledger

\* A database has a record only if it was created after the last deletion it knows of,
\* by leave of the owner; the leave is known to the suppressions that count.
Honoured(d, count, tombs) ==
  \A r \in Named :
    /\ d.suppression[r].at <= count[r]
    /\ d.entry[r] # None => /\ d.entry[r] = d.suppression[r].at
                            /\ d.suppression[r].at # 0 => d.suppression[r].allowed
    /\ d.suppression[r].at = count[r] /\ d.suppression[r].at # 0 /\ d.suppression[r].allowed
         => tombs[r].allowed

Suppressions ==
  /\ \A r \in Named : Tombstones[r].at = deleted[r]
  /\ Honoured(db, deleted, Tombstones)
  /\ Honoured(backup, deleted, Tombstones)

\* A manual note has no identity, so no tombstone.
Nameless ==
  \A r \in Record \ Named :
    db.suppression[r].at = 0 /\ backup.suppression[r].at = 0 /\ Tombstones[r].at = 0

IInv == Objects /\ Suppressions /\ Nameless

(***************************************************************************)
(* The rows.                                                               *)
(***************************************************************************)
LEMMA Constants ==
  /\ LinkLife \in Nat /\ PurgeDelay \in Nat /\ RetryDelay \in Nat /\ MaxDeletions \in Nat
  /\ LinkLife < PurgeDelay /\ RetryDelay <= PurgeDelay
  /\ None \notin Nat /\ None \notin Record /\ Named \subseteq Record
BY NamesAssumption, DelaysAssumption

LEMMA Fields ==
  ASSUME NEW d \in Database
  PROVE  /\ d.entry \in [Record -> Times \cup {None}]
         /\ d.object \in [Object -> ObjectRow]
         /\ d.purge \in [Object -> (0..PurgeDelay) \cup {None}]
         /\ d.suppression \in [Record -> Suppression]
         /\ d.gone \in SUBSET Object
         /\ \A o \in Object :
              /\ d.object[o].kind \in {"none", "pending", "uploaded", "kept", "blocked", "purged"}
              /\ d.object[o].of \in SUBSET Record
BY DEF Database, ObjectRow

LEMMA NoRowIsRow == NoRow \in ObjectRow /\ NoRow.kind = "none" /\ NoRow.of = {}
BY DEF NoRow, ObjectRow

\* What blocking originals O of d does.
LEMMA BlockedFields ==
  ASSUME NEW d \in Database, NEW O \in SUBSET Object
  PROVE  /\ Blocked(d, O) \in Database
         /\ Blocked(d, O).entry = d.entry
         /\ Blocked(d, O).suppression = d.suppression
         /\ Blocked(d, O).gone = d.gone \cup O
         /\ \A o \in Object :
              /\ Blocked(d, O).object[o].of = d.object[o].of
              /\ IF o \in O /\ d.object[o].kind = "kept"
                 THEN /\ Blocked(d, O).object[o].kind = "blocked"
                      /\ Blocked(d, O).purge[o] = 0
                 ELSE /\ Blocked(d, O).object[o] = d.object[o]
                      /\ Blocked(d, O).purge[o] = d.purge[o]
<1> DEFINE new == {o \in O : d.object[o].kind = "kept"}
           rows == [o \in Object |-> IF o \in new
                      THEN [d.object[o] EXCEPT !.kind = "blocked"] ELSE d.object[o]]
           due == [o \in Object |-> IF o \in new THEN Due(d.object[o]) ELSE d.purge[o]]
<1>1. Blocked(d, O) = [d EXCEPT !.object = rows, !.purge = due, !.gone = @ \cup O]
  BY DEF Blocked
<1>2. rows \in [Object -> ObjectRow]
  BY Fields DEF ObjectRow
<1>3. \A o \in new : Due(d.object[o]) = 0
  BY DEF Due, Attachment
<1>4. due \in [Object -> (0..PurgeDelay) \cup {None}]
  BY <1>3, Fields, Constants
<1>5. /\ Blocked(d, O) \in Database
      /\ Blocked(d, O).entry = d.entry /\ Blocked(d, O).suppression = d.suppression
      /\ Blocked(d, O).gone = d.gone \cup O
      /\ Blocked(d, O).object = rows /\ Blocked(d, O).purge = due
  <2> HIDE DEF rows, due, new
  <2> QED
    BY <1>1, <1>2, <1>4 DEF Database
<1>6. ASSUME NEW o \in Object
      PROVE  /\ rows[o].of = d.object[o].of
             /\ IF o \in O /\ d.object[o].kind = "kept"
                THEN rows[o].kind = "blocked" /\ due[o] = 0
                ELSE rows[o] = d.object[o] /\ due[o] = d.purge[o]
  <2>1. d.object[o] \in ObjectRow
    BY Fields
  <2> QED
    BY <1>3, <2>1 DEF ObjectRow
<1> QED
  BY <1>5, <1>6

\* What the end of records R does to the attachments of d.
LEMMA DetachedFields ==
  ASSUME NEW d \in Database, NEW R \in SUBSET Record
  PROVE  /\ Detached(d, R) \in Database
         /\ Detached(d, R).entry = d.entry
         /\ Detached(d, R).suppression = d.suppression
         /\ \A o \in Object :
              IF Attachment(d.object[o]) /\ d.object[o].of \subseteq R
              THEN /\ Detached(d, R).object[o] = NoRow
                   /\ Detached(d, R).purge[o] = PurgeDelay
                   /\ o \in Detached(d, R).gone
              ELSE /\ Detached(d, R).object[o].kind = d.object[o].kind
                   /\ Detached(d, R).object[o].of = d.object[o].of \ R
                   /\ Detached(d, R).purge[o] = d.purge[o]
                   /\ o \in Detached(d, R).gone <=> o \in d.gone
<1> DEFINE own == {o \in Object : Attachment(d.object[o]) /\ d.object[o].of \subseteq R}
           rows == [o \in Object |-> IF o \in own THEN NoRow
                                     ELSE [d.object[o] EXCEPT !.of = @ \ R]]
           due == [o \in Object |-> IF o \in own THEN Due(d.object[o]) ELSE d.purge[o]]
<1>1. Detached(d, R) = [d EXCEPT !.object = rows, !.purge = due, !.gone = @ \cup own]
  BY DEF Detached
<1>2. rows \in [Object -> ObjectRow]
  BY Fields, NoRowIsRow DEF ObjectRow
<1>3. \A o \in own : Due(d.object[o]) = PurgeDelay
  BY DEF Due
<1>4. due \in [Object -> (0..PurgeDelay) \cup {None}]
  BY <1>3, Fields, Constants
<1>5. /\ Detached(d, R) \in Database
      /\ Detached(d, R).entry = d.entry /\ Detached(d, R).suppression = d.suppression
      /\ Detached(d, R).gone = d.gone \cup own
      /\ Detached(d, R).object = rows /\ Detached(d, R).purge = due
  <2>1. own \subseteq Object
    OBVIOUS
  <2> HIDE DEF rows, due, own
  <2> QED
    BY <1>1, <1>2, <1>4, <2>1 DEF Database
<1>6. ASSUME NEW o \in Object
      PROVE  IF o \in own THEN rows[o] = NoRow /\ due[o] = PurgeDelay
             ELSE /\ rows[o].kind = d.object[o].kind
                  /\ rows[o].of = d.object[o].of \ R
                  /\ due[o] = d.purge[o]
  <2>1. d.object[o] \in ObjectRow
    BY Fields
  <2> QED
    BY <1>3, <2>1 DEF ObjectRow
<1>7. \A o \in Object : o \in own <=> Attachment(d.object[o]) /\ d.object[o].of \subseteq R
  OBVIOUS
<1> HIDE DEF rows, due, own
<1> QED
  BY <1>5, <1>6, <1>7

\* Originals of d that belong to a record of R.
OriginalsOf(d, R) ==
  {o \in Object : ~Attachment(d.object[o]) /\ d.object[o].of \cap R # {}}

LEMMA DeletedFields ==
  ASSUME NEW d \in Database, NEW R \in SUBSET Record
  PROVE  /\ Deleted(d, R) \in Database
         /\ \A r \in Record : Deleted(d, R).entry[r] = IF r \in R THEN None ELSE d.entry[r]
         /\ Deleted(d, R).suppression = d.suppression
         /\ LET base == Detached(Blocked(d, OriginalsOf(d, R)), R)
            IN /\ Deleted(d, R).object = base.object
               /\ Deleted(d, R).purge = base.purge
               /\ Deleted(d, R).gone = base.gone
<1> DEFINE base == Detached(Blocked(d, OriginalsOf(d, R)), R)
           ent == [r \in Record |-> IF r \in R THEN None ELSE base.entry[r]]
<1>1. OriginalsOf(d, R) \in SUBSET Object
  BY DEF OriginalsOf
<1>2. Blocked(d, OriginalsOf(d, R)) \in Database
      /\ Blocked(d, OriginalsOf(d, R)).entry = d.entry
      /\ Blocked(d, OriginalsOf(d, R)).suppression = d.suppression
  BY <1>1, BlockedFields
<1>3. base \in Database /\ base.entry = d.entry /\ base.suppression = d.suppression
  BY <1>2, DetachedFields
<1>4. Deleted(d, R) = [base EXCEPT !.entry = ent]
  BY DEF Deleted, OriginalsOf
<1>5. d.entry \in [Record -> Times \cup {None}]
  BY Fields
<1>6. ent \in [Record -> Times \cup {None}]
      /\ \A r \in Record : ent[r] = IF r \in R THEN None ELSE d.entry[r]
  BY <1>3, <1>5
<1> HIDE DEF base, ent
<1>7. /\ Deleted(d, R) \in Database /\ Deleted(d, R).entry = ent
      /\ Deleted(d, R).suppression = base.suppression
      /\ Deleted(d, R).object = base.object
      /\ Deleted(d, R).purge = base.purge
      /\ Deleted(d, R).gone = base.gone
  BY <1>3, <1>4, <1>6 DEF Database
<1> QED
  BY <1>3, <1>6, <1>7 DEF base

(***************************************************************************)
(* What keeps a database accounted for.                                    *)
(***************************************************************************)
LEMMA BlockedAccounted ==
  ASSUME NEW d \in Database, NEW O \in SUBSET Object, NEW drawn, NEW here, NEW left,
         Accounted(d, drawn, here, left),
         \A o \in O : d.object[o].kind \in {"kept", "blocked", "purged"}
  PROVE  Accounted(Blocked(d, O), drawn, here, left)
<1> SUFFICES ASSUME NEW o \in Object
             PROVE  AccountedAt(Blocked(d, O), o, drawn, here, left)
  BY DEF Accounted
<1>1. AccountedAt(d, o, drawn, here, left)
  BY DEF Accounted
<1>2. CASE o \in O /\ d.object[o].kind = "kept"
  <2>1. /\ Blocked(d, O).object[o].kind = "blocked" /\ Blocked(d, O).purge[o] = 0
        /\ o \in Blocked(d, O).gone
    BY <1>2, BlockedFields
  <2>2. o \in drawn /\ left[o] = 0
    BY <1>1, <1>2, NoRowIsRow DEF AccountedAt
  <2> QED
    BY <2>1, <2>2, Constants DEF AccountedAt
<1>3. CASE ~(o \in O /\ d.object[o].kind = "kept")
  <2>1. /\ Blocked(d, O).object[o] = d.object[o] /\ Blocked(d, O).purge[o] = d.purge[o]
        /\ o \in Blocked(d, O).gone <=> o \in d.gone \/ o \in O
    BY <1>3, BlockedFields
  <2>2. o \in O => o \in d.gone
    BY <1>1, <1>3 DEF AccountedAt
  <2> QED
    BY <1>1, <2>1, <2>2 DEF AccountedAt
<1> QED
  BY <1>2, <1>3

LEMMA DetachedAccounted ==
  ASSUME NEW d \in Database, NEW R \in SUBSET Record, NEW drawn, NEW here,
         NEW left \in [Object -> 0..LinkLife], Accounted(d, drawn, here, left)
  PROVE  Accounted(Detached(d, R), drawn, here, left)
<1> SUFFICES ASSUME NEW o \in Object
             PROVE  AccountedAt(Detached(d, R), o, drawn, here, left)
  BY DEF Accounted
<1>1. AccountedAt(d, o, drawn, here, left)
  BY DEF Accounted
<1>2. CASE Attachment(d.object[o]) /\ d.object[o].of \subseteq R
  <2>1. /\ Detached(d, R).object[o] = NoRow /\ Detached(d, R).purge[o] = PurgeDelay
        /\ o \in Detached(d, R).gone
    BY <1>2, DetachedFields
  <2>2. o \in drawn
    BY <1>1, <1>2, NoRowIsRow DEF AccountedAt, Attachment
  <2>3. left[o] <= PurgeDelay /\ PurgeDelay # None
    BY Constants
  <2> QED
    BY <2>1, <2>2, <2>3, NoRowIsRow DEF AccountedAt
<1>3. CASE ~(Attachment(d.object[o]) /\ d.object[o].of \subseteq R)
  <2>1. /\ Detached(d, R).object[o].kind = d.object[o].kind
        /\ Detached(d, R).object[o].of = d.object[o].of \ R
        /\ Detached(d, R).purge[o] = d.purge[o]
        /\ o \in Detached(d, R).gone <=> o \in d.gone
    BY <1>3, DetachedFields
  <2>2. d.object[o] = NoRow => Detached(d, R).object[o] = NoRow
    <3> SUFFICES ASSUME d.object[o] = NoRow PROVE Detached(d, R).object[o] = NoRow
      OBVIOUS
    <3>1. Detached(d, R).object[o] \in ObjectRow
      BY DetachedFields, Fields
    <3>2. /\ Detached(d, R).object[o].kind = "none"
          /\ Detached(d, R).object[o].of = {}
      BY <2>1, NoRowIsRow
    <3> QED
      BY <3>1, <3>2 DEF ObjectRow, NoRow
  <2> QED
    BY <1>1, <2>1, <2>2 DEF AccountedAt
<1> QED
  BY <1>2, <1>3

LEMMA DeletedAccounted ==
  ASSUME NEW d \in Database, NEW R \in SUBSET Record, NEW drawn, NEW here,
         NEW left \in [Object -> 0..LinkLife], Accounted(d, drawn, here, left)
  PROVE  Accounted(Deleted(d, R), drawn, here, left)
<1> DEFINE base == Detached(Blocked(d, OriginalsOf(d, R)), R)
<1>1. \A o \in OriginalsOf(d, R) : d.object[o].kind \in {"kept", "blocked", "purged"}
  <2> SUFFICES ASSUME NEW o \in OriginalsOf(d, R)
               PROVE  d.object[o].kind \in {"kept", "blocked", "purged"}
    OBVIOUS
  <2>1. o \in Object /\ ~Attachment(d.object[o]) /\ d.object[o].of # {}
    BY DEF OriginalsOf
  <2>2. d.object[o].kind # "none"
    BY <2>1 DEF Accounted, AccountedAt
  <2> QED
    BY <2>1, <2>2, Fields DEF Attachment
<1>2. OriginalsOf(d, R) \in SUBSET Object
  BY DEF OriginalsOf
<1>3. Accounted(Blocked(d, OriginalsOf(d, R)), drawn, here, left)
  BY <1>1, <1>2, BlockedAccounted
<1>4. Blocked(d, OriginalsOf(d, R)) \in Database
  BY <1>2, BlockedFields
<1>5. Accounted(base, drawn, here, left)
  BY <1>3, <1>4, DetachedAccounted
<1>6. /\ Deleted(d, R).object = base.object /\ Deleted(d, R).purge = base.purge
      /\ Deleted(d, R).gone = base.gone
  BY DeletedFields
<1> HIDE DEF base
<1> QED
  BY <1>5, <1>6 DEF Accounted, AccountedAt

\* What is due stays due whoever is deleted.
LEMMA DeletedKeepsDue ==
  ASSUME NEW d \in Database, NEW R \in SUBSET Record, NEW drawn, NEW here, NEW left,
         Accounted(d, drawn, here, left), NEW o \in Object, d.purge[o] # None
  PROVE  Deleted(d, R).purge[o] = d.purge[o]
<1>1. d.object[o].kind \notin {"kept", "pending", "uploaded"}
  BY DEF Accounted, AccountedAt
<1>2. OriginalsOf(d, R) \in SUBSET Object
  BY DEF OriginalsOf
<1>3. /\ Blocked(d, OriginalsOf(d, R)) \in Database
      /\ Blocked(d, OriginalsOf(d, R)).object[o] = d.object[o]
      /\ Blocked(d, OriginalsOf(d, R)).purge[o] = d.purge[o]
  BY <1>1, <1>2, BlockedFields
<1>4. ~Attachment(Blocked(d, OriginalsOf(d, R)).object[o])
  BY <1>1, <1>3 DEF Attachment
<1> QED
  BY <1>3, <1>4, DetachedFields, DeletedFields

\* Keys are drawn, objects come and go, for a database that says nothing of them.
LEMMA AccountedElsewhere ==
  ASSUME NEW d, NEW drawn, NEW here, NEW left, NEW drawn2, NEW here2, NEW left2,
         Accounted(d, drawn, here, left), drawn \subseteq drawn2,
         \A o \in Object :
           /\ o \notin drawn2 => o \notin here2 /\ left2[o] = 0
           /\ o \in here2 => o \in here \/ o \notin drawn \/ left[o] # 0
           /\ left2[o] # left[o] => o \notin drawn
  PROVE  Accounted(d, drawn2, here2, left2)
<1> SUFFICES ASSUME NEW o \in Object
             PROVE  AccountedAt(d, o, drawn2, here2, left2)
  BY DEF Accounted
<1>1. AccountedAt(d, o, drawn, here, left)
  BY DEF Accounted
<1>2. CASE o \in drawn
  <2>1. o \in drawn2 /\ left2[o] = left[o]
    BY <1>2
  <2> QED
    BY <1>1, <2>1 DEF AccountedAt
<1>3. CASE o \notin drawn
  <2>1. d.object[o] = NoRow /\ d.purge[o] = None /\ o \notin d.gone
    BY <1>1, <1>3 DEF AccountedAt
  <2> QED
    BY <2>1, NoRowIsRow DEF AccountedAt
<1> QED
  BY <1>2, <1>3

\* A database that gets the row of a new key.
LEMMA AccountedRow ==
  ASSUME NEW d \in Database, NEW e, NEW drawn, NEW here, NEW left, NEW here2, NEW left2,
         NEW o \in Object \ drawn, NEW row \in ObjectRow,
         Accounted(d, drawn, here, left),
         e.object = [d.object EXCEPT ![o] = row], e.purge = d.purge, e.gone = d.gone,
         row.kind = "pending" \/ (row.kind = "kept" /\ left2[o] = 0),
         \A x \in Object \ {o} : (x \in here2 <=> x \in here) /\ left2[x] = left[x]
  PROVE  Accounted(e, drawn \cup {o}, here2, left2)
<1> SUFFICES ASSUME NEW x \in Object
             PROVE  AccountedAt(e, x, drawn \cup {o}, here2, left2)
  BY DEF Accounted
<1>1. AccountedAt(d, x, drawn, here, left)
  BY DEF Accounted
<1>2. e.object[x] = IF x = o THEN row ELSE d.object[x]
  BY Fields
<1>3. CASE x = o
  <2>1. e.purge[x] = None /\ x \notin e.gone /\ e.object[x] = row
    BY <1>1, <1>2, <1>3 DEF AccountedAt
  <2> QED
    BY <1>3, <2>1 DEF AccountedAt
<1>4. CASE x # o
  BY <1>1, <1>2, <1>4 DEF AccountedAt
<1> QED
  BY <1>3, <1>4

\* Rows that keep their kind, and attachments that are uploaded.
LEMMA AccountedSame ==
  ASSUME NEW d, NEW e, NEW drawn, NEW here, NEW left,
         Accounted(d, drawn, here, left), e.purge = d.purge, e.gone = d.gone,
         \A o \in Object :
           \/ e.object[o] = d.object[o]
           \/ /\ d.object[o].kind # "none" /\ e.object[o].kind = d.object[o].kind
           \/ /\ d.object[o].kind \in {"pending", "uploaded"}
              /\ e.object[o].kind \in {"pending", "uploaded"}
  PROVE  Accounted(e, drawn, here, left)
<1> SUFFICES ASSUME NEW o \in Object PROVE AccountedAt(e, o, drawn, here, left)
  BY DEF Accounted
<1>1. AccountedAt(d, o, drawn, here, left)
  BY DEF Accounted
<1>2. CASE e.object[o] = d.object[o]
  BY <1>1, <1>2 DEF AccountedAt
<1>3. CASE d.object[o].kind # "none" /\ e.object[o].kind = d.object[o].kind
  BY <1>1, <1>3, NoRowIsRow DEF AccountedAt
<1>4. CASE /\ d.object[o].kind \in {"pending", "uploaded"}
           /\ e.object[o].kind \in {"pending", "uploaded"}
  BY <1>1, <1>4, NoRowIsRow DEF AccountedAt
<1> QED
  BY <1>2, <1>3, <1>4

(***************************************************************************)
(* Steps and the objects.                                                  *)
(***************************************************************************)
LEMMA PassesKept ==
  ASSUME Objects, wk' = wk,
         \A o \in Object : db.purge[o] = 0 => db'.purge[o] = 0,
         \A o \in store' : o \in store \/ o \notin used \/ link[o] # 0
  PROVE  Passes'
<1>1. \A w \in Worker : \A o \in wk[w].batch : o \in Object /\ db.purge[o] = 0
  BY DEF Objects, TypeOK, Pass, Passes
<1>2. \A o \in Object : db.purge[o] = 0 => o \in used /\ link[o] = 0
  <2> SUFFICES ASSUME NEW o \in Object, db.purge[o] = 0
               PROVE  o \in used /\ link[o] = 0
    OBVIOUS
  <2>1. db.purge[o] # None
    BY Constants
  <2>2. link[o] \in Nat
    BY Constants DEF Objects, TypeOK
  <2> QED
    BY <2>1, <2>2 DEF Objects, Accounted, AccountedAt
<1>3. \A w \in Worker : wk[w].done \cap store' = {}
  <2> SUFFICES ASSUME NEW w \in Worker, NEW o \in wk[w].done, o \in store'
               PROVE  FALSE
    OBVIOUS
  <2>1. o \in wk[w].batch /\ o \notin store
    BY DEF Objects, Passes
  <2> QED
    BY <1>1, <1>2, <2>1
<1> QED
  BY <1>1, <1>3 DEF Objects, Passes

\* Rows are written one at a time.
LEMMA EntrySet ==
  ASSUME NEW d \in Database, NEW r \in Record, NEW n \in Times
  PROVE  LET e == [d EXCEPT !.entry[r] = n]
         IN /\ e \in Database /\ e.entry = [d.entry EXCEPT ![r] = n]
            /\ e.object = d.object /\ e.purge = d.purge
            /\ e.suppression = d.suppression /\ e.gone = d.gone
BY DEF Database

LEMMA RowSet ==
  ASSUME NEW d \in Database, NEW o \in Object, NEW row \in ObjectRow
  PROVE  LET e == [d EXCEPT !.object[o] = row]
         IN /\ e \in Database /\ e.object = [d.object EXCEPT ![o] = row]
            /\ e.entry = d.entry /\ e.purge = d.purge
            /\ e.suppression = d.suppression /\ e.gone = d.gone
BY DEF Database

LEMMA SuppressionSet ==
  ASSUME NEW d \in Database, NEW sup \in [Record -> Suppression]
  PROVE  LET e == [d EXCEPT !.suppression = sup]
         IN /\ e \in Database /\ e.suppression = sup
            /\ e.entry = d.entry /\ e.object = d.object /\ e.purge = d.purge
            /\ e.gone = d.gone
BY DEF Database

\* A step that leaves store, keys, links, passes and backup as they are.
LEMMA DatabaseStep ==
  ASSUME Objects, UNCHANGED <<store, used, link, wk, backup>>,
         db' \in Database, Accounted(db', used, store, link),
         \A o \in Object : db.purge[o] = 0 => db'.purge[o] = 0,
         deleted' \in [Record -> Times], ledger' \in [Record -> Suppression] \cup {None},
         restores' \in 0..MaxRestores
  PROVE  Objects'
<1>1. TypeOK'
  BY DEF Objects, TypeOK
<1>2. Passes'
  BY PassesKept
<1> QED
  BY <1>1, <1>2 DEF Objects

LEMMA CreateObjects ==
  ASSUME Objects, NEW r \in Record, Create(r) PROVE Objects'
<1>1. /\ UNCHANGED <<store, used, link, wk, backup, deleted, ledger, restores>>
      /\ db' = [db EXCEPT !.entry[r] = deleted[r]]
  BY DEF Create, Elsewhere
<1>2. deleted[r] \in Times /\ db \in Database
  BY DEF Objects, TypeOK
<1>3. db' \in Database /\ db'.object = db.object /\ db'.purge = db.purge /\ db'.gone = db.gone
  BY <1>1, <1>2, EntrySet
<1>4. Accounted(db', used, store, link)
  BY <1>3, AccountedSame DEF Objects
<1> QED
  BY <1>1, <1>3, <1>4, DatabaseStep DEF Objects, TypeOK

LEMMA ImportedType ==
  ASSUME TypeOK, NEW r \in Record PROVE Imported(r) \in Times
BY Fields DEF Imported, TypeOK

\* A key is drawn: the object may be stored, its row written, a link to it given.
LEMMA DrawStep ==
  ASSUME Objects, NEW o \in Object, o \notin used, used' = used \cup {o},
         store' \in {store, store \cup {o}}, link' \in [Object -> 0..LinkLife],
         \A x \in Object \ {o} : link'[x] = link[x],
         UNCHANGED <<wk, deleted, backup, ledger, restores>>,
         db' \in Database, db'.purge = db.purge, db'.gone = db.gone,
         NEW row \in ObjectRow,
         \/ db'.object = db.object
         \/ /\ db'.object = [db.object EXCEPT ![o] = row]
            /\ row.kind = "pending" \/ (row.kind = "kept" /\ link'[o] = 0)
  PROVE  Objects'
<1>1. TypeOK'
  BY DEF Objects, TypeOK
<1>2. Passes'
  BY PassesKept
<1>3. \A x \in Object : (x \in store' => x \in store \/ x \notin used)
                        /\ (link'[x] # link[x] => x \notin used)
                        /\ (x \notin used' => x \notin store' /\ link'[x] = 0)
  BY DEF Objects, Accounted, AccountedAt
<1>4. Accounted(backup, used', store', link')
  BY <1>3, AccountedElsewhere DEF Objects
<1>5. Accounted(db', used', store', link')
  <2>1. CASE db'.object = db.object
    <3>1. Accounted(db, used', store', link')
      BY <1>3, AccountedElsewhere DEF Objects
    <3> QED
      BY <2>1, <3>1 DEF Accounted, AccountedAt
  <2>2. CASE /\ db'.object = [db.object EXCEPT ![o] = row]
             /\ row.kind = "pending" \/ (row.kind = "kept" /\ link'[o] = 0)
    <3>1. db \in Database /\ o \in Object \ used
      BY DEF Objects, TypeOK
    <3>2. \A x \in Object \ {o} : (x \in store' <=> x \in store) /\ link'[x] = link[x]
      OBVIOUS
    <3> QED
      BY <2>2, <3>1, <3>2, AccountedRow DEF Objects
  <2> QED
    BY <2>1, <2>2
<1> QED
  BY <1>1, <1>2, <1>4, <1>5 DEF Objects

LEMMA DrawObjects ==
  ASSUME Objects, NEW r \in Record, NEW o \in Object,
         UploadMarkdown(r, o) \/ CreateAttachment(r, o)
  PROVE  Objects'
<1>1. /\ db \in Database /\ link \in [Object -> 0..LinkLife] /\ LinkLife \in 0..LinkLife
      /\ Imported(r) \in Times
      /\ o \notin used => link[o] = 0
  BY ImportedType, Constants DEF Objects, TypeOK, Accounted, AccountedAt
<1>2. CASE UploadMarkdown(r, o)
  <2> DEFINE row == [kind |-> "kept", of |-> {r}]
  <2>1. row \in ObjectRow /\ row.kind = "kept"
    BY DEF ObjectRow
  <2>2. db' = [db EXCEPT !.object[o] = row, !.entry[r] = Imported(r)]
    BY <1>2 DEF UploadMarkdown
  <2> HIDE DEF row
  <2>3. /\ db' \in Database /\ db'.object = [db.object EXCEPT ![o] = row]
        /\ db'.purge = db.purge /\ db'.gone = db.gone
    <3> DEFINE at == Imported(r)
               e == [db EXCEPT !.object[o] = row, !.entry[r] = at]
    <3>1. at \in Times /\ db' = e
      BY <1>1, <2>2
    <3> HIDE DEF at
    <3>2. /\ e \in Database /\ e.object = [db.object EXCEPT ![o] = row]
          /\ e.purge = db.purge /\ e.gone = db.gone
      BY <1>1, <2>1, <3>1 DEF Database
    <3> QED
      BY <3>1, <3>2
  <2> QED
    BY <1>1, <1>2, <2>1, <2>3, DrawStep DEF UploadMarkdown, Elsewhere
<1>3. CASE CreateAttachment(r, o)
  <2> DEFINE row == [kind |-> "pending", of |-> {r}]
  <2>1. row \in ObjectRow /\ row.kind = "pending"
    BY DEF ObjectRow
  <2>2. db' = [db EXCEPT !.object[o] = row]
    BY <1>3 DEF CreateAttachment
  <2> HIDE DEF row
  <2>3. /\ db' \in Database /\ db'.object = [db.object EXCEPT ![o] = row]
        /\ db'.purge = db.purge /\ db'.gone = db.gone
    BY <1>1, <2>1, <2>2, RowSet
  <2>4. /\ link' \in [Object -> 0..LinkLife] /\ store' = store
        /\ \A x \in Object \ {o} : link'[x] = link[x]
    BY <1>1, <1>3 DEF CreateAttachment
  <2> QED
    BY <1>3, <2>1, <2>3, <2>4, DrawStep DEF CreateAttachment, Elsewhere
<1> QED
  BY <1>2, <1>3

LEMMA ArchiveObjects ==
  ASSUME Objects, NEW o \in Object, UploadArchive(o) PROVE Objects'
<1> DEFINE row == [kind |-> "kept", of |-> {}]
<1>1. /\ db \in Database /\ link \in [Object -> 0..LinkLife]
      /\ o \notin used => link[o] = 0
  BY DEF Objects, TypeOK, Accounted, AccountedAt
<1>2. row \in ObjectRow /\ row.kind = "kept"
  BY DEF ObjectRow
<1>3. db' = [db EXCEPT !.object[o] = row]
  BY DEF UploadArchive
<1> HIDE DEF row
<1>4. /\ db' \in Database /\ db'.object = [db.object EXCEPT ![o] = row]
      /\ db'.purge = db.purge /\ db'.gone = db.gone
  BY <1>1, <1>2, <1>3, RowSet
<1> QED
  BY <1>1, <1>2, <1>4, DrawStep DEF UploadArchive, Elsewhere

LEMMA LostObjects ==
  ASSUME Objects, NEW o \in Object, LoseUpload(o) PROVE Objects'
<1>1. db \in Database /\ link \in [Object -> 0..LinkLife]
  BY DEF Objects, TypeOK
<1> QED
  BY <1>1, NoRowIsRow, DrawStep DEF LoseUpload, Elsewhere

\* The conversations of a batch that are imported, and the database before their rows.
Found(R) == {r \in R : ~Denied(r)}
Judged(R, o) == IF Found(R) = R THEN db ELSE Blocked(db, {o})

\* The database after a batch of an import.
LEMMA BatchWrites ==
  ASSUME Objects, NEW R \in SUBSET Named, NEW o \in Object, ImportBatch(R, o)
  PROVE  /\ Judged(R, o) \in Database /\ db' \in Database
         /\ db'.suppression = db.suppression
         /\ db'.purge = Judged(R, o).purge /\ db'.gone = Judged(R, o).gone
         /\ \A x \in Object : /\ db'.object[x].kind = Judged(R, o).object[x].kind
                              /\ x # o => db'.object[x] = Judged(R, o).object[x]
         /\ \A x \in Record :
              db'.entry[x] = IF x \in R /\ ~Denied(x) THEN Imported(x) ELSE db.entry[x]
<1> DEFINE found == Found(R)
           d == Judged(R, o)
           row == [d.object[o] EXCEPT !.of = @ \cup found]
           rows == [d.object EXCEPT ![o] = row]
           ent == [x \in Record |-> IF x \in found THEN Imported(x) ELSE d.entry[x]]
<1>1. db \in Database /\ {o} \in SUBSET Object /\ found \in SUBSET Record
  BY Constants DEF Objects, TypeOK, Found
<1>2. d \in Database /\ d.entry = db.entry /\ d.suppression = db.suppression
  BY <1>1, BlockedFields DEF Judged
<1>3. db' = [d EXCEPT !.object = rows, !.entry = ent]
  <2>1. db' = [d EXCEPT !.object[o].of = @ \cup found,
                        !.entry = [r \in Record |-> IF r \in found THEN Imported(r) ELSE @[r]]]
    BY DEF ImportBatch, Found, Judged
  <2> HIDE DEF d, found
  <2> QED
    BY <1>2, <2>1 DEF Database
<1>4. row \in ObjectRow /\ row.kind = d.object[o].kind
  <2>1. d.object[o] \in ObjectRow
    BY <1>2, Fields
  <2> HIDE DEF d, found
  <2> QED
    BY <1>1, <2>1 DEF ObjectRow
<1> HIDE DEF row
<1>5. rows \in [Object -> ObjectRow]
      /\ \A x \in Object : rows[x] = IF x = o THEN row ELSE d.object[x]
  BY <1>2, <1>4, Fields
<1>6. /\ ent \in [Record -> Times \cup {None}]
      /\ \A x \in Record : ent[x] = IF x \in found THEN Imported(x) ELSE db.entry[x]
  <2>1. d.entry \in [Record -> Times \cup {None}]
    BY <1>2, Fields
  <2>2. \A x \in Record : Imported(x) \in Times
    BY ImportedType DEF Objects, TypeOK
  <2> HIDE DEF d, found
  <2> QED
    BY <1>2, <2>1, <2>2
<1> HIDE DEF rows, ent, d, found
<1>7. /\ db' \in Database /\ db'.object = rows /\ db'.entry = ent
      /\ db'.suppression = d.suppression /\ db'.purge = d.purge /\ db'.gone = d.gone
  BY <1>2, <1>3, <1>5, <1>6 DEF Database
<1> QED
  BY <1>2, <1>4, <1>5, <1>6, <1>7 DEF d, found, Found

LEMMA ImportObjects ==
  ASSUME Objects, NEW R \in SUBSET Named, NEW o \in Object, ImportBatch(R, o)
  PROVE  Objects'
<1> DEFINE d == Judged(R, o)
<1>1. /\ UNCHANGED <<store, used, link, wk, backup, deleted, ledger, restores>>
      /\ db.object[o].kind = "kept" /\ db \in Database /\ {o} \in SUBSET Object
  BY DEF ImportBatch, Elsewhere, Objects, TypeOK
<1>2. /\ d \in Database /\ db' \in Database
      /\ db'.purge = d.purge /\ db'.gone = d.gone
      /\ \A x \in Object : /\ db'.object[x].kind = d.object[x].kind
                           /\ x # o => db'.object[x] = d.object[x]
  BY BatchWrites
<1>3. d.object[o].kind # "none"
  BY <1>1, BlockedFields DEF Judged
<1>4. Accounted(d, used, store, link) /\ \A x \in Object : db.purge[x] = 0 => d.purge[x] = 0
  <2>1. Accounted(Blocked(db, {o}), used, store, link)
    BY <1>1, BlockedAccounted DEF Objects
  <2> QED
    BY <1>1, <2>1, BlockedFields DEF Objects, Judged
<1> HIDE DEF d
<1>5. Accounted(db', used, store, link)
  <2>1. \A x \in Object :
          \/ db'.object[x] = d.object[x]
          \/ d.object[x].kind # "none" /\ db'.object[x].kind = d.object[x].kind
    BY <1>2, <1>3
  <2> QED
    BY <1>2, <1>4, <2>1, AccountedSame
<1> QED
  BY <1>1, <1>2, <1>4, <1>5, DatabaseStep DEF Objects, TypeOK

LEMMA PutObjects ==
  ASSUME Objects, NEW o \in Object, Put(o) PROVE Objects'
<1>1. /\ UNCHANGED <<db, used, link, wk, backup, deleted, ledger, restores>>
      /\ store' = store \cup {o} /\ link[o] # 0
  BY Constants DEF Put, Elsewhere, Objects, TypeOK
<1>2. TypeOK'
  BY <1>1 DEF Objects, TypeOK
<1>3. Passes'
  BY <1>1, PassesKept
<1>4. \A x \in Object : /\ x \notin used => x \notin store' /\ link[x] = 0
                        /\ x \in store' => x \in store \/ link[x] # 0
  BY <1>1 DEF Objects, Accounted, AccountedAt
<1>5. Accounted(db, used, store', link) /\ Accounted(backup, used, store', link)
  BY <1>4, AccountedElsewhere DEF Objects
<1> QED
  BY <1>1, <1>2, <1>3, <1>5 DEF Objects

LEMMA CompleteObjects ==
  ASSUME Objects, NEW o \in Object, CompleteAttachment(o) PROVE Objects'
<1>1. /\ UNCHANGED <<store, used, link, wk, backup, deleted, ledger, restores>>
      /\ db.object[o].kind \in {"pending", "uploaded"}
  BY DEF CompleteAttachment, Attachment, Elsewhere
<1>2. db \in Database /\ db.object[o] \in ObjectRow
  BY Fields DEF Objects, TypeOK
<1> DEFINE row == [db.object[o] EXCEPT !.kind = "uploaded"]
           e == [db EXCEPT !.object[o] = row]
<1>3. db' = e
  BY <1>2 DEF CompleteAttachment, Database
<1>4. row \in ObjectRow /\ row.kind = "uploaded"
  BY <1>2 DEF ObjectRow
<1> HIDE DEF row
<1>5. /\ e \in Database /\ e.object = [db.object EXCEPT ![o] = row]
      /\ e.purge = db.purge /\ e.gone = db.gone
  BY <1>2, <1>4 DEF Database
<1>6. \A x \in Object : e.object[x] = IF x = o THEN row ELSE db.object[x]
  BY <1>2, <1>5, Fields
<1> HIDE DEF e
<1>7. Accounted(e, used, store, link)
  BY <1>1, <1>4, <1>5, <1>6, AccountedSame DEF Objects
<1> QED
  BY <1>1, <1>3, <1>5, <1>7, DatabaseStep DEF Objects, TypeOK

\* The end of records R: by the owner, or by the ledger.
LEMMA EndObjects ==
  ASSUME Objects, NEW R \in SUBSET Record, NEW sup \in [Record -> Suppression],
         db' = [Deleted(db, R) EXCEPT !.suppression = sup],
         UNCHANGED <<store, used, link, wk, backup>>,
         deleted' \in [Record -> Times], ledger' \in [Record -> Suppression] \cup {None},
         restores' \in 0..MaxRestores
  PROVE  Objects'
<1>1. db \in Database /\ link \in [Object -> 0..LinkLife]
  BY DEF Objects, TypeOK
<1>2. Deleted(db, R) \in Database /\ Accounted(Deleted(db, R), used, store, link)
  BY <1>1, DeletedFields, DeletedAccounted DEF Objects
<1>3. /\ db' \in Database /\ db'.object = Deleted(db, R).object
      /\ db'.purge = Deleted(db, R).purge /\ db'.gone = Deleted(db, R).gone
  BY <1>2, SuppressionSet
<1>4. Accounted(db', used, store, link)
  BY <1>2, <1>3 DEF Accounted, AccountedAt
<1>5. \A o \in Object : db.purge[o] = 0 => db'.purge[o] = 0
  BY <1>1, <1>3, Constants, DeletedKeepsDue DEF Objects
<1> QED
  BY <1>3, <1>4, <1>5, DatabaseStep

LEMMA SuppressedType ==
  ASSUME TypeOK, NEW r \in Record, NEW n \in Times PROVE Suppressed(r, n) \in Suppression
BY Fields DEF Suppressed, Suppression, TypeOK

\* What delete_entry writes: the suppressions afterwards.
LEMMA DeleteWrites ==
  ASSUME TypeOK, NEW r \in Record, Delete(r)
  PROVE  LET sup == [db.suppression EXCEPT ![r] = Suppressed(r, deleted[r] + 1)]
         IN /\ sup \in [Record -> Suppression]
            /\ db' = [Deleted(db, {r}) EXCEPT !.suppression = sup]
            /\ deleted' \in [Record -> Times] /\ deleted[r] + 1 \in Times
<1>1. deleted[r] + 1 \in Times /\ deleted' \in [Record -> Times]
  BY Constants DEF Delete, TypeOK, Times
<1>2. Suppressed(r, deleted[r] + 1) \in Suppression
  BY <1>1, SuppressedType
<1>3. Deleted(db, {r}).suppression = db.suppression
  BY DeletedFields DEF TypeOK
<1> QED
  BY <1>1, <1>2, <1>3, Fields DEF Delete, TypeOK

LEMMA DeleteObjects ==
  ASSUME Objects, NEW r \in Record, Delete(r) PROVE Objects'
<1> DEFINE sup == [db.suppression EXCEPT ![r] = Suppressed(r, deleted[r] + 1)]
<1>1. /\ sup \in [Record -> Suppression]
      /\ db' = [Deleted(db, {r}) EXCEPT !.suppression = sup]
      /\ deleted' \in [Record -> Times]
  BY DeleteWrites DEF Objects
<1> HIDE DEF sup
<1>2. /\ UNCHANGED <<store, used, link, wk, backup>>
      /\ ledger' \in [Record -> Suppression] \cup {None} /\ restores' \in 0..MaxRestores
  BY DEF Delete, Objects, TypeOK
<1> QED
  BY <1>1, <1>2, EndObjects

LEMMA AllowObjects ==
  ASSUME Objects, NEW r \in Record, AllowReimport(r) PROVE Objects'
<1>1. /\ UNCHANGED <<store, used, link, wk, backup, deleted, ledger, restores>>
      /\ db \in Database
  BY DEF AllowReimport, Elsewhere, Objects, TypeOK
<1>2. /\ db' \in Database /\ db'.object = db.object
      /\ db'.purge = db.purge /\ db'.gone = db.gone
  <2> DEFINE allowed == [db.suppression[r] EXCEPT !.allowed = TRUE]
             tombs == [db.suppression EXCEPT ![r] = allowed]
  <2>1. db' = [db EXCEPT !.suppression = tombs]
    BY DEF AllowReimport
  <2>2. db.suppression \in [Record -> Suppression]
    BY <1>1 DEF Database
  <2>3. allowed \in Suppression
    BY <2>2, Zenon DEF Suppression
  <2>4. tombs \in [Record -> Suppression]
    <3> HIDE DEF allowed
    <3> QED
      BY <2>2, <2>3
  <2> HIDE DEF tombs
  <2> QED
    BY <1>1, <2>1, <2>4 DEF Database
<1>3. Accounted(db', used, store, link)
  BY <1>2, AccountedSame DEF Objects
<1> QED
  BY <1>1, <1>2, <1>3, DatabaseStep DEF Objects, TypeOK

\* What is locked by a pass has a good reason to be removed: no link to it is good.
LEMMA LockedFields ==
  ASSUME Objects, NEW w \in Worker
  PROVE  /\ wk[w] \in Pass /\ wk[w].batch \in SUBSET Object
         /\ wk[w].done \in SUBSET Object /\ wk[w].failed \in SUBSET Object
         /\ wk[w].done \cup wk[w].failed \subseteq wk[w].batch
         /\ wk[w].done \cap wk[w].failed = {} /\ wk[w].done \cap store = {}
         /\ \A o \in wk[w].batch : /\ db.purge[o] = 0 /\ db.purge[o] # None
                                   /\ o \in used /\ link[o] = 0
<1>1. wk[w] \in Pass
  BY DEF Objects, TypeOK
<1>2. /\ wk[w].batch \in SUBSET Object /\ wk[w].done \in SUBSET Object
      /\ wk[w].failed \in SUBSET Object
  BY <1>1 DEF Pass
<1>3. ASSUME NEW o \in wk[w].batch
      PROVE  /\ db.purge[o] = 0 /\ db.purge[o] # None /\ o \in used /\ link[o] = 0
  <2>1. db.purge[o] = 0 /\ db.purge[o] # None
    BY Constants DEF Objects, Passes
  <2>2. link[o] \in Nat /\ AccountedAt(db, o, used, store, link)
    BY <1>2, Constants DEF Objects, TypeOK, Accounted
  <2> QED
    BY <2>1, <2>2 DEF AccountedAt
<1> QED
  BY <1>1, <1>2, <1>3 DEF Objects, Passes

\* A pass changes, and the store holds no more than before.
LEMMA PassStep ==
  ASSUME Objects, NEW w \in Worker, NEW pass \in Pass,
         wk' = [wk EXCEPT ![w] = pass], store' \in SUBSET store,
         UNCHANGED <<db, used, link, deleted, backup, ledger, restores>>,
         pass.done \cap pass.failed = {},
         pass.done \cup pass.failed \subseteq pass.batch,
         pass.done \cap store' = {},
         \A o \in pass.batch : db.purge[o] = 0,
         \A v \in Worker \ {w} : wk[v].batch \cap pass.batch = {}
  PROVE  Objects'
<1>1. TypeOK'
  BY DEF Objects, TypeOK
<1>2. \A v \in Worker : wk'[v] = IF v = w THEN pass ELSE wk[v]
  BY DEF Objects, TypeOK
<1>3. Passes'
  BY <1>2 DEF Objects, Passes
<1>4. \A x \in Object : x \notin used => x \notin store' /\ link[x] = 0
  BY DEF Objects, Accounted, AccountedAt
<1>5. Accounted(db, used, store', link) /\ Accounted(backup, used, store', link)
  BY <1>4, AccountedElsewhere DEF Objects
<1> QED
  BY <1>1, <1>3, <1>5 DEF Objects

LEMMA RestingIsPass ==
  Resting \in Pass /\ Resting.batch = {} /\ Resting.done = {} /\ Resting.failed = {}
BY DEF Resting, Pass

LEMMA BeginObjects ==
  ASSUME Objects, NEW w \in Worker, BeginPass(w) PROVE Objects'
<1> DEFINE due == DueNow \ UNION {wk[v].batch : v \in Worker}
           pass == [Resting EXCEPT !.batch = due]
<1>1. /\ wk' = [wk EXCEPT ![w] = pass] /\ store' = store
      /\ UNCHANGED <<db, used, link, deleted, backup, ledger, restores>>
  BY DEF BeginPass, Goto
<1>2. /\ pass \in Pass /\ pass.batch = due /\ pass.done = {} /\ pass.failed = {}
  BY DEF Resting, Pass, DueNow
<1>3. \A o \in due : db.purge[o] = 0
  BY DEF DueNow
<1>4. \A v \in Worker : wk[v].batch \cap due = {}
  OBVIOUS
<1> HIDE DEF pass, due
<1> QED
  BY <1>1, <1>2, <1>3, <1>4, PassStep

LEMMA RemoveObjects ==
  ASSUME Objects, NEW w \in Worker, NEW o \in Object, Remove(w, o) \/ FailToRemove(w, o)
  PROVE  Objects'
<1>1. /\ o \in wk[w].batch /\ o \notin wk[w].done /\ o \notin wk[w].failed
      /\ UNCHANGED <<db, used, link, deleted, backup, ledger, restores>>
  BY DEF Remove, FailToRemove, Left, Goto
<1>2. \A v \in Worker \ {w} : wk[v].batch \cap wk[w].batch = {}
  BY DEF Objects, Passes
<1>3. CASE Remove(w, o)
  <2> DEFINE pass == [wk[w] EXCEPT !.done = @ \cup {o}]
  <2>1. wk' = [wk EXCEPT ![w] = pass] /\ store' = store \ {o}
    BY <1>3 DEF Remove, Goto
  <2>2. /\ pass \in Pass /\ pass.batch = wk[w].batch /\ pass.failed = wk[w].failed
        /\ pass.done = wk[w].done \cup {o}
    BY LockedFields DEF Pass
  <2> HIDE DEF pass
  <2>3. /\ pass.done \cap pass.failed = {} /\ pass.done \cap store' = {}
        /\ pass.done \cup pass.failed \subseteq pass.batch
        /\ \A x \in pass.batch : db.purge[x] = 0
        /\ store' \in SUBSET store
    BY <1>1, <2>1, <2>2, LockedFields
  <2>4. \A v \in Worker \ {w} : wk[v].batch \cap pass.batch = {}
    BY <1>2, <2>2
  <2>5. pass \in Pass /\ wk' = [wk EXCEPT ![w] = pass]
    BY <2>1, <2>2
  <2> QED
    BY <1>1, <2>3, <2>4, <2>5, PassStep
<1>4. CASE FailToRemove(w, o)
  <2> DEFINE pass == [wk[w] EXCEPT !.failed = @ \cup {o}]
  <2>1. wk' = [wk EXCEPT ![w] = pass] /\ store' \in {store, store \ {o}}
    BY <1>4 DEF FailToRemove, Goto
  <2>2. /\ pass \in Pass /\ pass.batch = wk[w].batch /\ pass.done = wk[w].done
        /\ pass.failed = wk[w].failed \cup {o}
    BY LockedFields DEF Pass
  <2> HIDE DEF pass
  <2>3. /\ pass.done \cap pass.failed = {} /\ pass.done \cap store' = {}
        /\ pass.done \cup pass.failed \subseteq pass.batch
        /\ \A x \in pass.batch : db.purge[x] = 0
        /\ store' \in SUBSET store
    BY <1>1, <2>1, <2>2, LockedFields
  <2>4. \A v \in Worker \ {w} : wk[v].batch \cap pass.batch = {}
    BY <1>2, <2>2
  <2>5. pass \in Pass /\ wk' = [wk EXCEPT ![w] = pass]
    BY <2>1, <2>2
  <2> QED
    BY <1>1, <2>3, <2>4, <2>5, PassStep
<1> QED
  BY <1>3, <1>4

LEMMA CrashObjects ==
  ASSUME Objects, NEW w \in Worker, Crash(w) PROVE Objects'
BY RestingIsPass, PassStep DEF Crash, Goto

LEMMA CommitObjects ==
  ASSUME Objects, NEW w \in Worker, CommitPass(w) PROVE Objects'
<1> DEFINE rows == [o \in Object |-> IF o \in wk[w].done /\ db.object[o].kind = "blocked"
                                     THEN [db.object[o] EXCEPT !.kind = "purged"]
                                     ELSE db.object[o]]
<1>1. /\ db' = [db EXCEPT !.purge = Retried(db, w), !.object = rows]
      /\ wk' = [wk EXCEPT ![w] = Resting]
      /\ UNCHANGED <<store, used, link, deleted, backup, ledger, restores>>
  BY DEF CommitPass, Goto
<1>2. db \in Database
  BY DEF Objects, TypeOK
<1>3. rows \in [Object -> ObjectRow]
  BY <1>2, Fields DEF ObjectRow
<1>4. Retried(db, w) \in [Object -> (0..PurgeDelay) \cup {None}]
  BY <1>2, Fields, Constants DEF Retried
<1>5. ASSUME NEW o \in Object
      PROVE  /\ rows[o].of = db.object[o].of
             /\ IF o \in wk[w].done /\ db.object[o].kind = "blocked"
                THEN rows[o].kind = "purged" ELSE rows[o] = db.object[o]
             /\ Retried(db, w)[o] = IF o \in wk[w].done THEN None
                                    ELSE IF o \in wk[w].failed THEN RetryDelay
                                    ELSE db.purge[o]
  <2>1. db.object[o] \in ObjectRow
    BY <1>2, Fields
  <2> QED
    BY <2>1 DEF ObjectRow, Retried
<1> HIDE DEF rows
<1>6. /\ db' \in Database /\ db'.object = rows /\ db'.purge = Retried(db, w)
      /\ db'.gone = db.gone
  BY <1>1, <1>2, <1>3, <1>4 DEF Database
<1>7. ASSUME NEW o \in Object PROVE AccountedAt(db', o, used, store, link)
  <2>1. AccountedAt(db, o, used, store, link)
    BY DEF Objects, Accounted
  <2>2. CASE o \in wk[w].done
    <3>1. /\ db'.purge[o] = None /\ o \notin store /\ link[o] = 0 /\ o \in used
          /\ db.purge[o] # None
      BY <1>5, <1>6, <2>2, LockedFields
    <3>2. db.object[o].kind \in {"none", "blocked"}
      BY <1>2, <2>1, <3>1, Fields DEF AccountedAt
    <3>3. db'.object[o].kind \in {"none", "purged"} /\ db'.object[o].of = db.object[o].of
          /\ (db'.object[o].kind = "none" <=> db.object[o].kind = "none")
      BY <1>5, <1>6, <2>2, <3>2
    <3> QED
      BY <1>6, <2>1, <3>1, <3>2, <3>3 DEF AccountedAt
  <2>3. CASE o \in wk[w].failed
    <3>1. o \notin wk[w].done
      BY <2>3, LockedFields
    <3>2. /\ db'.purge[o] = RetryDelay /\ link[o] = 0 /\ o \in used
          /\ db.purge[o] # None /\ db'.object[o] = db.object[o]
      BY <1>5, <1>6, <2>3, <3>1, LockedFields
    <3>3. RetryDelay # None /\ 0 <= RetryDelay
      BY Constants
    <3> QED
      BY <1>6, <2>1, <3>2, <3>3 DEF AccountedAt
  <2>4. CASE o \notin wk[w].done \cup wk[w].failed
    <3>1. db'.purge[o] = db.purge[o] /\ db'.object[o] = db.object[o]
      BY <1>5, <1>6, <2>4
    <3> QED
      BY <1>6, <2>1, <3>1 DEF AccountedAt
  <2> QED
    BY <2>2, <2>3, <2>4
<1>8. Accounted(db', used, store, link)
  BY <1>7 DEF Accounted
<1>9. \A v \in Worker : wk'[v] = IF v = w THEN Resting ELSE wk[v]
  BY <1>1 DEF Objects, TypeOK
<1>10. TypeOK'
  BY <1>1, <1>6, RestingIsPass DEF Objects, TypeOK
<1>11. Passes'
  <2>1. ASSUME NEW v \in Worker \ {w}, NEW o \in wk[v].batch PROVE db'.purge[o] = 0
    <3>1. o \notin wk[w].batch
      BY DEF Objects, Passes
    <3>2. o \in Object /\ db.purge[o] = 0
      BY LockedFields
    <3>3. o \notin wk[w].done /\ o \notin wk[w].failed
      BY <3>1, LockedFields
    <3> QED
      BY <1>5, <1>6, <3>2, <3>3
  <2> QED
    BY <1>1, <1>9, <2>1, RestingIsPass DEF Objects, Passes
<1> QED
  BY <1>1, <1>8, <1>10, <1>11 DEF Objects

LEMMA BackupObjects ==
  ASSUME Objects, TakeBackup PROVE Objects'
<1>1. UNCHANGED <<db, store, used, link, wk, deleted, ledger, restores>> /\ backup' = db
  BY DEF TakeBackup
<1> QED
  BY <1>1 DEF Objects, TypeOK, Passes

LEMMA RestoreObjects ==
  ASSUME Objects, Restore PROVE Objects'
<1>1. /\ UNCHANGED <<store, used, link, deleted, backup>>
      /\ db' = backup /\ ledger' = db.suppression
      /\ wk' = [w \in Worker |-> Resting] /\ restores' = restores + 1 /\ restores < MaxRestores
  BY DEF Restore
<1>2. restores' \in 0..MaxRestores
  BY <1>1, DelaysAssumption DEF Objects, TypeOK
<1>3. ledger' \in [Record -> Suppression]
  BY <1>1, Fields DEF Objects, TypeOK
<1>4. TypeOK'
  BY <1>1, <1>2, <1>3, RestingIsPass DEF Objects, TypeOK
<1>5. Passes'
  BY <1>1, RestingIsPass DEF Passes
<1> QED
  BY <1>1, <1>4, <1>5 DEF Objects

LEMMA LedgerType ==
  ASSUME TypeOK, ~Serving
  PROVE  /\ ledger \in [Record -> Suppression]
         /\ [r \in Record |-> IF ledger[r].at # 0 THEN ledger[r] ELSE db.suppression[r]]
              \in [Record -> Suppression]
BY Fields DEF TypeOK, Serving

\* What apply_ledger writes.
LEMMA LedgerWrites ==
  ASSUME TypeOK, ApplyLedger
  PROVE  LET sup == [r \in Record |-> IF ledger[r].at # 0 THEN ledger[r]
                                      ELSE db.suppression[r]]
             R == {r \in Record : Covered(r)}
         IN db' = [Deleted(db, R) EXCEPT !.suppression = sup]
<1> DEFINE R == {r \in Record : Covered(r)}
<1>1. R \in SUBSET Record /\ db \in Database
  BY DEF TypeOK
<1> HIDE DEF R
<1>2. Deleted(db, R).suppression = db.suppression
  BY <1>1, DeletedFields
<1> QED
  BY <1>2 DEF ApplyLedger, R

LEMMA LedgerObjects ==
  ASSUME Objects, ApplyLedger PROVE Objects'
<1> DEFINE sup == [r \in Record |-> IF ledger[r].at # 0 THEN ledger[r] ELSE db.suppression[r]]
           R == {r \in Record : Covered(r)}
<1>1. db' = [Deleted(db, R) EXCEPT !.suppression = sup]
  BY LedgerWrites DEF Objects
<1>2. sup \in [Record -> Suppression]
  BY LedgerType DEF ApplyLedger, Objects
<1>3. R \in SUBSET Record
  OBVIOUS
<1>4. /\ UNCHANGED <<store, used, link, wk, backup>>
      /\ deleted' \in [Record -> Times] /\ ledger' \in [Record -> Suppression] \cup {None}
      /\ restores' \in 0..MaxRestores
  BY DEF ApplyLedger, Objects, TypeOK
<1> HIDE DEF R, sup
<1> QED
  BY <1>1, <1>2, <1>3, <1>4, EndObjects

\* Time passes for the rows of d.
Later(d) ==
  [d EXCEPT !.purge = [o \in Object |->
     IF d.purge[o] = None \/ d.purge[o] = 0 THEN d.purge[o] ELSE d.purge[o] - 1]]

LEMMA LaterFields ==
  ASSUME NEW d \in Database, NEW drawn, NEW here, NEW left \in [Object -> 0..LinkLife],
         NEW left2, \A o \in Object : left2[o] = IF left[o] = 0 THEN 0 ELSE left[o] - 1,
         Accounted(d, drawn, here, left)
  PROVE  /\ Later(d) \in Database /\ Accounted(Later(d), drawn, here, left2)
         /\ \A o \in Object : d.purge[o] = 0 => Later(d).purge[o] = 0
         /\ Later(d).entry = d.entry /\ Later(d).suppression = d.suppression
<1> DEFINE due == [o \in Object |-> IF d.purge[o] = None \/ d.purge[o] = 0 THEN d.purge[o]
                                    ELSE d.purge[o] - 1]
<1>1. ASSUME NEW o \in Object
      PROVE  /\ due[o] \in (0..PurgeDelay) \cup {None}
             /\ due[o] = None <=> d.purge[o] = None
             /\ d.purge[o] = 0 => due[o] = 0
             /\ d.purge[o] # None /\ left[o] <= d.purge[o] => left2[o] <= due[o]
  <2>1. d.purge[o] \in (0..PurgeDelay) \cup {None} /\ left[o] \in 0..LinkLife
    BY Fields
  <2>2. CASE d.purge[o] = None
    BY <2>2, Constants
  <2>3. CASE d.purge[o] \in 0..PurgeDelay
    <3>1. d.purge[o] # None /\ d.purge[o] \in Nat /\ left[o] \in Nat
      BY <2>1, <2>3, Constants
    <3>2. due[o] = IF d.purge[o] = 0 THEN 0 ELSE d.purge[o] - 1
      BY <3>1
    <3>3. due[o] \in 0..PurgeDelay
      BY <2>3, <3>1, <3>2, Constants
    <3>4. due[o] # None
      BY <3>3, Constants
    <3>5. left[o] <= d.purge[o] => left2[o] <= due[o]
      BY <3>1, <3>2
    <3> QED
      BY <3>1, <3>2, <3>3, <3>4, <3>5
  <2> QED
    BY <2>1, <2>2, <2>3
<1>2. Later(d) = [d EXCEPT !.purge = due] /\ due \in [Object -> (0..PurgeDelay) \cup {None}]
  BY <1>1 DEF Later
<1> HIDE DEF due
<1>3. /\ Later(d) \in Database /\ Later(d).purge = due /\ Later(d).object = d.object
      /\ Later(d).entry = d.entry /\ Later(d).gone = d.gone
      /\ Later(d).suppression = d.suppression
  BY <1>2 DEF Database
<1>4. ASSUME NEW o \in Object PROVE AccountedAt(Later(d), o, drawn, here, left2)
  <2>1. AccountedAt(d, o, drawn, here, left)
    BY DEF Accounted
  <2>2. left[o] = 0 => left2[o] = 0
    OBVIOUS
  <2> QED
    BY <1>1, <1>3, <2>1, <2>2 DEF AccountedAt
<1> QED
  BY <1>1, <1>3, <1>4 DEF Accounted

LEMMA TickWrites ==
  ASSUME TypeOK, Tick
  PROVE  /\ db' = Later(db) /\ backup' = Later(backup)
         /\ \A o \in Object : link'[o] = IF link[o] = 0 THEN 0 ELSE link[o] - 1
         /\ link' \in [Object -> 0..LinkLife]
<1>1. \A o \in Object : link[o] \in 0..LinkLife /\ link[o] # None
  BY Constants DEF TypeOK
<1>2. link' = [o \in Object |-> IF link[o] = 0 THEN 0 ELSE link[o] - 1]
  BY <1>1 DEF Tick
<1>3. \A o \in Object : link'[o] \in 0..LinkLife
  BY <1>1, <1>2, Constants
<1>4. db' = Later(db) /\ backup' = Later(backup)
  BY DEF Tick, Later
<1> QED
  BY <1>2, <1>3, <1>4

LEMMA TickObjects ==
  ASSUME Objects, Tick PROVE Objects'
<1>1. UNCHANGED <<store, used, wk, deleted, ledger, restores>>
  BY DEF Tick
<1>2. /\ db' = Later(db) /\ backup' = Later(backup)
      /\ \A o \in Object : link'[o] = IF link[o] = 0 THEN 0 ELSE link[o] - 1
      /\ link' \in [Object -> 0..LinkLife]
      /\ db \in Database /\ backup \in Database /\ link \in [Object -> 0..LinkLife]
  BY TickWrites DEF Objects, TypeOK
<1>3. /\ Later(db) \in Database /\ Accounted(Later(db), used, store, link')
      /\ \A o \in Object : db.purge[o] = 0 => Later(db).purge[o] = 0
  BY <1>2, LaterFields DEF Objects
<1>4. Later(backup) \in Database /\ Accounted(Later(backup), used, store, link')
  BY <1>2, LaterFields DEF Objects
<1>5. TypeOK'
  BY <1>1, <1>2, <1>3, <1>4 DEF Objects, TypeOK
<1>6. Passes'
  BY <1>1, <1>2, <1>3, PassesKept
<1> QED
  BY <1>1, <1>2, <1>3, <1>4, <1>5, <1>6 DEF Objects

LEMMA NextObjects == Objects /\ [Next]_vars => Objects'
<1> SUFFICES ASSUME Objects, [Next]_vars PROVE Objects'
  OBVIOUS
<1>1. CASE UNCHANGED vars
  BY <1>1 DEF vars, Objects, TypeOK, Passes
<1>2. CASE Owner
  <2>1. ASSUME NEW r \in Record, Create(r) \/ Delete(r) \/ AllowReimport(r)
        PROVE  Objects'
    BY <2>1, CreateObjects, DeleteObjects, AllowObjects
  <2>2. ASSUME NEW r \in Record, NEW o \in Object,
               UploadMarkdown(r, o) \/ CreateAttachment(r, o)
        PROVE  Objects'
    BY <2>2, DrawObjects
  <2>3. ASSUME NEW R \in SUBSET Named, NEW o \in Object, ImportBatch(R, o) PROVE Objects'
    BY <2>3, ImportObjects
  <2>4. ASSUME NEW o \in Object,
               UploadArchive(o) \/ LoseUpload(o) \/ Put(o) \/ CompleteAttachment(o)
        PROVE  Objects'
    <3>1. CASE UploadArchive(o)
      BY <3>1, ArchiveObjects
    <3>2. CASE LoseUpload(o)
      BY <3>2, LostObjects
    <3> QED
      BY <2>4, <3>1, <3>2, PutObjects, CompleteObjects
  <2> QED
    BY <1>2, <2>1, <2>2, <2>3, <2>4 DEF Owner
<1>3. ASSUME NEW w \in Worker, Purge(w) PROVE Objects'
  BY <1>3, BeginObjects, RemoveObjects, CommitObjects DEF Purge
<1>4. CASE Fault
  BY <1>4, CrashObjects, RemoveObjects DEF Fault
<1>5. CASE Operator
  BY <1>5, BackupObjects, RestoreObjects, LedgerObjects DEF Operator
<1>6. CASE Tick
  BY <1>6, TickObjects
<1> QED
  BY <1>1, <1>2, <1>3, <1>4, <1>5, <1>6 DEF Next

LEMMA EmptyIsDatabase == Empty \in Database
BY Constants, NoRowIsRow DEF Empty, Database, Suppression, Times

LEMMA InitObjects == Init => Objects
<1> SUFFICES ASSUME Init PROVE Objects
  OBVIOUS
<1>1. TypeOK
  BY EmptyIsDatabase, RestingIsPass, Constants, DelaysAssumption
     DEF Init, TypeOK, Times
<1>2. Accounted(db, used, store, link) /\ Accounted(backup, used, store, link)
  BY NoRowIsRow DEF Init, Empty, Accounted, AccountedAt
<1>3. Passes
  BY RestingIsPass DEF Init, Passes
<1> QED
  BY <1>1, <1>2, <1>3 DEF Objects

(***************************************************************************)
(* Steps and the suppressions.                                             *)
(***************************************************************************)
LEMMA Rows ==
  ASSUME Objects
  PROVE  /\ db \in Database /\ backup \in Database /\ deleted \in [Record -> Times]
         /\ Tombstones \in [Record -> Suppression]
         /\ \A r \in Named : r \in Record
         /\ \A n \in Times : n \in Nat /\ n # None
<1>1. db \in Database /\ backup \in Database /\ deleted \in [Record -> Times]
      /\ ledger \in [Record -> Suppression] \cup {None}
  BY DEF Objects, TypeOK
<1>2. Tombstones \in [Record -> Suppression]
  BY <1>1, Fields DEF Tombstones, Serving
<1> QED
  BY <1>1, <1>2, Constants DEF Times

\* A step that creates and deletes no record and writes no suppression.
Quiet ==
  /\ UNCHANGED <<deleted, ledger>>
  /\ db'.entry = db.entry /\ db'.suppression = db.suppression
  /\ backup'.entry = backup.entry /\ backup'.suppression = backup.suppression

\* A step that creates records only, as of now and by leave of the owner.
Creates ==
  /\ Serving /\ UNCHANGED <<backup, deleted, ledger>>
  /\ db'.suppression = db.suppression
  /\ \A x \in Record : db'.entry[x] # db.entry[x] =>
       db.entry[x] = None /\ ~Denied(x) /\ db'.entry[x] = deleted[x]

LEMMA CreateCreates ==
  ASSUME Objects, NEW r \in Record, Create(r) PROVE Creates
<1>1. /\ Serving /\ ~Denied(r) /\ UNCHANGED <<backup, deleted, ledger>>
      /\ db' = [db EXCEPT !.entry[r] = deleted[r]] /\ db.entry[r] = None
      /\ deleted[r] \in Times /\ db \in Database
  BY Rows DEF Create, Elsewhere
<1>2. db'.entry = [db.entry EXCEPT ![r] = deleted[r]] /\ db'.suppression = db.suppression
  BY <1>1, EntrySet
<1> QED
  BY <1>1, <1>2, Fields DEF Creates

LEMMA MarkdownCreates ==
  ASSUME Objects, NEW r \in Record, NEW o \in Object, UploadMarkdown(r, o) PROVE Creates
<1> DEFINE at == Imported(r)
           row == [kind |-> "kept", of |-> {r}]
<1>1. /\ Serving /\ ~Denied(r) /\ UNCHANGED <<backup, deleted, ledger>>
      /\ db' = [db EXCEPT !.object[o] = row, !.entry[r] = at]
      /\ db \in Database
      /\ at = IF db.entry[r] = None THEN deleted[r] ELSE db.entry[r]
  BY Rows DEF UploadMarkdown, Elsewhere, Imported
<1> HIDE DEF at, row
<1>2. db'.entry = [db.entry EXCEPT ![r] = at] /\ db'.suppression = db.suppression
  BY <1>1 DEF Database
<1>3. \A x \in Record : db'.entry[x] = IF x = r THEN at ELSE db.entry[x]
  BY <1>1, <1>2, Fields
<1> QED
  BY <1>1, <1>2, <1>3 DEF Creates

LEMMA ImportCreates ==
  ASSUME Objects, NEW R \in SUBSET Named, NEW o \in Object, ImportBatch(R, o) PROVE Creates
<1>1. /\ db'.suppression = db.suppression
      /\ \A x \in Record :
           db'.entry[x] = IF x \in R /\ ~Denied(x) THEN Imported(x) ELSE db.entry[x]
  BY BatchWrites
<1> QED
  BY <1>1 DEF Creates, ImportBatch, Elsewhere, Imported

\* What a step may be to records and suppressions.
LEMMA StepKinds ==
  ASSUME Objects, [Next]_vars
  PROVE  \/ Quiet \/ Creates
         \/ \E r \in Record : Delete(r) \/ AllowReimport(r)
         \/ TakeBackup \/ Restore \/ ApplyLedger
<1>0. db \in Database /\ backup \in Database
  BY Rows
<1>1. CASE UNCHANGED vars
  BY <1>1 DEF vars, Quiet
<1>2. CASE Owner
  <2>1. ASSUME NEW r \in Record, Create(r) PROVE Creates
    BY <2>1, CreateCreates
  <2>2. ASSUME NEW r \in Record, NEW o \in Object, UploadMarkdown(r, o) PROVE Creates
    BY <2>2, MarkdownCreates
  <2>3. ASSUME NEW R \in SUBSET Named, NEW o \in Object, ImportBatch(R, o) PROVE Creates
    BY <2>3, ImportCreates
  <2>4. ASSUME NEW r \in Record, NEW o \in Object, CreateAttachment(r, o) PROVE Quiet
    <3>1. db'.entry = db.entry /\ db'.suppression = db.suppression
      BY <1>0, <2>4 DEF CreateAttachment, Database
    <3> QED
      BY <2>4, <3>1 DEF CreateAttachment, Elsewhere, Quiet
  <2>5. ASSUME NEW o \in Object,
               UploadArchive(o) \/ LoseUpload(o) \/ Put(o) \/ CompleteAttachment(o)
        PROVE  Quiet
    <3>1. db'.entry = db.entry /\ db'.suppression = db.suppression
      BY <1>0, <2>5 DEF UploadArchive, LoseUpload, Put, CompleteAttachment, Database
    <3>2. UNCHANGED <<backup, deleted, ledger>>
      BY <2>5 DEF UploadArchive, LoseUpload, Put, CompleteAttachment, Elsewhere
    <3> QED
      BY <3>1, <3>2 DEF Quiet
  <2> QED
    BY <1>2, <2>1, <2>2, <2>3, <2>4, <2>5 DEF Owner
<1>3. ASSUME NEW w \in Worker, Purge(w) \/ Crash(w) \/ \E o \in Object : FailToRemove(w, o)
      PROVE  Quiet
  <2>1. UNCHANGED <<backup, deleted, ledger>>
    BY <1>3 DEF Purge, BeginPass, Remove, CommitPass, Crash, FailToRemove, Goto
  <2>2. db'.entry = db.entry /\ db'.suppression = db.suppression
    <3>1. CASE CommitPass(w)
      BY <1>0, <3>1 DEF CommitPass, Database
    <3> QED
      BY <1>3, <3>1 DEF Purge, BeginPass, Remove, Crash, FailToRemove
  <2> QED
    BY <2>1, <2>2 DEF Quiet
<1>4. CASE Tick
  <2>1. db' = Later(db) /\ backup' = Later(backup)
    BY <1>4, TickWrites DEF Objects
  <2>2. \A d \in Database : Later(d).entry = d.entry /\ Later(d).suppression = d.suppression
    BY DEF Later, Database
  <2> QED
    BY <1>0, <1>4, <2>1, <2>2 DEF Tick, Quiet
<1> QED
  BY <1>1, <1>2, <1>3, <1>4 DEF Next, Fault, Operator

LEMMA QuietSuppressions ==
  ASSUME Suppressions, Quiet PROVE Suppressions'
<1>1. Tombstones' = Tombstones
  BY DEF Tombstones, Serving, Quiet
<1> QED
  BY <1>1 DEF Suppressions, Honoured, Quiet

LEMMA CreatesSuppressions ==
  ASSUME Objects, Suppressions, Creates PROVE Suppressions'
<1>1. Tombstones' = Tombstones /\ Tombstones = db.suppression
  BY DEF Tombstones, Serving, Creates
<1>2. Honoured(db', deleted, Tombstones)
  <2> SUFFICES ASSUME NEW x \in Named
               PROVE  /\ db.suppression[x].at <= deleted[x]
                      /\ db'.entry[x] # None =>
                           /\ db'.entry[x] = db.suppression[x].at
                           /\ db.suppression[x].at # 0 => db.suppression[x].allowed
                      /\ /\ db.suppression[x].at = deleted[x]
                         /\ db.suppression[x].at # 0 /\ db.suppression[x].allowed
                         => Tombstones[x].allowed
    BY DEF Honoured, Creates
  <2>1. /\ x \in Record /\ db.suppression[x].at = deleted[x]
        /\ db.suppression[x].at <= deleted[x]
        /\ db.entry[x] # None => /\ db.entry[x] = db.suppression[x].at
                                 /\ db.suppression[x].at # 0 => db.suppression[x].allowed
    BY <1>1, Rows DEF Suppressions, Honoured
  <2>2. CASE db'.entry[x] # db.entry[x]
    BY <1>1, <2>1, <2>2 DEF Denied, Creates
  <2>3. CASE db'.entry[x] = db.entry[x]
    BY <1>1, <2>1, <2>3
  <2> QED
    BY <2>2, <2>3
<1> QED
  BY <1>1, <1>2 DEF Suppressions, Creates

LEMMA DeleteSuppressions ==
  ASSUME Objects, Suppressions, NEW r \in Record, Delete(r) PROVE Suppressions'
<1> DEFINE row == Suppressed(r, deleted[r] + 1)
           sup == [db.suppression EXCEPT ![r] = row]
<1>1. /\ sup \in [Record -> Suppression]
      /\ db' = [Deleted(db, {r}) EXCEPT !.suppression = sup]
  BY DeleteWrites DEF Objects
<1>2. /\ Serving /\ backup' = backup /\ ledger' = ledger
      /\ deleted' = [deleted EXCEPT ![r] = @ + 1]
      /\ db \in Database /\ {r} \in SUBSET Record
  BY Rows DEF Delete
<1>3. r \in Named => row.at = deleted[r] + 1
  BY DEF Suppressed
<1> HIDE DEF row
<1>4. \A x \in Record : sup[x] = IF x = r THEN row ELSE db.suppression[x]
  BY <1>2, Fields
<1> HIDE DEF sup
<1>5. Deleted(db, {r}) \in Database
  BY <1>2, DeletedFields
<1>6. db'.suppression = sup /\ db'.entry = Deleted(db, {r}).entry
  BY <1>1, <1>5, SuppressionSet
<1>7. Tombstones = db.suppression /\ Tombstones' = sup
  BY <1>2, <1>6 DEF Tombstones, Serving
<1>8. \A x \in Record : db'.entry[x] = IF x = r THEN None ELSE db.entry[x]
  BY <1>2, <1>6, DeletedFields
<1>9. \A x \in Record : deleted'[x] = IF x = r THEN deleted[x] + 1 ELSE deleted[x]
  BY <1>2, Rows
<1>10. ASSUME NEW x \in Named
       PROVE  /\ Tombstones'[x].at = deleted'[x]
              /\ db'.suppression[x].at <= deleted'[x]
              /\ db'.entry[x] # None =>
                   /\ db'.entry[x] = db'.suppression[x].at
                   /\ db'.suppression[x].at # 0 => db'.suppression[x].allowed
              /\ backup'.suppression[x].at <= deleted'[x]
              /\ backup'.entry[x] # None =>
                   /\ backup'.entry[x] = backup'.suppression[x].at
                   /\ backup'.suppression[x].at # 0 => backup'.suppression[x].allowed
              /\ /\ backup'.suppression[x].at = deleted'[x]
                 /\ backup'.suppression[x].at # 0 /\ backup'.suppression[x].allowed
                 => Tombstones'[x].allowed
  <2>1. /\ x \in Record /\ db.suppression[x].at = deleted[x] /\ deleted[x] \in Nat
        /\ backup.suppression[x].at \in Nat
    BY <1>7, Rows, Fields DEF Suppressions, Suppression
  <2>2. /\ db.entry[x] # None => /\ db.entry[x] = db.suppression[x].at
                                 /\ db.suppression[x].at # 0 => db.suppression[x].allowed
        /\ backup.suppression[x].at <= deleted[x]
        /\ backup.entry[x] # None =>
             /\ backup.entry[x] = backup.suppression[x].at
             /\ backup.suppression[x].at # 0 => backup.suppression[x].allowed
        /\ /\ backup.suppression[x].at = deleted[x]
           /\ backup.suppression[x].at # 0 /\ backup.suppression[x].allowed
           => db.suppression[x].allowed
    BY <1>7 DEF Suppressions, Honoured
  <2>3. CASE x = r
    BY <1>2, <1>3, <1>4, <1>6, <1>7, <1>8, <1>9, <2>1, <2>2, <2>3
  <2>4. CASE x # r
    <3>1. /\ sup[x] = db.suppression[x] /\ deleted'[x] = deleted[x]
          /\ db'.entry[x] = db.entry[x]
      BY <1>4, <1>8, <1>9, <2>1, <2>4
    <3>2. db.suppression[x].at <= deleted[x]
      BY <2>1
    <3>3. /\ Tombstones'[x] = db.suppression[x] /\ db'.suppression[x] = db.suppression[x]
          /\ backup' = backup
      BY <1>2, <1>6, <1>7, <3>1
    <3> QED
      BY Zenon, <2>1, <2>2, <3>1, <3>2, <3>3
  <2> QED
    BY <2>3, <2>4
<1> QED
  BY <1>6, <1>7, <1>10 DEF Suppressions, Honoured

\* The suppressions after allow_reimport.
LEMMA AllowWrites ==
  ASSUME Objects, NEW r \in Record, AllowReimport(r)
  PROVE  /\ db'.entry = db.entry
         /\ \A x \in Record :
              /\ db'.suppression[x].at = db.suppression[x].at
              /\ db'.suppression[x].allowed = IF x = r THEN TRUE ELSE db.suppression[x].allowed
<1>1. db \in Database /\ db' = [db EXCEPT !.suppression[r].allowed = TRUE]
  BY Rows DEF AllowReimport
<1>2. db'.entry = db.entry
      /\ db'.suppression = [db.suppression EXCEPT ![r].allowed = TRUE]
  BY <1>1 DEF Database
<1>3. ASSUME NEW x \in Record
      PROVE  /\ db'.suppression[x].at = db.suppression[x].at
             /\ db'.suppression[x].allowed = IF x = r THEN TRUE ELSE db.suppression[x].allowed
  <2>1. db.suppression[x] \in Suppression /\ db.suppression[r] \in Suppression
    BY <1>1, Fields
  <2>2. db'.suppression[x] = IF x = r THEN [db.suppression[r] EXCEPT !.allowed = TRUE]
                             ELSE db.suppression[x]
    BY <1>1, <1>2, Fields
  <2> QED
    BY <2>1, <2>2 DEF Suppression
<1> QED
  BY <1>2, <1>3

LEMMA AllowSuppressions ==
  ASSUME Objects, Suppressions, NEW r \in Record, AllowReimport(r) PROVE Suppressions'
<1>1. Serving /\ UNCHANGED <<backup, deleted, ledger>>
  BY DEF AllowReimport, Elsewhere
<1>2. db'.entry = db.entry
  BY AllowWrites
<1>3. \A x \in Record :
        /\ db'.suppression[x].at = db.suppression[x].at
        /\ db'.suppression[x].allowed = IF x = r THEN TRUE ELSE db.suppression[x].allowed
  BY AllowWrites
<1>4. Tombstones' = db'.suppression /\ Tombstones = db.suppression
  BY <1>1 DEF Tombstones, Serving
<1>5. Honoured(db', deleted, Tombstones') /\ Honoured(backup, deleted, Tombstones')
  BY <1>2, <1>3, <1>4, Rows DEF Suppressions, Honoured
<1>6. \A x \in Named : Tombstones'[x].at = deleted[x]
  BY <1>3, <1>4, Rows DEF Suppressions
<1> QED
  BY <1>1, <1>5, <1>6 DEF Suppressions

\* After a restore the exported ledger is there, and is what counts.
LEMMA RestoreWrites ==
  ASSUME Objects, Restore
  PROVE  /\ Serving /\ backup' = backup /\ deleted' = deleted /\ db' = backup
         /\ Tombstones' = db.suppression /\ Tombstones = db.suppression
<1>1. /\ Serving /\ backup' = backup /\ deleted' = deleted
      /\ db' = backup /\ ledger' = db.suppression
  BY DEF Restore
<1>2. ledger' # None
  BY <1>1, Rows, Fields, ExportAssumption
<1> QED
  BY <1>1, <1>2 DEF Tombstones, Serving

LEMMA RestoreSuppressions ==
  ASSUME Objects, Suppressions, Restore PROVE Suppressions'
BY RestoreWrites DEF Suppressions

LEMMA LedgerSuppressions ==
  ASSUME Objects, Suppressions, ApplyLedger PROVE Suppressions'
<1> DEFINE sup == [r \in Record |-> IF ledger[r].at # 0 THEN ledger[r] ELSE db.suppression[r]]
           R == {r \in Record : Covered(r)}
<1>1. db' = [Deleted(db, R) EXCEPT !.suppression = sup]
  BY LedgerWrites DEF Objects
<1>2. /\ ~Serving /\ backup' = backup /\ deleted' = deleted /\ ledger' = None
      /\ db \in Database /\ R \in SUBSET Record
  BY Rows DEF ApplyLedger
<1>3. sup \in [Record -> Suppression]
  BY <1>2, LedgerType DEF Objects
<1>4. Deleted(db, R) \in Database
      /\ \A x \in Record : Deleted(db, R).entry[x] = IF Covered(x) THEN None ELSE db.entry[x]
  BY <1>2, DeletedFields
<1>5. \A x \in Record : sup[x] = IF ledger[x].at # 0 THEN ledger[x] ELSE db.suppression[x]
  OBVIOUS
<1> HIDE DEF sup, R
<1>6. db'.suppression = sup /\ db'.entry = Deleted(db, R).entry
  BY <1>1, <1>3, <1>4, SuppressionSet
<1>7. Tombstones = ledger /\ Tombstones' = sup
  BY <1>2, <1>6 DEF Tombstones, Serving
<1>8. ASSUME NEW x \in Named
      PROVE  /\ sup[x].at = deleted[x]
             /\ db'.entry[x] # None =>
                  db'.entry[x] = sup[x].at /\ (sup[x].at # 0 => sup[x].allowed)
             /\ /\ backup.suppression[x].at = deleted[x]
                /\ backup.suppression[x].at # 0 /\ backup.suppression[x].allowed
                => sup[x].allowed
  <2>1. /\ x \in Record /\ ledger[x].at = deleted[x] /\ deleted[x] \in Nat
        /\ db.suppression[x].at \in Nat /\ backup.suppression[x].at \in Nat
    BY <1>7, Rows, Fields DEF Suppressions, Suppression
  <2>2. /\ db.suppression[x].at <= deleted[x]
        /\ db.entry[x] # None => /\ db.entry[x] = db.suppression[x].at
                                 /\ db.suppression[x].at # 0 => db.suppression[x].allowed
        /\ /\ db.suppression[x].at = deleted[x]
           /\ db.suppression[x].at # 0 /\ db.suppression[x].allowed
           => ledger[x].allowed
        /\ /\ backup.suppression[x].at = deleted[x]
           /\ backup.suppression[x].at # 0 /\ backup.suppression[x].allowed
           => ledger[x].allowed
    BY <1>7 DEF Suppressions, Honoured
  <2>3. db'.entry[x] # None =>
          db'.entry[x] = db.entry[x] /\ ~(ledger[x].at # 0 /\ db.entry[x] < ledger[x].at)
    BY <1>4, <1>6, <2>1 DEF Covered
  <2>4. CASE ledger[x].at # 0
    BY <1>5, <2>1, <2>2, <2>3, <2>4
  <2>5. CASE ledger[x].at = 0
    BY <1>5, <2>1, <2>2, <2>3, <2>5
  <2> QED
    BY <2>4, <2>5
<1>9. \A x \in Named : backup.suppression[x].at <= deleted[x] /\ deleted[x] \in Nat
                       /\ (backup.entry[x] # None =>
                             /\ backup.entry[x] = backup.suppression[x].at
                             /\ backup.suppression[x].at # 0 => backup.suppression[x].allowed)
  BY Rows DEF Suppressions, Honoured
<1>10. Honoured(db', deleted, sup)
  BY <1>6, <1>8, <1>9 DEF Honoured
<1>11. Honoured(backup, deleted, sup)
  BY <1>8, <1>9 DEF Honoured
<1> QED
  BY <1>2, <1>7, <1>8, <1>10, <1>11 DEF Suppressions

LEMMA BackupSuppressions ==
  ASSUME Suppressions, TakeBackup PROVE Suppressions'
<1>1. Tombstones = db.suppression /\ Tombstones' = Tombstones
  BY DEF TakeBackup, Tombstones, Serving
<1> QED
  BY <1>1 DEF TakeBackup, Suppressions

LEMMA NextSuppressions == Objects /\ Suppressions /\ [Next]_vars => Suppressions'
BY StepKinds, QuietSuppressions, CreatesSuppressions, DeleteSuppressions, AllowSuppressions,
   BackupSuppressions, RestoreSuppressions, LedgerSuppressions

LEMMA NextNameless == Objects /\ Nameless /\ [Next]_vars => Nameless'
<1> SUFFICES ASSUME Objects, Nameless, [Next]_vars PROVE Nameless'
  OBVIOUS
<1>1. CASE Quiet \/ Creates
  BY <1>1 DEF Nameless, Tombstones, Serving, Quiet, Creates
<1>2. ASSUME NEW r \in Record, Delete(r) PROVE Nameless'
  <2> DEFINE row == Suppressed(r, deleted[r] + 1)
             sup == [db.suppression EXCEPT ![r] = row]
  <2>1. /\ sup \in [Record -> Suppression] /\ db \in Database /\ {r} \in SUBSET Record
        /\ db' = [Deleted(db, {r}) EXCEPT !.suppression = sup]
    BY <1>2, DeleteWrites, Rows DEF Objects
  <2>2. r \notin Named => row = db.suppression[r]
    BY DEF Suppressed
  <2> HIDE DEF row
  <2>3. \A x \in Record : sup[x] = IF x = r THEN row ELSE db.suppression[x]
    BY <2>1, Fields
  <2> HIDE DEF sup
  <2>4. Deleted(db, {r}) \in Database
    BY <2>1, DeletedFields
  <2>5. db'.suppression = sup
    BY <2>1, <2>4, SuppressionSet
  <2>6. \A x \in Record \ Named : db'.suppression[x] = db.suppression[x]
    BY <2>2, <2>3, <2>5
  <2> QED
    BY <1>2, <2>6 DEF Delete, Nameless, Tombstones, Serving
<1>3. ASSUME NEW r \in Record, AllowReimport(r) PROVE Nameless'
  <2>1. \A x \in Record : db'.suppression[x].at = db.suppression[x].at
    BY <1>3, AllowWrites
  <2> QED
    BY <1>3, <2>1 DEF AllowReimport, Elsewhere, Nameless, Tombstones, Serving
<1>4. CASE TakeBackup
  BY <1>4 DEF TakeBackup, Nameless, Tombstones, Serving
<1>5. CASE Restore
  BY <1>5, RestoreWrites DEF Nameless
<1>6. CASE ApplyLedger
  <2> DEFINE sup == [r \in Record |-> IF ledger[r].at # 0 THEN ledger[r] ELSE db.suppression[r]]
             R == {r \in Record : Covered(r)}
  <2>1. /\ db' = [Deleted(db, R) EXCEPT !.suppression = sup] /\ db \in Database
        /\ R \in SUBSET Record /\ sup \in [Record -> Suppression]
    BY <1>6, LedgerWrites, LedgerType, Rows DEF Objects, ApplyLedger
  <2>2. Deleted(db, R) \in Database
    BY <2>1, DeletedFields
  <2> HIDE DEF R
  <2>3. db'.suppression = sup
    <3> HIDE DEF sup
    <3> QED
      BY <2>1, <2>2, SuppressionSet
  <2>4. \A x \in Record \ Named : sup[x].at = 0
    BY <1>6 DEF ApplyLedger, Nameless, Tombstones
  <2> HIDE DEF sup
  <2> QED
    BY <1>6, <2>3, <2>4 DEF ApplyLedger, Nameless, Tombstones, Serving
<1> QED
  BY <1>1, <1>2, <1>3, <1>4, <1>5, <1>6, StepKinds

LEMMA InitSuppressions == Init => Suppressions
<1> SUFFICES ASSUME Init PROVE Suppressions
  OBVIOUS
<1>1. Serving /\ Tombstones = Empty.suppression /\ db = Empty /\ backup = Empty
  BY DEF Init, Tombstones, Serving
<1>2. \A r \in Named : /\ Empty.entry[r] = None /\ Empty.suppression[r].at = 0
                       /\ deleted[r] = 0
  BY Constants DEF Init, Empty
<1> QED
  BY <1>1, <1>2 DEF Suppressions, Honoured

LEMMA InitNameless == Init => Nameless
<1> SUFFICES ASSUME Init PROVE Nameless
  OBVIOUS
<1>1. Tombstones = Empty.suppression /\ db = Empty /\ backup = Empty
  BY DEF Init, Tombstones, Serving
<1>2. \A r \in Record : Empty.suppression[r].at = 0
  BY DEF Empty
<1> QED
  BY <1>1, <1>2 DEF Nameless

(***************************************************************************)
(* Theorems.                                                               *)
(***************************************************************************)

(***************************************************************************)
(* Rows, store, links, passes and the ledger agree with one another, also  *)
(* in the backup that may be restored next.                                *)
(***************************************************************************)
THEOREM StoreInvariant == Spec => []IInv
<1>1. Init => IInv
  BY InitObjects, InitSuppressions, InitNameless DEF IInv
<1>2. IInv /\ [Next]_vars => IInv'
  BY NextObjects, NextSuppressions, NextNameless DEF IInv
<1> QED
  BY <1>1, <1>2, PTL DEF Spec

(***************************************************************************)
(* Every variable keeps its type: times to wait stay within the delays the *)
(* code names, and deletions and restores within their bounds.             *)
(***************************************************************************)
THEOREM TypeCorrect == Spec => []TypeOK
BY StoreInvariant, PTL DEF IInv, Objects

(***************************************************************************)
(* What is stored of a record the database in force knows to be deleted is *)
(* in the outbox (queue_purge, process_purges): uploads by old links,      *)
(* failed and crashed passes and restored backups leave nothing of it      *)
(* behind that no pass will look at.  Of an object made and queued after   *)
(* the backup that is restored no database knows, and nothing is said.     *)
(***************************************************************************)
THEOREM NothingForgotten == Spec => []NothingIsForgotten
<1>1. IInv => NothingIsForgotten
  <2> SUFFICES ASSUME IInv, NEW o \in store \cap db.gone PROVE db.purge[o] # None
    BY DEF NothingIsForgotten
  <2>1. o \in Object
    BY DEF IInv, Objects, TypeOK
  <2> QED
    BY <2>1 DEF IInv, Objects, Accounted, AccountedAt
<1> QED
  BY <1>1, StoreInvariant, PTL

(***************************************************************************)
(* A restored backup brings no record back that its owner has deleted      *)
(* since, and no import creates one that is suppressed (apply_ledger,      *)
(* check_collection).                                                      *)
(***************************************************************************)
THEOREM LedgerHonoured == Spec => []LedgerIsHonoured
<1>1. IInv => LedgerIsHonoured
  <2> SUFFICES ASSUME IInv, Serving, NEW r \in Named, db.entry[r] # None
               PROVE  db.entry[r] = deleted[r] /\ ~Denied(r)
    BY DEF LedgerIsHonoured
  <2>1. Tombstones[r].at = deleted[r] /\ Tombstones = db.suppression
    BY DEF IInv, Suppressions, Tombstones
  <2>2. /\ db.entry[r] = db.suppression[r].at
        /\ db.suppression[r].at # 0 => db.suppression[r].allowed
    BY DEF IInv, Suppressions, Honoured
  <2> QED
    BY <2>1, <2>2 DEF Denied
<1> QED
  BY <1>1, StoreInvariant, PTL

(***************************************************************************)
(* A record that lives by leave of its owner is not taken for the one that *)
(* was deleted: neither applying the ledger to a backup that has it        *)
(* (apply_ledger) nor an import that finds it again                        *)
(* (upsert_external_entry) removes or renews it; only the owner's own      *)
(* deletion and the restore of a backup do.                                *)
(***************************************************************************)
THEOREM LivingRecordsRemain == Spec => LivingRecordsStay
<1>1. ASSUME IInv, [Next]_vars, NEW r \in Record,
             db.entry[r] # None, db.entry[r] = deleted[r], db'.entry[r] # db.entry[r]
      PROVE  deleted'[r] = deleted[r] + 1 \/ restores' = restores + 1
  <2>0. Objects
    BY <1>1 DEF IInv
  <2>1. ~Quiet /\ ~Creates
    BY <1>1 DEF Quiet, Creates
  <2>2. ASSUME NEW x \in Record, Delete(x) PROVE deleted'[r] = deleted[r] + 1
    <3>1. db' = [Deleted(db, {x}) EXCEPT !.suppression[x] = Suppressed(x, deleted[x] + 1)]
          /\ deleted' = [deleted EXCEPT ![x] = @ + 1]
      BY <2>2 DEF Delete
    <3>2. Deleted(db, {x}) \in Database
          /\ (r # x => Deleted(db, {x}).entry[r] = db.entry[r])
      BY <2>0, Rows, DeletedFields
    <3>3. db'.entry = Deleted(db, {x}).entry
      BY <3>1, <3>2 DEF Database
    <3>4. r = x
      BY <1>1, <3>2, <3>3
    <3> QED
      BY <2>0, <3>1, <3>4, Rows
  <2>3. ASSUME NEW x \in Record PROVE ~AllowReimport(x)
    BY <1>1, <2>0, AllowWrites
  <2>4. ~TakeBackup
    BY <1>1 DEF TakeBackup
  <2>5. ~ApplyLedger
    <3> SUFFICES ASSUME ApplyLedger PROVE FALSE
      OBVIOUS
    <3> DEFINE sup == [x \in Record |-> IF ledger[x].at # 0 THEN ledger[x] ELSE db.suppression[x]]
               R == {x \in Record : Covered(x)}
    <3>1. /\ db' = [Deleted(db, R) EXCEPT !.suppression = sup] /\ db \in Database
          /\ R \in SUBSET Record /\ sup \in [Record -> Suppression]
      BY <2>0, LedgerWrites, LedgerType, Rows DEF Objects, ApplyLedger
    <3>2. r \notin R
      <4>1. Tombstones = ledger
        BY DEF ApplyLedger, Tombstones
      <4>2. IF r \in Named THEN ledger[r].at = deleted[r] ELSE ledger[r].at = 0
        BY <1>1, <4>1 DEF IInv, Suppressions, Nameless
      <4>3. deleted[r] \in Nat
        BY <2>0, Rows
      <4> QED
        BY <1>1, <4>2, <4>3 DEF Covered
    <3>3. Deleted(db, R) \in Database /\ Deleted(db, R).entry[r] = db.entry[r]
      BY <3>1, <3>2, DeletedFields
    <3> HIDE DEF sup, R
    <3>4. db'.entry = Deleted(db, R).entry
      BY <3>1, <3>3, SuppressionSet
    <3> QED
      BY <1>1, <3>3, <3>4
  <2> QED
    BY <1>1, <2>0, <2>1, <2>2, <2>3, <2>4, <2>5, StepKinds DEF Restore
<1>2. IInv /\ [Next]_vars =>
        [\A r \in Record :
           db.entry[r] # None /\ db.entry[r] = deleted[r] /\ db'.entry[r] # db.entry[r]
             => deleted'[r] = deleted[r] + 1 \/ restores' = restores + 1]_vars
  BY <1>1
<1> QED
  BY <1>2, StoreInvariant, PTL DEF Spec, LivingRecordsStay

\* An original is scrubbed as purged only when nothing of it is stored (process_purges).
PurgedIsRemoved == \A o \in Object : db.object[o].kind = "purged" => o \notin store

(***************************************************************************)
(* A row that says purged is true, whoever crashed and whichever backup    *)
(* was restored before.                                                    *)
(***************************************************************************)
THEOREM PurgedRemoved == Spec => []PurgedIsRemoved
<1>1. IInv => PurgedIsRemoved
  BY DEF IInv, Objects, Accounted, AccountedAt, PurgedIsRemoved
<1> QED
  BY <1>1, StoreInvariant, PTL

\* A pass has removed o, whether or not it will commit.
Removed(o) == \E w \in Worker : o \in wk[w].done

\* Nothing can bring o back.
Past(o) == o \in used /\ o \notin store /\ link[o] = 0

LEMMA PastStays ==
  ASSUME NEW o \in Object, Objects, Past(o), [Next]_vars PROVE Past(o)'
<1>1. CASE UNCHANGED vars
  BY <1>1 DEF vars, Past
<1>2. CASE Owner
  <2>1. ASSUME NEW r \in Record, Create(r) \/ Delete(r) \/ AllowReimport(r) PROVE Past(o)'
    BY <2>1 DEF Create, Delete, AllowReimport, Past
  <2>2. ASSUME NEW r \in Record, NEW x \in Object,
               UploadMarkdown(r, x) \/ CreateAttachment(r, x)
        PROVE  Past(o)'
    BY <2>2 DEF UploadMarkdown, CreateAttachment, Past, Objects, TypeOK
  <2>3. ASSUME NEW x \in Object,
               UploadArchive(x) \/ LoseUpload(x) \/ Put(x) \/ CompleteAttachment(x)
        PROVE  Past(o)'
    BY <2>3 DEF UploadArchive, LoseUpload, Put, CompleteAttachment, Past
  <2>4. ASSUME NEW R \in SUBSET Named, NEW x \in Object, ImportBatch(R, x) PROVE Past(o)'
    BY <2>4 DEF ImportBatch, Past
  <2> QED
    BY <1>2, <2>1, <2>2, <2>3, <2>4 DEF Owner
<1>3. CASE (\E w \in Worker : Purge(w)) \/ Fault
  BY <1>3 DEF Purge, BeginPass, Remove, CommitPass, Fault, Crash, FailToRemove, Goto, Past
<1>4. CASE Operator
  BY <1>4 DEF Operator, TakeBackup, Restore, ApplyLedger, Past
<1>5. CASE Tick
  BY <1>5, TickWrites DEF Objects, Past, Tick
<1> QED
  BY <1>1, <1>2, <1>3, <1>4, <1>5 DEF Next

(***************************************************************************)
(* What a pass has removed is never stored again: its link had run out     *)
(* when it was due, and no retry, crash, commit or restored backup makes   *)
(* another (create_attachment, queue_purge, process_purges).               *)
(***************************************************************************)
THEOREM RemovedForGood ==
  ASSUME NEW o \in Object PROVE Spec => [](Removed(o) => [](o \notin store))
<1>1. IInv /\ Removed(o) => Past(o)
  <2> SUFFICES ASSUME IInv, NEW w \in Worker, o \in wk[w].done PROVE Past(o)
    BY DEF Removed
  <2> QED
    BY LockedFields DEF IInv, Past
<1>2. IInv /\ Past(o) /\ [Next]_vars => Past(o)'
  BY PastStays DEF IInv
<1>3. Past(o) => o \notin store
  BY DEF Past
<1> QED
  BY <1>1, <1>2, <1>3, StoreInvariant, PTL DEF Spec
=============================================================================

---------------------------- MODULE TemplatesProofs ----------------------------
(***************************************************************************)
(* Proofs about Templates, for any codes and any number of requests, of    *)
(* which any number overlap.                                               *)
(***************************************************************************)
EXTENDS Templates, TLAPS

\* What the constants are.
CodesGiven == Codes # {} /\ DefaultCodes \subseteq Codes

-----------------------------------------------------------------------------
(* Type correctness.                                                       *)

Done == [Idle EXCEPT !.pc = "done"]

LEMMA IdleType ==
  ASSUME CodesGiven
  PROVE  Idle \in Memory /\ Done \in Memory /\ Done.pc = "done"
<1>1. (CHOOSE c \in Codes : TRUE) \in Codes
  BY DEF CodesGiven
<1>2. Idle \in Memory
  BY <1>1, Zenon DEF Idle, Memory
<1>3. QED
  BY <1>2 DEF Done, Memory, Idle

LEMMA NotNoRow == ASSUME NEW x \in Row PROVE x # NoRow
BY DEF Row, NoRow, Request

\* The fields of a new template.
LEMMA NewType ==
  ASSUME NEW r \in Request, NEW system \in BOOLEAN
  PROVE  /\ New(r, system) \in Row /\ New(r, system).id = r
         /\ New(r, system).isSystem = system /\ New(r, system).isActive = TRUE
         /\ New(r, system).body = r
<1>1. New(r, system) \in Row
  BY Zenon DEF New, Row
<1>2. QED
  BY <1>1 DEF New

\* A row that differs from another one in what an administrator may change.
Edits(x, y) == x \in Row /\ x.id = y.id /\ x.isSystem = y.isSystem

\* What the methods make of a row x.
LEMMA EditType ==
  ASSUME NEW x \in Row, NEW active \in BOOLEAN, NEW body \in Request
  PROVE  /\ Edits([x EXCEPT !.isActive = active], x)
         /\ Edits([x EXCEPT !.isActive = active, !.body = body], x)
         /\ LET y == [x EXCEPT !.usageCount = @ + 1]
            IN Edits(y, x) /\ y.isActive = x.isActive /\ y.body = x.body
<1>1. x.usageCount + 1 \in Nat
  BY DEF Row
<1>2. [x EXCEPT !.isActive = active] \in Row
  BY Zenon DEF Row
<1>3. [x EXCEPT !.isActive = active, !.body = body] \in Row
  BY Zenon DEF Row
<1>4. [x EXCEPT !.usageCount = @ + 1] \in Row
  BY <1>1 DEF Row
<1>5. QED
  BY <1>2, <1>3, <1>4 DEF Edits, Row

\* What a save makes of row x, given the entity y of the same id.
LEMMA PatchedType ==
  ASSUME NEW x \in Row, NEW y \in Row, y.id = x.id, y.isSystem = x.isSystem, NEW columns
  PROVE  LET z == Patched(x, y, columns)
         IN /\ Edits(z, x)
            /\ z.isActive \in {x.isActive, y.isActive} /\ z.body \in {x.body, y.body}
<1> DEFINE z == Patched(x, y, columns)
<1>1. DOMAIN x = Column
  BY DEF Row, Column
<1>2. /\ z.id = x.id /\ z.isSystem = x.isSystem
      /\ z.isActive \in {x.isActive, y.isActive} /\ z.body \in {x.body, y.body}
      /\ z.usageCount \in {x.usageCount, y.usageCount}
      /\ z = [c \in Column |-> z[c]]
  BY <1>1 DEF Patched, Column
<1>3. /\ z.id \in Request /\ z.isSystem \in BOOLEAN /\ z.isActive \in BOOLEAN
      /\ z.body \in Request /\ z.usageCount \in Nat
  BY <1>2 DEF Row
<1> HIDE DEF z
<1>4. z \in Row
  BY <1>2, <1>3, Zenon DEF Row, Column
<1>5. QED
  BY <1>2, <1>4 DEF Edits, z

\* A step after which request r remembers m, and no other request changed.
Remembers(r, m) ==
  /\ req[r] \in Memory /\ m \in Memory
  /\ req' = [req EXCEPT ![r] = m]

LEMMA RemembersType ==
  ASSUME TypeOK, NEW r \in Request, NEW m, Remembers(r, m)
  PROVE  /\ req' \in [Request -> Memory] /\ req'[r] = m
         /\ \A q \in Request : q # r => req'[q] = req[q]
BY DEF TypeOK, Remembers

LEMMA SavesRemembers ==
  ASSUME CodesGiven, TypeOK, NEW r \in Request, NEW c \in Codes, NEW entity \in Row,
         NEW o \in {"create", "clone", "update", "render", "delete", "seed"},
         Saves(r, o, c, entity)
  PROVE  \E m : /\ Remembers(r, m) /\ m.pc = "load" /\ m.op = o /\ m.local = entity
                /\ table' = table /\ req[r].pc = "idle"
<1> DEFINE m == [Idle EXCEPT !.pc = "load", !.op = o, !.code = c, !.local = entity]
<1>1. Goes(r, m) /\ req[r].pc = "idle"
  BY DEF Saves, Arrives
<1>2. m \in Memory /\ m.pc = "load" /\ m.op = o /\ m.local = entity
  BY IdleType DEF Memory
<1> HIDE DEF m
<1>3. QED
  BY <1>1, <1>2 DEF Goes, Remembers, TypeOK

LEMMA DeleteRemembers ==
  ASSUME CodesGiven, TypeOK, NEW r \in Request, NEW c \in Codes, Delete(r, c)
  PROVE  \E m : /\ Remembers(r, m) /\ m.pc = "remove" /\ m.op = "delete"
                /\ m.local = table[c] /\ m.code = c
                /\ table[c] \in Row /\ table' = table /\ req[r].pc = "idle"
<1> DEFINE m == [Idle EXCEPT !.pc = "remove", !.op = "delete", !.code = c,
                             !.local = table[c]]
<1>1. Goes(r, m) /\ req[r].pc = "idle" /\ table[c] \in Row
  BY DEF Delete, Arrives, TypeOK
<1>2. /\ m \in Memory /\ m.pc = "remove" /\ m.op = "delete" /\ m.local = table[c]
      /\ m.code = c
  BY <1>1, IdleType DEF Memory
<1> HIDE DEF m
<1>3. QED
  BY <1>1, <1>2 DEF Goes, Remembers, TypeOK

LEMMA SeedRemembers ==
  ASSUME CodesGiven, TypeOK, NEW r \in Request, SeedDefaultTemplates(r)
  PROVE  \E m : /\ Remembers(r, m) /\ m.pc = "seek"
                /\ table' = table /\ req[r].pc = "idle"
<1> DEFINE m == [Idle EXCEPT !.pc = "seek", !.op = "seed", !.left = DefaultCodes]
<1>1. Goes(r, m) /\ req[r].pc = "idle"
  BY DEF SeedDefaultTemplates, Arrives
<1>2. m \in Memory /\ m.pc = "seek"
  BY IdleType DEF Memory
<1> HIDE DEF m
<1>3. QED
  BY <1>1, <1>2 DEF Goes, Remembers, TypeOK

LEMMA SeekRemembers ==
  ASSUME CodesGiven, TypeOK, NEW r \in Request, Seek(r)
  PROVE  /\ table' = table /\ req[r].pc = "seek"
         /\ \E m : /\ Remembers(r, m) /\ m.op = req[r].op
                   /\ m.pc = "seek" \/ (m.pc = "load" /\ m.local = New(r, TRUE))
<1>1. PICK c \in req[r].left :
        LET left == req[r].left \ {c}
        IN IF table[c] = NoRow
           THEN Goes(r, [req[r] EXCEPT !.pc = "load", !.code = c, !.left = left,
                                       !.local = New(r, TRUE)])
           ELSE Goes(r, [req[r] EXCEPT !.left = left])
  BY DEF Seek
<1> DEFINE left == req[r].left \ {c}
           new == New(r, TRUE)
           m1 == [req[r] EXCEPT !.pc = "load", !.code = c, !.left = left, !.local = new]
           m2 == [req[r] EXCEPT !.left = left]
<1>2. Goes(r, m1) \/ Goes(r, m2)
  BY <1>1
<1>3. req[r] \in Memory /\ req[r].pc = "seek" /\ c \in Codes
  BY DEF TypeOK, Seek, Memory, CodesGiven
<1>4. left \in SUBSET DefaultCodes /\ new \in Row
  BY <1>3, NewType DEF Memory
<1> HIDE DEF left, new
<1>5. m1 \in Memory /\ m1.op = req[r].op /\ m1.pc = "load" /\ m1.local = new
  BY <1>3, <1>4 DEF Memory
<1>6. m2 \in Memory /\ m2.op = req[r].op /\ m2.pc = "seek"
  BY <1>3, <1>4 DEF Memory
<1> HIDE DEF m1, m2
<1>7. Remembers(r, m1) \/ Remembers(r, m2)
  BY <1>2, <1>3, <1>5, <1>6 DEF Goes, Remembers
<1>8. QED
  BY <1>2, <1>3, <1>5, <1>6, <1>7 DEF Goes, new

LEMMA LoadRemembers ==
  ASSUME TypeOK, NEW r \in Request, Load(r)
  PROVE  \E m : /\ Remembers(r, m) /\ m.pc = "write" /\ m.op = req[r].op
                /\ m.local = req[r].local
                /\ table' = table /\ req[r].pc = "load"
<1> DEFINE c == req[r].code
           there == table[c] # NoRow /\ table[c].id = req[r].local.id
           absent == ~there
           diff == IF there THEN Differing(req[r].local, table[c]) ELSE Column
           m == [req[r] EXCEPT !.pc = "write", !.absent = absent, !.diff = diff]
<1>1. req[r] \in Memory /\ table[c] \in Row \cup {NoRow}
  BY DEF TypeOK, Memory
<1>2. diff \in SUBSET Column /\ absent \in BOOLEAN
  BY <1>1 DEF Differing, Row, Column
<1>3. Goes(r, m) /\ req[r].pc = "load"
  BY DEF Load
<1> HIDE DEF diff, absent
<1>4. m \in Memory
  BY <1>1, <1>2, Zenon DEF Memory
<1>5. m.pc = "write" /\ m.op = req[r].op /\ m.local = req[r].local
  BY <1>1 DEF Memory
<1> HIDE DEF m
<1>6. QED
  BY <1>1, <1>3, <1>4, <1>5 DEF Goes, Remembers

LEMMA EndsRemembers ==
  ASSUME CodesGiven, TypeOK, NEW r \in Request,
         req' = [req EXCEPT ![r] = [Idle EXCEPT !.pc = "done"]]
  PROVE  Remembers(r, Done)
BY IdleType DEF TypeOK, Remembers, Done

LEMMA WriteRemembers ==
  ASSUME CodesGiven, TypeOK, NEW r \in Request, Write(r)
  PROVE  \E m : /\ Remembers(r, m)
                /\ m.pc = "done" \/ (m.pc = "seek" /\ req[r].op = "seed")
<1>1. CASE req[r].op = "seed"
  <2> DEFINE m == [req[r] EXCEPT !.pc = "seek"]
  <2>1. req[r] \in Memory
    BY DEF TypeOK
  <2>2. m \in Memory /\ m.pc = "seek"
    BY <2>1 DEF Memory
  <2>3. req' = [req EXCEPT ![r] = m]
    BY <1>1 DEF Write
  <2> HIDE DEF m
  <2>4. QED
    BY <1>1, <2>1, <2>2, <2>3 DEF Remembers
<1>2. CASE req[r].op # "seed"
  <2>1. req' = [req EXCEPT ![r] = [Idle EXCEPT !.pc = "done"]]
    BY <1>2 DEF Write
  <2>2. QED
    BY <2>1, EndsRemembers, IdleType
<1>3. QED
  BY <1>1, <1>2

-----------------------------------------------------------------------------
(* System templates stay.                                                  *)

\* The copies there are: the rows, and what requests are about to save or remove.
Holds(r) == req[r].pc \in {"load", "write", "remove"}
Held == {req[r].local : r \in {q \in Request : Holds(q)}}
Rows == {table[c] : c \in Codes} \ {NoRow}
Copies == Rows \cup Held

\* A system template is as it was seeded: active, with the body of its creator.
Whole(x) == x \in Row /\ (x.isSystem = TRUE => x.isActive = TRUE /\ x.body = x.id)

Seeding(m) == m.pc = "seek" \/ (m.op = "seed" /\ m.pc \in {"load", "write"})

\* Copies of a template agree on whether it is a system template.  Its id is a
\* request that has begun, and a seed creates system templates only.
CopiesSound ==
  /\ \A x \in Copies : Whole(x) /\ req[x.id].pc # "idle"
  /\ \A x, y \in Copies : x.id = y.id => x.isSystem = y.isSystem
  /\ \A r \in Request : Seeding(req[r]) =>
       \A x \in Copies : x.id = r => x.isSystem = TRUE

\* Who deletes a template has found that it is none of the system's.
DeletesSound ==
  \A r \in Request : req[r].pc = "remove" => req[r].local.isSystem = FALSE

IInv == TypeOK /\ CopiesSound /\ DeletesSound

\* x is a copy of a template there is, or the first one of a template of request r.
From(x, r, system) ==
  /\ Whole(x)
  /\ \/ \E y \in Copies : x.id = y.id /\ x.isSystem = y.isSystem
     \/ /\ x.id = r /\ x.isSystem = system
        /\ \A y \in Copies : y.id = r => y.isSystem = system

\* A step of request r after which every copy comes from one there was, or is new.
LEMMA Advances ==
  ASSUME IInv, NEW r \in Request, NEW m, Remembers(r, m), m.pc # "idle",
         NEW system \in BOOLEAN,
         \A x \in Copies' : From(x, r, system),
         Seeding(m) => /\ system = TRUE
                       /\ \A y \in Copies : y.id = r => y.isSystem = TRUE
  PROVE  CopiesSound'
<1>1. /\ req'[r] = m /\ \A q \in Request : q # r => req'[q] = req[q]
  BY RemembersType DEF IInv
<1>2. ASSUME NEW x \in Copies' PROVE Whole(x) /\ req'[x.id].pc # "idle"
  <2>1. Whole(x) /\ x.id \in Request
    BY <1>2 DEF From, Whole, Row
  <2>2. CASE x.id = r
    BY <1>1, <2>1, <2>2
  <2>3. CASE x.id # r
    <3>1. PICK y \in Copies : x.id = y.id
      BY <1>2, <2>3 DEF From
    <3>2. QED
      BY <1>1, <2>1, <2>3, <3>1 DEF IInv, CopiesSound
  <2>4. QED
    BY <2>2, <2>3
<1>3. ASSUME NEW x \in Copies', NEW y \in Copies', x.id = y.id
      PROVE  x.isSystem = y.isSystem
  BY <1>3 DEF From, IInv, CopiesSound
<1>4. ASSUME NEW q \in Request, Seeding(req'[q]), NEW x \in Copies', x.id = q
      PROVE  x.isSystem = TRUE
  <2>1. CASE q = r
    BY <1>1, <1>4, <2>1 DEF From
  <2>2. CASE q # r
    BY <1>1, <1>4, <2>2 DEF From, IInv, CopiesSound
  <2>3. QED
    BY <2>1, <2>2
<1>5. \A x \in Copies' : Whole(x)
  BY <1>2
<1>6. (\A x \in Copies : Whole(x) /\ req[x.id].pc # "idle")'
  BY <1>2 DEF Whole
<1>7. (\A q \in Request : Seeding(req[q]) => \A x \in Copies : x.id = q => x.isSystem = TRUE)'
  BY <1>4 DEF Seeding
<1>8. QED
  BY <1>3, <1>6, <1>7 DEF CopiesSound

\* A copy comes from itself.
LEMMA FromItself ==
  ASSUME IInv, NEW x \in Copies, NEW r, NEW system PROVE From(x, r, system)
BY DEF IInv, CopiesSound, From

\* Which copies there are after a step that leaves the table alone.
LEMMA CopiesKept ==
  ASSUME IInv, NEW r \in Request, NEW m, Remembers(r, m), table' = table,
         NEW x \in Copies'
  PROVE  x \in Copies \/ (x = m.local /\ m.pc \in {"load", "write", "remove"})
<1>1. req'[r] = m /\ \A q \in Request : q # r => req'[q] = req[q]
  BY RemembersType DEF IInv
<1>2. Rows' = Rows
  BY DEF Rows
<1>3. CASE x \in Rows'
  BY <1>2, <1>3 DEF Copies
<1>4. CASE x \in Held'
  <2>1. PICK q \in Request : x = req'[q].local /\ req'[q].pc \in {"load", "write", "remove"}
    BY <1>4 DEF Held, Holds
  <2>2. QED
    BY <1>1, <2>1 DEF Copies, Held, Holds
<1>5. QED
  BY <1>3, <1>4 DEF Copies

\* A request begins with a new template, or with an edited copy of a row.
LEMMA BeginsSound ==
  ASSUME CodesGiven, IInv, NEW r \in Request, NEW c \in Codes, NEW entity \in Row,
         NEW o \in {"create", "clone", "update", "render"}, Saves(r, o, c, entity),
         Whole(entity),
         \/ entity.id = r
         \/ \E y \in Rows : entity.id = y.id /\ entity.isSystem = y.isSystem
  PROVE  req' \in [Request -> Memory] /\ CopiesSound' /\ DeletesSound'
<1>1. PICK m : /\ Remembers(r, m) /\ m.pc = "load" /\ m.op = o /\ m.local = entity
               /\ table' = table /\ req[r].pc = "idle"
  BY SavesRemembers DEF IInv
<1>2. /\ req' \in [Request -> Memory] /\ req'[r] = m
      /\ \A q \in Request : q # r => req'[q] = req[q]
  BY <1>1, RemembersType DEF IInv
<1>3. \A y \in Copies : y.id # r
  BY <1>1 DEF IInv, CopiesSound
<1>4. From(entity, r, entity.isSystem)
  BY <1>3 DEF From, Copies
<1>5. \A x \in Copies' : From(x, r, entity.isSystem)
  BY <1>1, <1>4, CopiesKept, FromItself
<1>6. ~Seeding(m) /\ entity.isSystem \in BOOLEAN
  BY <1>1 DEF Seeding, Row
<1>7. CopiesSound'
  BY <1>1, <1>5, <1>6, Advances
<1>8. DeletesSound'
  BY <1>1, <1>2 DEF IInv, DeletesSound
<1>9. QED
  BY <1>2, <1>7, <1>8

\* A row is a copy.
LEMMA RowIsCopy ==
  ASSUME IInv, NEW c \in Codes, table[c] # NoRow
  PROVE  table[c] \in Rows /\ table[c] \in Copies /\ table[c] \in Row /\ Whole(table[c])
BY DEF Rows, Copies, IInv, CopiesSound, TypeOK

\* The administrators' methods, and rendering.
LEMMA MethodsSound ==
  ASSUME CodesGiven, IInv, NEW r \in Request, NEW c \in Codes,
         Create(r, c) \/ Clone(r, c) \/ Update(r, c) \/ Render(r, c)
  PROVE  req' \in [Request -> Memory] /\ CopiesSound' /\ DeletesSound'
<1> DEFINE new == New(r, FALSE)
<1>1. new \in Row /\ new.id = r /\ new.isSystem = FALSE
  BY NewType
<1>2. CASE Create(r, c)
  <2>1. PICK active \in BOOLEAN : Saves(r, "create", c, [new EXCEPT !.isActive = active])
    BY <1>2 DEF Create
  <2> HIDE DEF new
  <2> DEFINE entity == [new EXCEPT !.isActive = active]
  <2>2. Edits(entity, new)
    BY <1>1, EditType, Zenon DEF Row
  <2>3. entity \in Row /\ entity.id = r /\ Whole(entity)
    BY <1>1, <2>2 DEF Edits, Whole
  <2>4. Saves(r, "create", c, entity)
    BY <2>1
  <2> HIDE DEF entity
  <2>5. QED
    BY <2>3, <2>4, BeginsSound
<1>3. CASE Clone(r, c)
  <2>1. PICK original \in {table[d] : d \in Codes} \ {NoRow} :
          Saves(r, "clone", c, [new EXCEPT !.isActive = original.isActive,
                                           !.body = original.body])
    BY <1>3 DEF Clone
  <2>2. original \in Row
    BY DEF IInv, TypeOK
  <2>3. original.isActive \in BOOLEAN /\ original.body \in Request
    BY <2>2 DEF Row
  <2> HIDE DEF new
  <2> DEFINE entity == [new EXCEPT !.isActive = original.isActive, !.body = original.body]
  <2>4. Edits(entity, new)
    BY <1>1, <2>3, EditType
  <2>5. entity \in Row /\ entity.id = r /\ Whole(entity)
    BY <1>1, <2>4 DEF Edits, Whole
  <2>6. Saves(r, "clone", c, entity)
    BY <2>1
  <2> HIDE DEF entity
  <2>7. QED
    BY <2>5, <2>6, BeginsSound
<1>4. CASE Update(r, c)
  <2>1. table[c] \in Rows /\ table[c] \in Row /\ table[c].isSystem = FALSE
    BY <1>4, RowIsCopy DEF Update, Row
  <2>2. PICK active \in BOOLEAN, body \in {r, table[c].body} :
          Saves(r, "update", c, [table[c] EXCEPT !.isActive = active, !.body = body])
    BY <1>4 DEF Update
  <2>3. body \in Request
    BY <2>1 DEF Row
  <2> DEFINE entity == [table[c] EXCEPT !.isActive = active, !.body = body]
  <2>4. Edits(entity, table[c])
    BY <2>1, <2>3, EditType
  <2>5. Saves(r, "update", c, entity)
    BY <2>2
  <2> HIDE DEF entity
  <2>6. entity \in Row /\ Whole(entity)
    BY <2>1, <2>4 DEF Edits, Whole
  <2>7. QED
    BY <2>1, <2>4, <2>5, <2>6, BeginsSound DEF Edits
<1>5. CASE Render(r, c)
  <2>1. table[c] \in Rows /\ table[c] \in Row /\ Whole(table[c])
    BY <1>5, RowIsCopy DEF Render
  <2> DEFINE entity == [table[c] EXCEPT !.usageCount = @ + 1]
  <2>2. /\ Edits(entity, table[c]) /\ entity.isActive = table[c].isActive
        /\ entity.body = table[c].body
    BY <2>1, EditType DEF Row
  <2>3. Saves(r, "render", c, entity)
    BY <1>5 DEF Render
  <2> HIDE DEF entity
  <2>4. entity \in Row /\ Whole(entity)
    BY <2>1, <2>2 DEF Edits, Whole
  <2>5. QED
    BY <2>1, <2>2, <2>3, <2>4, BeginsSound DEF Edits
<1>6. QED
  BY <1>2, <1>3, <1>4, <1>5

LEMMA DeleteSound ==
  ASSUME CodesGiven, IInv, NEW r \in Request, NEW c \in Codes, Delete(r, c)
  PROVE  req' \in [Request -> Memory] /\ CopiesSound' /\ DeletesSound'
<1>1. PICK m : /\ Remembers(r, m) /\ m.pc = "remove" /\ m.op = "delete"
               /\ m.local = table[c] /\ table[c] \in Row
               /\ table' = table /\ req[r].pc = "idle"
  BY DeleteRemembers DEF IInv
<1>2. /\ req' \in [Request -> Memory] /\ req'[r] = m
      /\ \A q \in Request : q # r => req'[q] = req[q]
  BY <1>1, RemembersType DEF IInv
<1>3. table[c] \in Copies /\ table[c].isSystem = FALSE
  BY <1>1, RowIsCopy DEF Delete, Row
<1>4. \A x \in Copies' : From(x, r, TRUE)
  BY <1>1, <1>3, CopiesKept, FromItself
<1>5. CopiesSound'
  BY <1>1, <1>4, Advances DEF Seeding
<1>6. DeletesSound'
  BY <1>1, <1>2, <1>3 DEF IInv, DeletesSound
<1>7. QED
  BY <1>2, <1>5, <1>6

\* The seed begins, and looks for the next default template.
LEMMA SeedSound ==
  ASSUME CodesGiven, IInv, NEW r \in Request, SeedDefaultTemplates(r) \/ Seek(r)
  PROVE  req' \in [Request -> Memory] /\ CopiesSound' /\ DeletesSound'
<1>1. CASE SeedDefaultTemplates(r)
  <2>1. PICK m : Remembers(r, m) /\ m.pc = "seek" /\ table' = table /\ req[r].pc = "idle"
    BY <1>1, SeedRemembers DEF IInv
  <2>2. /\ req' \in [Request -> Memory] /\ req'[r] = m
      /\ \A q \in Request : q # r => req'[q] = req[q]
    BY <2>1, RemembersType DEF IInv
  <2>3. \A y \in Copies : y.id # r
    BY <2>1 DEF IInv, CopiesSound
  <2>4. \A x \in Copies' : From(x, r, TRUE)
    BY <2>1, CopiesKept, FromItself
  <2>5. CopiesSound'
    BY <2>1, <2>3, <2>4, Advances
  <2>6. QED
    BY <2>1, <2>2, <2>5 DEF IInv, DeletesSound
<1>2. CASE Seek(r)
  <2>1. table' = table /\ req[r].pc = "seek"
    BY <1>2, SeekRemembers DEF IInv
  <2>2. PICK m : /\ Remembers(r, m) /\ m.op = req[r].op
                 /\ m.pc = "seek" \/ (m.pc = "load" /\ m.local = New(r, TRUE))
    BY <1>2, SeekRemembers DEF IInv
  <2>3. /\ req' \in [Request -> Memory] /\ req'[r] = m
      /\ \A q \in Request : q # r => req'[q] = req[q]
    BY <2>2, RemembersType DEF IInv
  <2>4. Whole(New(r, TRUE)) /\ New(r, TRUE).id = r /\ New(r, TRUE).isSystem = TRUE
    BY NewType DEF Whole
  <2>5. \A y \in Copies : y.id = r => y.isSystem = TRUE
    BY <2>1 DEF IInv, CopiesSound, Seeding
  <2>6. From(New(r, TRUE), r, TRUE)
    BY <2>4, <2>5 DEF From
  <2>7. \A x \in Copies' : From(x, r, TRUE)
    BY <2>1, <2>2, <2>6, CopiesKept, FromItself
  <2>8. CopiesSound'
    BY <2>2, <2>5, <2>7, Advances
  <2>9. QED
    BY <2>2, <2>3, <2>8 DEF IInv, DeletesSound
<1>3. QED
  BY <1>1, <1>2

\* A request ends.
LEMMA EndsSound ==
  ASSUME CodesGiven, IInv, NEW r \in Request, Remembers(r, Done), table' = table
  PROVE  req' \in [Request -> Memory] /\ CopiesSound' /\ DeletesSound'
<1>1. /\ req' \in [Request -> Memory] /\ req'[r] = Done
      /\ \A q \in Request : q # r => req'[q] = req[q]
  BY RemembersType DEF IInv
<1>2. Done.pc = "done"
  BY IdleType
<1>3. \A x \in Copies' : From(x, r, TRUE)
  BY <1>2, CopiesKept, FromItself
<1>4. CopiesSound'
  BY <1>2, <1>3, Advances DEF Seeding
<1>5. QED
  BY <1>1, <1>2, <1>4 DEF IInv, DeletesSound

LEMMA LoadSound ==
  ASSUME CodesGiven, IInv, NEW r \in Request, Load(r)
  PROVE  req' \in [Request -> Memory] /\ CopiesSound' /\ DeletesSound'
<1>1. PICK m : /\ Remembers(r, m) /\ m.pc = "write" /\ m.op = req[r].op
               /\ m.local = req[r].local
               /\ table' = table /\ req[r].pc = "load"
  BY LoadRemembers DEF IInv
<1>2. /\ req' \in [Request -> Memory] /\ req'[r] = m
      /\ \A q \in Request : q # r => req'[q] = req[q]
  BY <1>1, RemembersType DEF IInv
<1>3. m.local \in Copies
  BY <1>1 DEF Copies, Held, Holds
<1>4. \A x \in Copies' : From(x, r, TRUE)
  BY <1>1, <1>3, CopiesKept, FromItself
<1>5. Seeding(m) => Seeding(req[r])
  BY <1>1 DEF Seeding
<1>6. CopiesSound'
  BY <1>1, <1>4, <1>5, Advances DEF IInv, CopiesSound
<1>7. QED
  BY <1>1, <1>2, <1>6 DEF IInv, DeletesSound

\* What a save or a removal leaves at the code it is about.
WritesAt(r, row) == table' = [table EXCEPT ![req[r].code] = row]

\* A save inserts what it holds where there is no row, or updates the row of the
\* same template, or leaves the table alone.
LEMMA WriteOutcome ==
  ASSUME IInv, NEW r \in Request, Write(r)
  PROVE  LET c == req[r].code
         IN /\ c \in Codes /\ req[r].local \in Copies
            /\ \/ table' = table
               \/ table[c] = NoRow /\ WritesAt(r, req[r].local)
               \/ \E z : /\ table[c] # NoRow /\ WritesAt(r, z) /\ Edits(z, table[c])
                         /\ Whole(z)
<1> DEFINE c == req[r].code
           there == table[c] # NoRow /\ table[c].id = req[r].local.id
           z == Patched(table[c], req[r].local, req[r].diff)
<1>1. c \in Codes /\ req[r].pc = "write"
  BY DEF Write, IInv, TypeOK, Memory
<1>2. req[r].local \in Copies
  BY <1>1 DEF Copies, Held, Holds
<1>3. CASE req[r].absent
  BY <1>1, <1>2, <1>3 DEF Write, WritesAt
<1>4. CASE ~req[r].absent /\ ~there
  BY <1>1, <1>2, <1>4 DEF Write
<1>5. CASE ~req[r].absent /\ there
  <2>1. table' = [table EXCEPT ![c] = Patched(@, req[r].local, req[r].diff)]
    BY <1>5 DEF Write
  <2>2. WritesAt(r, z)
    BY <1>1, <2>1 DEF WritesAt, IInv, TypeOK
  <2>3. /\ table[c] \in Row /\ table[c] \in Copies /\ Whole(table[c])
        /\ Whole(req[r].local) /\ req[r].local.isSystem = table[c].isSystem
    BY <1>1, <1>2, <1>5, RowIsCopy DEF IInv, CopiesSound
  <2>4. /\ Edits(z, table[c])
        /\ z.isActive \in {table[c].isActive, req[r].local.isActive}
        /\ z.body \in {table[c].body, req[r].local.body}
    BY <1>5, <2>3, PatchedType DEF Whole
  <2> HIDE DEF z
  <2>5. Whole(z)
    BY <1>5, <2>3, <2>4 DEF Whole, Edits
  <2>6. QED
    BY <1>1, <1>2, <1>5, <2>2, <2>4, <2>5
<1>6. QED
  BY <1>3, <1>4, <1>5

\* What a removal does: no system template goes.
LEMMA RemoveOutcome ==
  ASSUME IInv, NEW r \in Request, Remove(r)
  PROVE  LET c == req[r].code
         IN \/ table' = table
            \/ /\ c \in Codes /\ WritesAt(r, NoRow)
               /\ table[c] # NoRow /\ table[c].isSystem = FALSE
<1> DEFINE c == req[r].code
<1>1. c \in Codes /\ req[r].pc = "remove"
  BY DEF Remove, IInv, TypeOK, Memory
<1>2. req[r].local \in Copies /\ req[r].local.isSystem = FALSE
  BY <1>1 DEF Copies, Held, Holds, IInv, DeletesSound
<1>3. CASE table[c] # NoRow /\ table[c].id = req[r].local.id
  <2>1. table[c].isSystem = FALSE
    BY <1>1, <1>2, <1>3, RowIsCopy DEF IInv, CopiesSound
  <2>2. QED
    BY <1>1, <1>3, <2>1 DEF Remove, WritesAt
<1>4. CASE ~(table[c] # NoRow /\ table[c].id = req[r].local.id)
  BY <1>4 DEF Remove
<1>5. QED
  BY <1>3, <1>4

\* Which copies there are after a save or a removal.
LEMMA CopiesWritten ==
  ASSUME IInv, NEW r \in Request, NEW m, Remembers(r, m), m.pc \in {"seek", "done"},
         NEW row, WritesAt(r, row) \/ table' = table, req[r].code \in Codes,
         NEW x \in Copies'
  PROVE  x \in Copies \/ (x = row /\ x # NoRow)
<1>1. req'[r] = m /\ \A q \in Request : q # r => req'[q] = req[q]
  BY RemembersType DEF IInv
<1>2. CASE x \in Rows'
  <2>1. PICK c \in Codes : x = table'[c] /\ x # NoRow
    BY <1>2 DEF Rows
  <2>2. table'[c] \in {table[c], row}
    BY DEF WritesAt, IInv, TypeOK
  <2>3. QED
    BY <2>1, <2>2 DEF Copies, Rows
<1>3. CASE x \in Held'
  <2>1. PICK q \in Request : x = req'[q].local /\ req'[q].pc \in {"load", "write", "remove"}
    BY <1>3 DEF Held, Holds
  <2>2. QED
    BY <1>1, <2>1 DEF Copies, Held, Holds
<1>4. QED
  BY <1>2, <1>3 DEF Copies

LEMMA WriteSound ==
  ASSUME CodesGiven, IInv, NEW r \in Request, Write(r)
  PROVE  req' \in [Request -> Memory] /\ CopiesSound' /\ DeletesSound'
<1>1. PICK m : Remembers(r, m) /\ (m.pc = "done" \/ (m.pc = "seek" /\ req[r].op = "seed"))
  BY WriteRemembers DEF IInv
<1>2. /\ req' \in [Request -> Memory] /\ req'[r] = m
      /\ \A q \in Request : q # r => req'[q] = req[q]
  BY <1>1, RemembersType DEF IInv
<1>3. req[r].code \in Codes
  BY WriteOutcome
<1>4. \E row : /\ WritesAt(r, row) \/ table' = table
               /\ From(row, r, TRUE)
  <2>1. req[r].local \in Copies
    BY WriteOutcome
  <2>2. CASE table' = table \/ WritesAt(r, req[r].local)
    BY <2>1, <2>2, FromItself
  <2>3. CASE \E z : /\ table[req[r].code] # NoRow /\ WritesAt(r, z)
                    /\ Edits(z, table[req[r].code]) /\ Whole(z)
    BY <1>3, <2>3, RowIsCopy DEF From, Edits
  <2>4. QED
    BY <2>2, <2>3, WriteOutcome
<1>5. PICK row : /\ WritesAt(r, row) \/ table' = table
                 /\ From(row, r, TRUE)
  BY <1>4
<1>6. \A x \in Copies' : From(x, r, TRUE)
  BY <1>1, <1>3, <1>5, CopiesWritten, FromItself
<1>7. Seeding(m) => Seeding(req[r])
  BY <1>1 DEF Seeding, Write
<1>8. CopiesSound'
  BY <1>1, <1>6, <1>7, Advances DEF IInv, CopiesSound
<1>9. QED
  BY <1>1, <1>2, <1>8 DEF IInv, DeletesSound

LEMMA RemoveSound ==
  ASSUME CodesGiven, IInv, NEW r \in Request, Remove(r)
  PROVE  req' \in [Request -> Memory] /\ CopiesSound' /\ DeletesSound'
<1>1. Remembers(r, Done)
  BY EndsRemembers DEF Remove, IInv
<1>2. /\ req' \in [Request -> Memory] /\ req'[r] = Done
      /\ \A q \in Request : q # r => req'[q] = req[q]
  BY <1>1, RemembersType DEF IInv
<1>3. req[r].code \in Codes /\ (WritesAt(r, NoRow) \/ table' = table)
  BY RemoveOutcome DEF IInv, TypeOK, Memory
<1>4. Done.pc = "done"
  BY IdleType
<1>5. \A x \in Copies' : From(x, r, TRUE)
  BY <1>1, <1>3, <1>4, CopiesWritten, FromItself
<1>6. CopiesSound'
  BY <1>1, <1>4, <1>5, Advances DEF Seeding
<1>7. QED
  BY <1>2, <1>4, <1>6 DEF IInv, DeletesSound

\* The table stays well typed.
LEMMA TableType ==
  ASSUME IInv, NEW r \in Request, Write(r) \/ Remove(r)
  PROVE  table' \in [Codes -> Row \cup {NoRow}]
<1>1. \A x \in Copies : x \in Row
  BY DEF IInv, CopiesSound, Whole
<1>2. CASE Write(r)
  BY <1>1, <1>2, WriteOutcome DEF WritesAt, IInv, TypeOK, Edits
<1>3. CASE Remove(r)
  BY <1>3, RemoveOutcome DEF WritesAt, IInv, TypeOK
<1>4. QED
  BY <1>2, <1>3

\* Every step of a request keeps the invariant.
LEMMA StepSound ==
  ASSUME CodesGiven, IInv, NEW r \in Request,
         \/ \E c \in Codes :
              Create(r, c) \/ Clone(r, c) \/ Update(r, c) \/ Delete(r, c) \/ Render(r, c)
         \/ SeedDefaultTemplates(r) \/ Seek(r) \/ SeedEnds(r)
         \/ Load(r) \/ Write(r) \/ Remove(r) \/ Fails(r)
  PROVE  req' \in [Request -> Memory] /\ CopiesSound' /\ DeletesSound'
<1>1. ASSUME SeedEnds(r) \/ Fails(r)
      PROVE  req' \in [Request -> Memory] /\ CopiesSound' /\ DeletesSound'
  <2>1. Remembers(r, Done) /\ table' = table
    BY <1>1, EndsRemembers DEF SeedEnds, Fails, Goes, IInv
  <2>2. QED
    BY <2>1, EndsSound
<1>2. QED
  BY <1>1, MethodsSound, DeleteSound, SeedSound, LoadSound, WriteSound, RemoveSound

LEMMA NextSound ==
  ASSUME CodesGiven, IInv, [Next]_vars
  PROVE  IInv'
<1>1. CASE UNCHANGED vars
  <2>1. Copies' = Copies
    BY <1>1 DEF vars, Copies, Rows, Held, Holds
  <2>2. QED
    BY <1>1, <2>1 DEF vars, IInv, TypeOK, CopiesSound, DeletesSound, Whole, Seeding
<1>2. CASE Next
  <2>1. PICK r \in Request :
          \/ \E c \in Codes :
               Create(r, c) \/ Clone(r, c) \/ Update(r, c) \/ Delete(r, c) \/ Render(r, c)
          \/ SeedDefaultTemplates(r) \/ Seek(r) \/ SeedEnds(r)
          \/ Load(r) \/ Write(r) \/ Remove(r) \/ Fails(r)
    BY <1>2 DEF Next
  <2>2. req' \in [Request -> Memory] /\ CopiesSound' /\ DeletesSound'
    BY <2>1, StepSound
  <2>3. table' \in [Codes -> Row \cup {NoRow}]
    <3>1. CASE Write(r) \/ Remove(r)
      BY <3>1, TableType
    <3>2. CASE ~(Write(r) \/ Remove(r))
      BY <2>1, <3>2
         DEF Create, Clone, Update, Delete, Render, Saves, Goes, SeedDefaultTemplates,
             Seek, SeedEnds, Load, Fails, IInv, TypeOK
    <3>3. QED
      BY <3>1, <3>2
  <2>4. QED
    BY <2>2, <2>3 DEF IInv, TypeOK
<1>3. QED
  BY <1>1, <1>2

\* The initial states satisfy the invariant.
LEMMA InitSound == ASSUME CodesGiven PROVE Init => IInv
<1> SUFFICES ASSUME Init PROVE IInv
  OBVIOUS
<1>1. TypeOK
  BY IdleType DEF Init, TypeOK
<1>2. \A r \in Request : req[r].pc = "idle"
  BY DEF Init, Idle
<1>3. Copies = {}
  BY <1>2 DEF Init, Copies, Rows, Held, Holds
<1>4. QED
  BY <1>1, <1>2, <1>3 DEF IInv, CopiesSound, DeletesSound, Seeding

\* Two rows with the same fields but for the count.
LEMMA SameButCount ==
  ASSUME NEW x \in Row, NEW y \in Row, x.id = y.id, x.isSystem = y.isSystem,
         x.isActive = y.isActive, x.body = y.body
  PROVE  [x EXCEPT !.usageCount = y.usageCount] = y
BY DEF Row

\* No step changes or deletes a system template.
LEMMA StepStays ==
  ASSUME IInv, [Next]_vars, NEW c \in Codes, table[c] # NoRow, table[c].isSystem = TRUE
  PROVE  table'[c] # NoRow
         /\ [table'[c] EXCEPT !.usageCount = table[c].usageCount] = table[c]
<1>1. table[c] \in Row /\ Whole(table[c])
  BY RowIsCopy
<1>2. CASE table'[c] = table[c]
  BY <1>1, <1>2, SameButCount
<1>3. CASE table'[c] # table[c]
  <2>1. PICK r \in Request : Write(r) \/ Remove(r)
    BY <1>3
       DEF Next, vars, Create, Clone, Update, Delete, Render, Saves, Goes,
           SeedDefaultTemplates, Seek, SeedEnds, Load, Fails
  <2>2. CASE Write(r)
    <3>1. c = req[r].code
      BY <1>3, <2>2, WriteOutcome DEF WritesAt, IInv, TypeOK
    <3>2. PICK z : WritesAt(r, z) /\ Edits(z, table[c]) /\ Whole(z)
      BY <1>3, <2>2, <3>1, WriteOutcome
    <3>3. table'[c] = z
      BY <3>1, <3>2 DEF WritesAt, IInv, TypeOK
    <3>4. /\ z \in Row /\ z.id = table[c].id /\ z.isSystem = table[c].isSystem
          /\ z.isActive = table[c].isActive /\ z.body = table[c].body
      BY <1>1, <3>2 DEF Edits, Whole
    <3>5. QED
      BY <1>1, <3>3, <3>4, SameButCount, NotNoRow
  <2>3. CASE Remove(r)
    BY <1>3, <2>3, RemoveOutcome DEF WritesAt, IInv, TypeOK
  <2>4. QED
    BY <2>1, <2>2, <2>3
<1>4. QED
  BY <1>2, <1>3

\* The state is well typed, however many requests overlap.
THEOREM TypeCorrect ==
  ASSUME CodesGiven
  PROVE  Spec => []TypeOK
<1>1. Init => IInv
  BY InitSound
<1>2. IInv /\ [Next]_vars => IInv'
  BY NextSound
<1>3. IInv => TypeOK
  BY DEF IInv
<1>4. QED
  BY <1>1, <1>2, <1>3, PTL DEF Spec

\* However renders, edits, deletions and seeds overlap, a system template stays as
\* it was seeded, but for its count.
THEOREM SystemTemplatesAlwaysStay ==
  ASSUME CodesGiven
  PROVE  Spec => SystemTemplatesStay
<1>1. Init => IInv
  BY InitSound
<1>2. IInv /\ [Next]_vars => IInv'
  BY NextSound
<1>3. IInv /\ [Next]_vars =>
        [\A c \in Codes : table[c] # NoRow /\ table[c].isSystem =>
           table'[c] # NoRow
           /\ [table'[c] EXCEPT !.usageCount = table[c].usageCount] = table[c]]_vars
  <2> SUFFICES ASSUME IInv, [Next]_vars, NEW c \in Codes, table[c] # NoRow,
                      table[c].isSystem
               PROVE  table'[c] # NoRow
                      /\ [table'[c] EXCEPT !.usageCount = table[c].usageCount] = table[c]
    OBVIOUS
  <2>1. table[c].isSystem = TRUE
    BY RowIsCopy DEF Row
  <2>2. QED
    BY <2>1, StepStays
<1>4. QED
  BY <1>1, <1>2, <1>3, PTL DEF Spec, SystemTemplatesStay

=============================================================================

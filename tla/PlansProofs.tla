------------------------------ MODULE PlansProofs ------------------------------
(***************************************************************************)
(* Proofs about Plans, for any number of seeds and requests, of which any  *)
(* number overlap.                                                         *)
(***************************************************************************)
EXTENDS Plans, TLAPS

-----------------------------------------------------------------------------
(* Type correctness.                                                       *)

LEMMA IdleType ==
  ASSUME MaxRequests \in Nat, NEW r \in Request
  PROVE  Idle \in Memory /\ Done \in Memory
<1>1. 1 \in Request
  BY DEF Request
<1>2. <<1, "basic">> \in Id
  BY <1>1 DEF Id, PlanType
<1>3. Idle \in Memory
  BY <1>1, <1>2 DEF Idle, Memory, Row, PlanType, PlanStatus
<1>4. QED
  BY <1>3 DEF Done, Memory

\* What a request holds once it has begun.
LEMMA HoldsType ==
  ASSUME MaxRequests \in Nat, TypeOK, NEW r \in Request,
         NEW pc \in {"insert", "load", "write"}, NEW i \in Id, NEW entity \in Row,
         Holds(r, pc, i, entity)
  PROVE  TypeOK'
<1>1. [Idle EXCEPT !.pc = pc, !.id = i, !.entity = entity] \in Memory
  BY IdleType DEF Memory
<1>2. QED
  BY <1>1 DEF Holds, Goes, TypeOK

LEMMA DefaultType ==
  ASSUME NEW r \in Request, NEW t \in PlanType
  PROVE  Default(r, t) \in Row /\ <<r, t>> \in Id
BY DEF Default, Row, Id, PlanStatus

LEMMA StoredRow ==
  ASSUME TypeOK, NEW i \in Stored
  PROVE  i \in Id /\ table[i] \in Row
BY DEF TypeOK, Stored

LEMMA NotNoRow == NoRow \notin Row
BY DEF NoRow, Row, PlanType

\* A row patched from an entity is a row, with the type of one of them.
LEMMA PatchedRow ==
  ASSUME NEW row \in Row, NEW entity \in Row, NEW columns
  PROVE  Patched(row, entity, columns) \in Row
<1> DEFINE new == Patched(row, entity, columns)
<1>1. DOMAIN row = {"type", "status", "terms"}
  BY DEF Row
<1>2. /\ new = [c \in {"type", "status", "terms"} |-> new[c]]
      /\ new.type \in PlanType /\ new.status \in PlanStatus
      /\ new.terms \in Request
  BY <1>1 DEF Patched, Row
<1>3. QED
  BY <1>2 DEF Row

LEMMA InitType == ASSUME MaxRequests \in Nat PROVE Init => TypeOK
BY IdleType DEF Init, TypeOK

\* The administrators' methods, and the start of a seed.
LEMMA RoutesType ==
  ASSUME MaxRequests \in Nat, TypeOK, NEW r \in Request, AdminRoutes(r)
  PROVE  TypeOK'
<1>1. CASE SeedDefaultPlans(r)
  <2>1. CASE Stored = {}
    BY <1>1, <2>1, HoldsType, DefaultType DEF SeedDefaultPlans, PlanType
  <2>2. CASE Stored # {}
    BY <1>1, <2>2, IdleType DEF SeedDefaultPlans, Goes, TypeOK
  <2>3. QED
    BY <2>1, <2>2
<1>2. CASE Create(r)
  <2>1. PICK t \in PlanType, s \in PlanStatus :
          Holds(r, "write", <<r, t>>, [type |-> t, status |-> s, terms |-> r])
    BY <1>2 DEF Create
  <2>2. [type |-> t, status |-> s, terms |-> r] \in Row /\ <<r, t>> \in Id
    BY DEF Row, Id
  <2>3. QED
    BY <2>1, <2>2, HoldsType
<1>3. CASE Update(r)
  <2>1. PICK i \in Stored :
          \E t \in (PlanType \ Types) \cup {table[i].type}, s \in PlanStatus :
            Holds(r, "load", i, [type |-> t, status |-> s, terms |-> r])
    BY <1>3 DEF Update
  <2>0. PICK t \in (PlanType \ Types) \cup {table[i].type}, s \in PlanStatus :
          Holds(r, "load", i, [type |-> t, status |-> s, terms |-> r])
    BY <2>1
  <2>2. t \in PlanType
    BY StoredRow DEF Row
  <2>3. [type |-> t, status |-> s, terms |-> r] \in Row
    BY <2>2 DEF Row
  <2>4. QED
    BY <2>0, <2>3, HoldsType, StoredRow
<1>4. CASE DeactivatePlan(r)
  <2>1. PICK i \in Stored : Holds(r, "load", i, [table[i] EXCEPT !.status = "inactive"])
    BY <1>4 DEF DeactivatePlan
  <2>2. [table[i] EXCEPT !.status = "inactive"] \in Row
    BY StoredRow DEF Row, PlanStatus
  <2>3. QED
    BY <2>1, <2>2, HoldsType, StoredRow
<1>5. CASE UpdateStripeIds(r)
  <2>1. PICK i \in Stored : Holds(r, "load", i, [table[i] EXCEPT !.terms = r])
    BY <1>5 DEF UpdateStripeIds
  <2>2. [table[i] EXCEPT !.terms = r] \in Row
    BY StoredRow DEF Row
  <2>3. QED
    BY <2>1, <2>2, HoldsType, StoredRow
<1>6. QED
  BY <1>1, <1>2, <1>3, <1>4, <1>5 DEF AdminRoutes

\* What Write leaves at the id it writes.
Written(r) ==
  LET i == req[r].id
  IN IF i \in Stored THEN Patched(table[i], req[r].entity, req[r].diff) ELSE req[r].entity

LEMMA MemoryType ==
  ASSUME TypeOK, NEW r \in Request
  PROVE  /\ req[r] \in Memory /\ req[r].id \in Id /\ req[r].entity \in Row
         /\ Written(r) \in Row
<1>1. req[r] \in Memory /\ req[r].id \in Id /\ req[r].entity \in Row
  BY DEF TypeOK, Memory
<1>2. QED
  BY <1>1, PatchedRow, StoredRow DEF Written

LEMMA AfterType ==
  ASSUME NEW t \in PlanType PROVE After[t] \in PlanType \cup {"end"}
BY DEF After, PlanType

\* Every step keeps the types.
LEMMA NextType ==
  ASSUME MaxRequests \in Nat, TypeOK, [Next]_vars PROVE TypeOK'
<1>1. ASSUME NEW r \in Request, InsertDefault(r) PROVE TypeOK'
  <2> DEFINE t == req[r].entity.type
             next == After[t]
             memory == IF next = "end" THEN Done
                       ELSE [req[r] EXCEPT !.id = <<r, next>>, !.entity = Default(r, next)]
  <2>1. req[r] \in Memory /\ req[r].id \in Id /\ req[r].entity \in Row
    BY MemoryType
  <2>2. next \in PlanType \cup {"end"}
    BY <2>1, AfterType DEF Row
  <2> HIDE DEF next
  <2>3. memory \in Memory
    <3>1. CASE next = "end"
      BY <3>1, IdleType
    <3>2. CASE next # "end"
      <4>1. Default(r, next) \in Row /\ <<r, next>> \in Id
        BY <2>2, <3>2, DefaultType
      <4>2. QED
        BY <2>1, <3>2, <4>1 DEF Memory
    <3>3. QED
      BY <3>1, <3>2
  <2>4. req' = [req EXCEPT ![r] = memory]
    BY <1>1 DEF InsertDefault, Goes, next
  <2> HIDE DEF memory
  <2>5. req' \in [Request -> Memory]
    BY <2>3, <2>4 DEF TypeOK
  <2>6. table' \in [Id -> Row \cup {NoRow}]
    BY <1>1, <2>1 DEF InsertDefault, TypeOK
  <2>7. looped' \in BOOLEAN /\ retyped' \in BOOLEAN
    BY <1>1, Zenon DEF InsertDefault, TypeOK
  <2>8. QED
    BY <2>5, <2>6, <2>7 DEF TypeOK
<1>2. ASSUME NEW r \in Request, Load(r) PROVE TypeOK'
  <2> DEFINE diff == Differing(req[r].entity, table[req[r].id])
  <2>1. req[r] \in Memory /\ table[req[r].id] \in Row \cup {NoRow}
    BY MemoryType DEF TypeOK
  <2>2. diff \subseteq {"type", "status", "terms"}
    BY <2>1 DEF Differing, Row, NoRow
  <2> HIDE DEF diff
  <2>3. [req[r] EXCEPT !.pc = "write", !.diff = diff] \in Memory
    BY <2>1, <2>2 DEF Memory
  <2>4. QED
    BY <1>2, <2>3 DEF Load, Goes, TypeOK, diff
<1>3. ASSUME NEW r \in Request, Write(r) PROVE TypeOK'
  <2>1. req[r].id \in Id /\ Written(r) \in Row
    BY MemoryType
  <2>2. table' = [table EXCEPT ![req[r].id] = Written(r)]
    BY <1>3 DEF Write, Written
  <2>3. retyped' \in BOOLEAN /\ looped' \in BOOLEAN
    BY <1>3, Zenon DEF Write, TypeOK
  <2>4. req' \in [Request -> Memory]
    BY <1>3, IdleType DEF Write, Goes, TypeOK
  <2>5. QED
    BY <2>1, <2>2, <2>3, <2>4 DEF TypeOK
<1>4. ASSUME NEW r \in Request, Fails(r) PROVE TypeOK'
  BY <1>4, IdleType DEF Fails, Goes, TypeOK
<1>5. CASE UNCHANGED vars
  BY <1>5 DEF vars, TypeOK
<1>6. QED
  BY <1>1, <1>2, <1>3, <1>4, <1>5, RoutesType DEF Next

\* The state is well typed, however many requests overlap.
THEOREM TypeCorrect ==
  ASSUME MaxRequests \in Nat
  PROVE  Spec => []TypeOK
<1>1. Init => TypeOK
  BY InitType
<1>2. TypeOK /\ [Next]_vars => TypeOK'
  BY NextType
<1>3. QED
  BY <1>1, <1>2, PTL DEF Spec

-----------------------------------------------------------------------------
(* A seed that ends has seeded everything.                                 *)

\* The default plans inserted before the one of type t.
Before(t) == {s \in PlanType : \/ s = "basic" /\ t # "basic"
                               \/ s = "standard" /\ t = "premium"}

\* The types differ; a row has the type it was inserted with until one is
\* changed; and then what a seed has inserted so far is there.
Unique == \A i, j \in Stored : i # j => table[i].type # table[j].type
AsNamed == ~retyped => \A i \in Stored : table[i].type = i[2]
Seeded == ~retyped /\ looped => Types = PlanType

\* Where request r is in its work on m.id.
Sound(r, m) ==
  /\ m.pc = "insert" => /\ m.id = <<r, m.entity.type>>
                        /\ ~retyped => Before(m.entity.type) \subseteq Types
  /\ m.pc = "load" => m.id \in Stored
  /\ m.pc = "write" => m.id \in Stored \/ m.entity.type = m.id[2]

RequestsSound == \A r \in Request : Sound(r, req[r])

Whole == Unique /\ AsNamed /\ Seeded
IInv == TypeOK /\ Whole /\ RequestsSound

LEMMA DoneSound == ASSUME NEW r PROVE Sound(r, Done)
BY DEF Sound, Done, Idle

\* A step that leaves the table alone.
LEMMA GoesSound ==
  ASSUME IInv, NEW r \in Request, NEW memory, Goes(r, memory),
         UNCHANGED <<table, looped, retyped>>, Sound(r, memory)
  PROVE  Whole' /\ RequestsSound'
<1>1. Types' = Types /\ Stored' = Stored
  BY DEF Types, Stored
<1>2. Whole'
  BY <1>1 DEF IInv, Whole, Unique, AsNamed, Seeded
<1>3. req' = [req EXCEPT ![r] = memory] /\ req \in [Request -> Memory]
  BY DEF IInv, TypeOK, Goes
<1>4. ASSUME NEW q \in Request PROVE Sound(q, req'[q])
  BY <1>3 DEF IInv, RequestsSound
<1>5. RequestsSound'
  BY <1>1, <1>4 DEF RequestsSound, Sound
<1>6. QED
  BY <1>2, <1>5

LEMMA HoldsSound ==
  ASSUME IInv, NEW r \in Request, NEW pc, NEW i, NEW entity, Holds(r, pc, i, entity),
         Sound(r, [Idle EXCEPT !.pc = pc, !.id = i, !.entity = entity])
  PROVE  Whole' /\ RequestsSound'
BY GoesSound DEF Holds

\* What a request holds when it begins with pc, i and entity.
LEMMA HeldFields ==
  ASSUME NEW pc, NEW i, NEW entity
  PROVE  LET m == [Idle EXCEPT !.pc = pc, !.id = i, !.entity = entity]
         IN m.pc = pc /\ m.id = i /\ m.entity = entity
BY DEF Idle

\* A row with the type of its place, or another type than the rest has, is put
\* into the table.
LEMMA PutWhole ==
  ASSUME IInv, TypeOK', NEW i \in Id, NEW row \in Row,
         table' = [table EXCEPT ![i] = row],
         \A j \in Stored \ {i} : table[j].type # row.type,
         i \notin Stored => row.type = i[2],
         ~retyped' => ~retyped /\ (i \in Stored => row.type = table[i].type)
  PROVE  /\ Stored' = Stored \cup {i}
         /\ ~retyped' => Types' = Types \cup {row.type}
         /\ Unique' /\ AsNamed'
<1>1. table \in [Id -> Row \cup {NoRow}] /\ row # NoRow
  BY NotNoRow DEF IInv, TypeOK
<1>2. Stored' = Stored \cup {i}
  BY <1>1 DEF Stored
<1>3. \A j \in Stored \ {i} : table'[j] = table[j]
  BY <1>1 DEF Stored
<1>4. table'[i] = row
  BY <1>1
<1>5. Unique'
  BY <1>2, <1>3, <1>4 DEF Unique, IInv, Whole
<1>6. AsNamed'
  BY <1>2, <1>3, <1>4 DEF AsNamed, IInv, Whole
<1>7. ASSUME ~retyped' PROVE Types' = Types \cup {row.type}
  BY <1>2, <1>3, <1>4, <1>7 DEF Types
<1>8. QED
  BY <1>2, <1>5, <1>6, <1>7

\* Then what the other requests rely on still holds.
LEMMA OthersSound ==
  ASSUME IInv, NEW r \in Request, NEW memory, Goes(r, memory),
         Stored \subseteq Stored', ~retyped' => ~retyped /\ Types \subseteq Types',
         NEW q \in Request, q # r
  PROVE  Sound(q, req[q])'
<1>1. req'[q] = req[q]
  BY DEF IInv, TypeOK, Goes
<1>2. Sound(q, req[q])
  BY DEF IInv, RequestsSound
<1>3. QED
  BY <1>1, <1>2 DEF Sound

\* The start of a seed, and the administrators' methods.
LEMMA RoutesSound ==
  ASSUME IInv, NEW r \in Request, AdminRoutes(r)
  PROVE  Whole' /\ RequestsSound'
<1>1. CASE SeedDefaultPlans(r)
  <2>1. CASE Stored = {}
    <3>1. Before("basic") = {}
      BY DEF Before
    <3>2. Sound(r, [Idle EXCEPT !.pc = "insert", !.id = <<r, "basic">>,
                                !.entity = Default(r, "basic")])
      BY <3>1, HeldFields DEF Sound, Default
    <3>3. QED
      BY <1>1, <2>1, <3>2, HoldsSound DEF SeedDefaultPlans
  <2>2. CASE Stored # {}
    BY <1>1, <2>2, GoesSound, DoneSound DEF SeedDefaultPlans
  <2>3. QED
    BY <2>1, <2>2
<1>2. CASE Create(r)
  <2>1. PICK t \in PlanType, s \in PlanStatus :
          Holds(r, "write", <<r, t>>, [type |-> t, status |-> s, terms |-> r])
    BY <1>2 DEF Create
  <2> DEFINE entity == [type |-> t, status |-> s, terms |-> r]
  <2>2. Sound(r, [Idle EXCEPT !.pc = "write", !.id = <<r, t>>, !.entity = entity])
    BY HeldFields DEF Sound
  <2>3. QED
    BY <2>1, <2>2, HoldsSound
<1>3. ASSUME NEW i \in Stored, NEW entity, Holds(r, "load", i, entity)
      PROVE  Whole' /\ RequestsSound'
  <2>1. Sound(r, [Idle EXCEPT !.pc = "load", !.id = i, !.entity = entity])
    BY HeldFields DEF Sound
  <2>2. QED
    BY <1>3, <2>1, HoldsSound
<1>4. QED
  BY <1>1, <1>2, <1>3 DEF AdminRoutes, Update, DeactivatePlan, UpdateStripeIds

LEMMA InsertSound ==
  ASSUME MaxRequests \in Nat, IInv, NEW r \in Request, InsertDefault(r)
  PROVE  Whole' /\ RequestsSound'
<1> DEFINE t == req[r].entity.type
           next == After[t]
           i == req[r].id
           memory == IF next = "end" THEN Done
                     ELSE [req[r] EXCEPT !.id = <<r, next>>, !.entity = Default(r, next)]
<1>0. TypeOK /\ TypeOK'
  BY NextType DEF IInv, Next
<1>1. req[r] \in Memory /\ i \in Id /\ req[r].entity \in Row /\ t \in PlanType
  BY <1>0, MemoryType DEF Row
<1>2. /\ req[r].pc = "insert" /\ t \notin Types
      /\ table' = [table EXCEPT ![i] = req[r].entity]
      /\ Goes(r, memory)
      /\ looped' = (looped \/ next = "end") /\ retyped' = retyped
  BY DEF InsertDefault
<1>3. i = <<r, t>> /\ (~retyped => Before(t) \subseteq Types)
  BY <1>2 DEF IInv, RequestsSound, Sound
<1>4. \A j \in Stored : table[j].type # t
  BY <1>2 DEF Types
<1>5. ~retyped => i \notin Stored
  BY <1>3, <1>4 DEF IInv, Whole, AsNamed
<1>6. /\ Stored' = Stored \cup {i}
      /\ ~retyped' => Types' = Types \cup {t}
      /\ Unique' /\ AsNamed'
  <2> DEFINE row == req[r].entity
  <2>1. row.type = i[2] /\ row.type = t
    BY <1>3
  <2>2. /\ row \in Row /\ table' = [table EXCEPT ![i] = row]
        /\ \A j \in Stored \ {i} : table[j].type # row.type
        /\ ~retyped' => ~retyped /\ (i \in Stored => row.type = table[i].type)
    BY <1>1, <1>2, <1>4, <1>5
  <2> HIDE DEF row, t, i
  <2>3. QED
    BY <1>0, <1>1, <2>1, <2>2, PutWhole
<1>7. Types \subseteq PlanType
  BY <1>0, StoredRow DEF Types, Row
<1>8. Seeded'
  <2> SUFFICES ASSUME ~retyped', looped' PROVE Types' = PlanType
    BY DEF Seeded
  <2>1. CASE looped
    BY <1>1, <1>2, <1>6, <2>1 DEF IInv, Whole, Seeded
  <2>2. CASE next = "end"
    <3>1. t = "premium"
      BY <1>1, <2>2 DEF After, PlanType
    <3>2. Before(t) \cup {t} = PlanType
      BY <3>1 DEF Before, PlanType
    <3>3. QED
      BY <1>2, <1>3, <1>6, <1>7, <3>2
  <2>3. QED
    BY <1>2, <2>1, <2>2
<1>9. PICK m : m = memory
  OBVIOUS
<1>10. Sound(r, m)'
  <2>1. CASE next = "end"
    BY <1>9, <2>1 DEF Sound, Done, Idle
  <2>2. CASE next # "end"
    <3>1. next \in PlanType /\ Before(next) = Before(t) \cup {t}
      BY <1>1, <2>2 DEF After, PlanType, Before
    <3>2. m.pc = "insert" /\ m.id = <<r, next>> /\ m.entity.type = next
      BY <1>1, <1>2, <1>9, <2>2 DEF Memory, Default
    <3>3. ~retyped' => Before(next) \subseteq Types'
      BY <1>2, <1>3, <1>6, <3>1
    <3> HIDE DEF memory, next
    <3>5. QED
      BY <3>2, <3>3 DEF Sound
  <2>3. QED
    BY <2>1, <2>2
<1>11. ASSUME NEW q \in Request PROVE Sound(q, req[q])'
  <2>1. CASE q = r
    <3>1. req'[q] = m
      BY <1>0, <1>2, <1>9, <2>1 DEF Goes, TypeOK
    <3>2. QED
      BY <1>10, <2>1, <3>1 DEF Sound
  <2>2. CASE q # r
    BY <1>2, <1>6, <2>2, OthersSound
  <2>3. QED
    BY <2>1, <2>2
<1>12. QED
  BY <1>6, <1>8, <1>11 DEF Whole, RequestsSound

LEMMA WriteSound ==
  ASSUME MaxRequests \in Nat, IInv, NEW r \in Request, Write(r)
  PROVE  Whole' /\ RequestsSound'
<1> DEFINE i == req[r].id
           row == Written(r)
<1>0. TypeOK /\ TypeOK'
  BY NextType DEF IInv, Next
<1>1. i \in Id /\ row \in Row /\ req[r].entity \in Row
  BY <1>0, MemoryType
<1>2. /\ req[r].pc = "write"
      /\ \A j \in Stored \ {i} : table[j].type # row.type
      /\ table' = [table EXCEPT ![i] = row]
      /\ retyped' = (retyped \/ (i \in Stored /\ row.type # table[i].type))
      /\ Goes(r, Done) /\ looped' = looped
  BY DEF Write, Written
<1>3. i \notin Stored => row.type = i[2]
  BY <1>2 DEF IInv, RequestsSound, Sound, Written
<1>4. ~retyped' => ~retyped /\ (i \in Stored => row.type = table[i].type)
  BY <1>2
<1> HIDE DEF row
<1>5. /\ Stored' = Stored \cup {i}
      /\ ~retyped' => Types' = Types \cup {row.type}
      /\ Unique' /\ AsNamed'
  BY <1>0, <1>1, <1>2, <1>3, <1>4, PutWhole
<1>6. Seeded'
  BY <1>1, <1>2, <1>4, <1>5 DEF IInv, Whole, Seeded, Row
<1>7. ASSUME NEW q \in Request PROVE Sound(q, req[q])'
  <2>1. CASE q = r
    <3>1. req'[q] = Done
      BY <1>0, <1>2, <2>1 DEF Goes, TypeOK
    <3>2. QED
      BY <3>1 DEF Sound, Done, Idle
  <2>2. CASE q # r
    BY <1>2, <1>4, <1>5, <2>2, OthersSound
  <2>3. QED
    BY <2>1, <2>2
<1>8. QED
  BY <1>5, <1>6, <1>7 DEF Whole, RequestsSound

\* Every step keeps the invariant.
LEMMA NextSound ==
  ASSUME MaxRequests \in Nat, IInv, [Next]_vars
  PROVE  IInv'
<1>0. TypeOK'
  BY NextType DEF IInv
<1>1. CASE UNCHANGED vars
  <2>1. Types' = Types /\ Stored' = Stored
    BY <1>1 DEF vars, Types, Stored
  <2>2. Whole' /\ RequestsSound'
    BY <1>1, <2>1
       DEF vars, IInv, Whole, Unique, AsNamed, Seeded, RequestsSound, Sound
  <2>3. QED
    BY <1>0, <2>2 DEF IInv
<1>2. CASE Next
  <2>1. PICK r \in Request :
          AdminRoutes(r) \/ InsertDefault(r) \/ Load(r) \/ Write(r) \/ Fails(r)
    BY <1>2 DEF Next
  <2>2. CASE Load(r)
    <3> DEFINE memory == [req[r] EXCEPT !.pc = "write",
                            !.diff = Differing(req[r].entity, table[req[r].id])]
    <3>1. req[r] \in Memory /\ req[r].pc = "load" /\ Sound(r, req[r])
      BY <2>2 DEF IInv, TypeOK, RequestsSound, Load
    <3>2. memory.pc = "write" /\ memory.id = req[r].id
      BY <3>1 DEF Memory
    <3>3. Goes(r, memory) /\ UNCHANGED <<table, looped, retyped>>
      BY <2>2 DEF Load
    <3> HIDE DEF memory
    <3>4. Sound(r, memory)
      BY <3>1, <3>2 DEF Sound
    <3>5. QED
      BY <1>0, <3>3, <3>4, GoesSound DEF IInv
  <2>3. CASE Fails(r)
    BY <1>0, <2>3, GoesSound, DoneSound DEF Fails, IInv
  <2>4. QED
    BY <1>0, <2>1, <2>2, <2>3, RoutesSound, InsertSound, WriteSound DEF IInv
<1>3. QED
  BY <1>1, <1>2

\* Overlapping starts of the service, failures among them and requests of
\* administrators that do not change a type never leave two plans of a type, nor a
\* finished seed without one.
THEOREM SeedAlwaysWhole ==
  ASSUME MaxRequests \in Nat
  PROVE  Spec => []SeedIsWhole
<1>1. Init => IInv
  <2> SUFFICES ASSUME Init PROVE IInv
    OBVIOUS
  <2>1. Stored = {}
    BY DEF Init, Stored
  <2>2. RequestsSound
    BY DEF Init, RequestsSound, Sound, Idle
  <2>3. QED
    BY <2>1, <2>2, InitType DEF Init, IInv, Whole, Unique, AsNamed, Seeded
<1>2. IInv /\ [Next]_vars => IInv'
  BY NextSound
<1>3. IInv => SeedIsWhole
  BY DEF IInv, Whole, Unique, Seeded, SeedIsWhole
<1>4. QED
  BY <1>1, <1>2, <1>3, PTL DEF Spec

=============================================================================

------------------------------- MODULE Templates -------------------------------
(***************************************************************************)
(* The table notification_templates under NotificationTemplateService.     *)
(*                                                                         *)
(*   idle -> seek -> load -> write -> done, or idle -> remove -> done      *)
(*                                                                         *)
(* A row has an id, here the request that created it, and a unique code.   *)
(* The seed looks for each default code and inserts a system template      *)
(* where there is none; nobody may change or delete a system template, but *)
(* rendering one saves it, to count its use.  Subject, texts and variables *)
(* are one body, named by the request that wrote it.                       *)
(***************************************************************************)
EXTENDS Integers, FiniteSets, EntitySave

CONSTANTS
  Codes,         \* codes of templates
  DefaultCodes,  \* those of the default templates
  MaxRequests,   \* bound: requests
  MaxInFlight    \* bound: the requests that overlap

Request == 1 .. MaxRequests
Row == [id : Request, isSystem : BOOLEAN, isActive : BOOLEAN, body : Request,
        usageCount : Nat]
NoRow == [id |-> 0]
Column == {"id", "isSystem", "isActive", "body", "usageCount"}

New(r, system) == [id |-> r, isSystem |-> system, isActive |-> TRUE, body |-> r,
                   usageCount |-> 0]

\* What a request holds: its operation, the code and the row it is about, the
\* codes the seed has still to look for, and whether its save found no row.
Memory == [pc : {"idle", "seek", "load", "write", "remove", "done"},
           op : {"create", "clone", "update", "render", "delete", "seed"},
           code : Codes, local : Row \cup {NoRow}, diff : SUBSET Column,
           absent : BOOLEAN, left : SUBSET DefaultCodes]
Idle == [pc |-> "idle", op |-> "seed", code |-> CHOOSE c \in Codes : TRUE,
         local |-> NoRow, diff |-> {}, absent |-> TRUE, left |-> {}]

VARIABLES
  table,  \* table[c]: the row with code c, or NoRow
  req     \* req[r]: what request r holds in memory

vars == <<table, req>>

Init ==
  /\ table = [c \in Codes |-> NoRow]
  /\ req = [r \in Request |-> Idle]

InFlight == {r \in Request : req[r].pc \notin {"idle", "done"}}

Arrives(r) ==
  /\ req[r].pc = "idle"
  /\ \A q \in 1 .. r - 1 : req[q].pc # "idle"
  /\ Cardinality(InFlight) < MaxInFlight

Goes(r, memory) == req' = [req EXCEPT ![r] = memory] /\ table' = table

\* Request r is to save entity, for which it found a free code, or its row.
Saves(r, o, c, entity) ==
  /\ Arrives(r)
  /\ Goes(r, [Idle EXCEPT !.pc = "load", !.op = o, !.code = c, !.local = entity])

-----------------------------------------------------------------------------
(* The methods.                                                            *)

Create(r, c) ==
  /\ table[c] = NoRow
  /\ \E active \in BOOLEAN : Saves(r, "create", c, [New(r, FALSE) EXCEPT !.isActive = active])

Clone(r, c) ==
  /\ table[c] = NoRow
  /\ \E original \in {table[d] : d \in Codes} \ {NoRow} :
       Saves(r, "clone", c, [New(r, FALSE) EXCEPT !.isActive = original.isActive,
                                                  !.body = original.body])

\* Faulty variant of Update: system templates may be edited, too.
UpdateAny(r, c) ==
  /\ table[c] # NoRow
  /\ \E active \in BOOLEAN, body \in {r, table[c].body} :
       Saves(r, "update", c, [table[c] EXCEPT !.isActive = active, !.body = body])

Update(r, c) ==
  /\ table[c] # NoRow
  /\ ~table[c].isSystem
  /\ \E active \in BOOLEAN, body \in {r, table[c].body} :
       Saves(r, "update", c, [table[c] EXCEPT !.isActive = active, !.body = body])

Delete(r, c) ==
  /\ Arrives(r)
  /\ table[c] # NoRow
  /\ ~table[c].isSystem
  /\ Goes(r, [Idle EXCEPT !.pc = "remove", !.op = "delete", !.code = c, !.local = table[c]])

\* The text is made from the copy in memory; what is saved is the count.
Render(r, c) ==
  /\ table[c] # NoRow
  /\ table[c].isActive
  /\ Saves(r, "render", c, [table[c] EXCEPT !.usageCount = @ + 1])

SeedDefaultTemplates(r) ==
  /\ Arrives(r)
  /\ Goes(r, [Idle EXCEPT !.pc = "seek", !.op = "seed", !.left = DefaultCodes])

\* Faulty variant of Seek: the seed replaces what there is.
SeekAny(r) ==
  /\ req[r].pc = "seek"
  /\ \E c \in req[r].left :
       LET left == req[r].left \ {c}
       IN /\ Goes(r, [req[r] EXCEPT !.pc = "load", !.code = c, !.left = left,
                        !.local = [New(r, TRUE) EXCEPT
                          !.id = IF table[c] = NoRow THEN r ELSE table[c].id]])

\* The next default template, in any order (they are distinct).
Seek(r) ==
  /\ req[r].pc = "seek"
  /\ \E c \in req[r].left :
       LET left == req[r].left \ {c}
       IN IF table[c] = NoRow
          THEN Goes(r, [req[r] EXCEPT !.pc = "load", !.code = c, !.left = left,
                                      !.local = New(r, TRUE)])
          ELSE Goes(r, [req[r] EXCEPT !.left = left])

SeedEnds(r) ==
  /\ req[r].pc = "seek" /\ req[r].left = {}
  /\ Goes(r, [Idle EXCEPT !.pc = "done"])

-----------------------------------------------------------------------------
(* The accesses of save and remove, by id.                                 *)

Load(r) ==
  LET c == req[r].code
      there == table[c] # NoRow /\ table[c].id = req[r].local.id
  IN /\ req[r].pc = "load"
     /\ Goes(r, [req[r] EXCEPT !.pc = "write", !.absent = ~there,
                   !.diff = IF there THEN Differing(req[r].local, table[c]) ELSE Column])

\* A row that has gone is not updated; a row that was not there is inserted.
Write(r) ==
  LET c == req[r].code
      there == table[c] # NoRow /\ table[c].id = req[r].local.id
  IN /\ req[r].pc = "write"
     /\ req[r].absent => table[c] = NoRow
     /\ table' = IF req[r].absent THEN [table EXCEPT ![c] = req[r].local]
                 ELSE IF there THEN [table EXCEPT ![c] = Patched(@, req[r].local, req[r].diff)]
                 ELSE table
     /\ req' = [req EXCEPT ![r] = IF req[r].op = "seed" THEN [req[r] EXCEPT !.pc = "seek"]
                                  ELSE [Idle EXCEPT !.pc = "done"]]

Remove(r) ==
  LET c == req[r].code
  IN /\ req[r].pc = "remove"
     /\ table' = IF table[c] # NoRow /\ table[c].id = req[r].local.id
                 THEN [table EXCEPT ![c] = NoRow] ELSE table
     /\ req' = [req EXCEPT ![r] = [Idle EXCEPT !.pc = "done"]]

\* An access fails, or an insert meets a code or an id that is taken: nothing
\* more happens, and what the seed has inserted stays.
Fails(r) == r \in InFlight /\ Goes(r, [Idle EXCEPT !.pc = "done"])

Next ==
  \E r \in Request :
    \/ \E c \in Codes :
         Create(r, c) \/ Clone(r, c) \/ Update(r, c) \/ Delete(r, c) \/ Render(r, c)
    \/ SeedDefaultTemplates(r) \/ Seek(r) \/ SeedEnds(r)
    \/ Load(r) \/ Write(r) \/ Remove(r) \/ Fails(r)

Spec == Init /\ [][Next]_vars

-----------------------------------------------------------------------------
(* Properties.                                                             *)

TypeOK ==
  /\ table \in [Codes -> Row \cup {NoRow}]
  /\ req \in [Request -> Memory]

\* A system template stays as it was seeded, except for its count, though every
\* notification that is rendered from it saves the whole entity, and though a
\* save that finds no row inserts one.
SystemTemplatesStay ==
  [][\A c \in Codes : table[c] # NoRow /\ table[c].isSystem =>
       table'[c] # NoRow /\ [table'[c] EXCEPT !.usageCount = table[c].usageCount] = table[c]]_vars

=============================================================================

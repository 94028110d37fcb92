------------------------------ MODULE EntitySave ------------------------------
(***************************************************************************)
(* What TypeORM's repository does with an entity, as the services use it.  *)
(*                                                                         *)
(* repository.save(entity) is two accesses.  The first selects the stored  *)
(* row (also a soft-deleted one) and keeps the columns in which the entity *)
(* differs from it; the second updates those columns and no others, or     *)
(* inserts the entity when the first found no row.  No version is checked, *)
(* and no transaction holds the findOne that read the entity, the first    *)
(* access and the second together.                                         *)
(***************************************************************************)

\* The columns in which the entity differs from the stored row.
Differing(entity, row) == {c \in DOMAIN row : entity[c] # row[c]}

\* The row once those columns are updated from the entity.
Patched(row, entity, columns) ==
  [c \in DOMAIN row |-> IF c \in columns THEN entity[c] ELSE row[c]]

=============================================================================

--------------------------------- MODULE Names ----------------------------------
(***************************************************************************)
(* What the symbol table reads off a name, and the shape of an array       *)
(* (symbols.c).  A name is the sequence of its characters: its kind is in  *)
(* its spelling, and an array has the same names as a variable.            *)
(***************************************************************************)
EXTENDS Values, FiniteSets

CONSTANTS
  Upper, Lower,  (* the letters                                            *)
  SizeMod,       (* a size_t is below it: 2^64 in the program              *)
  Memory         (* bound: the bytes that malloc has for one array         *)

ASSUME SizeAssumption == SizeMod \in Nat /\ 2 * (IntMax + 1) <= SizeMod

TIME == <<"T", "I", "M", "E">>
COUNT == <<"C", "O", "U", "N", "T">>

(* An expression that failed, and the value of a LOCAL.                    *)
NULL == [type |-> "NULL"]

-----------------------------------------------------------------------------
(* Names.                                                                  *)

Last(id) == id[Len(id)]

(* The second character of a name of two is its %, which is no letter.     *)
variable_name_is_integer(id) ==
  /\ Len(id) >= 2 /\ Last(id) = "%"
  /\ Len(id) > 2 \/ id[2] \in Lower
variable_name_is_real(id) == Last(id) \notin {"$", "%"}
variable_name_is_resident(id) ==
  Len(id) = 2 /\ (id[1] \in Upper \/ id[1] = "@") /\ id[2] = "%"
variable_name_is_string(id) == Last(id) = "$"

(* Variables: the type of a value, and whether a name may have it.          *)

Kind(v) == CASE value_is_float(v) -> "FLOAT"
             [] value_is_int(v) -> "INTEGER"
             [] OTHER -> "STRING"

Fits(id, v) == IF variable_name_is_string(id) THEN value_is_string(v)
               ELSE IF variable_name_is_integer(id) THEN value_is_int(v)
               ELSE value_is_numeric(v)

(* The error found while the arguments are evaluated and counted.          *)
ArgumentError(params, args) ==
  LET failing == {i \in DOMAIN args : args[i] = NULL}
  IN  IF \E i \in failing : i <= Len(params) THEN "EXPRESSION"
      ELSE IF Len(params) # Len(args) THEN "ARGUMENTS"
      ELSE "none"

-----------------------------------------------------------------------------
(* Arrays: u holds the dimensions and the elements in one sequence.        *)

PointerSize == 8
STATUS_ERROR == -3

(* The subscripts of a dimension: n + 1 as an int, converted to a size_t.  *)
Extent(n) == Wrap(n + 1) % SizeMod

array_size(dims) ==
  LET product[i \in 0..Len(dims)] ==
        IF i = 0 THEN 1 ELSE (product[i - 1] * Extent(dims[i])) % SizeMod
  IN  product[Len(dims)]

(* How the memory for the elements is got.  There may be too little of it, *)
(* which ends the program, and a request in bytes that wrapped is too      *)
(* small for the elements written next.                                    *)
Allocation(dims) ==
  LET bytes == PointerSize * array_size(dims)
  IN  IF bytes % SizeMod > Memory THEN "exit"
      ELSE IF bytes >= SizeMod THEN "overrun"
      ELSE "made"

(* The error array_index reports, "abort" for a subscript that is a string.*)
IndexError(dims, indices) ==
  LET Bad(i) == \/ ~value_is_numeric(indices[i])
                \/ value_int(indices[i]) \notin 0..dims[i]
      both == {i \in DOMAIN dims : i \in DOMAIN indices}
  IN  IF \E i \in both : Bad(i)
      THEN LET first == CHOOSE i \in both : Bad(i) /\ \A j \in 1..(i - 1) : ~Bad(j)
           IN  IF value_is_numeric(indices[first]) THEN "SUBSCRIPT" ELSE "abort"
      ELSE IF Len(indices) > Len(dims) THEN "MISSING_RPAREN"
      ELSE IF Len(indices) < Len(dims) THEN "ARRAY"
      ELSE "none"

(* The size divided by one dimension after the other: a row each.          *)
RowSizes(dims) ==
  LET rows[i \in 0..Len(dims)] ==
        IF i = 0 THEN array_size(dims) ELSE rows[i - 1] \div Extent(dims[i])
  IN  rows

(* A mutant: the subscript is multiplied before the size is divided.       *)
UndividedIndex(dims, indices) ==
  LET index[i \in 0..Len(dims)] ==
        IF i = 0 THEN 0
        ELSE Wrap(index[i - 1] + value_int(indices[i]) * RowSizes(dims)[i - 1])
  IN  index[Len(dims)]

(* The place of an element, counted from 0 in an int.                      *)
array_index(dims, indices) ==
  LET index[i \in 0..Len(dims)] ==
        IF i = 0 THEN 0
        ELSE Wrap(index[i - 1] + value_int(indices[i]) * RowSizes(dims)[i])
  IN  index[Len(dims)]

(* Why an element of array u cannot be had.  A place that looks like       *)
(* STATUS_ERROR is taken for one, with no error set; what a place outside  *)
(* the elements gives is undefined.                                        *)
ElementError(u, indices) ==
  LET index == array_index(u.dims, indices)
  IN  IF IndexError(u.dims, indices) # "none" THEN IndexError(u.dims, indices)
      ELSE IF index = STATUS_ERROR THEN "unreported"
      ELSE IF index + 1 \notin DOMAIN u.data THEN "overrun"
      ELSE "none"

ArrayType(id) == IF variable_name_is_real(id) THEN "FLOAT"
                 ELSE IF variable_name_is_string(id) THEN "STRING"
                 ELSE "INTEGER"

Zero(type) == CASE type = "FLOAT" -> value_float_new(0, 1)
                [] type = "INTEGER" -> value_int_new(0)
                [] type = "STRING" -> value_string_new(<<>>)

(* An element of a FLOAT array keeps an integer as a float.                *)
ElementFits(type, v) == CASE type = "FLOAT" -> value_is_numeric(v)
                          [] type = "INTEGER" -> value_is_int(v)
                          [] type = "STRING" -> value_is_string(v)
Element(type, v) == IF type = "FLOAT" THEN value_float(v) ELSE v
================================================================================

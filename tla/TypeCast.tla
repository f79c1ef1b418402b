------------------------------ MODULE TypeCast ------------------------------
(***************************************************************************)
(* The casts of ServerCore/TypeCast.h: a list of types, a table of the     *)
(* conversions between them, and the index in the list as the _typeID of   *)
(* an object.  The classes and the list are the caller's.                  *)
(***************************************************************************)
EXTENDS Integers, Sequences, FiniteSets

CONSTANTS
  Types,       (* the classes                                              *)
  NoType,      (* the base of a class that has none                        *)
  NullPtr      (* nullptr                                                  *)

ASSUME TypeCastAssumption == NullPtr \notin Types

VARIABLES
  TL,          (* the TypeList                                             *)
  base         (* class -> the class it is derived from                    *)

castVars == <<TL, base>>

TypeInit == TL = <<>> /\ base = [c \in Types |-> NoType]

(* A class and those it is derived from, at most n steps away.             *)
Above[n \in Nat, c \in Types] ==
  IF n = 0 \/ base[c] = NoType THEN {c} ELSE {c} \cup Above[n - 1, base[c]]
Bases(c) == Above[Cardinality(Types), c]

(* A list without repetition, and classes without a cycle.                 *)
DeclareTL(list, derived) ==
  /\ TL = <<>>
  /\ TL' = list
  /\ base' = derived

Length == Len(TL)
TypeAt(index) == TL[index + 1]
NotFound == -1

(* The index in the rest of the list is not moved up by one.               *)
MutMovedUp(temp) == temp

MovedUp(temp) == IF temp = NotFound THEN NotFound ELSE temp + 1

(* IndexOf, of c in the list from its element n + 1 on.                    *)
IndexOf(c) ==
  LET IndexIn[n \in 0 .. Length] ==
        IF n = Length THEN NotFound
        ELSE IF TypeAt(n) = c THEN 0 ELSE MovedUp(IndexIn[n + 1])
  IN  IndexIn[0]

(* Conversion<const From*, const To*>: to itself and to a base.            *)
Conversion(from, to) == to \in Bases(from)

(* The cells MakeTable(i, j) and the calls it makes set to true.           *)
MakeTable[call \in (0 .. Length) \X (0 .. Length)] ==
  LET i == call[1]
      j == call[2]
  IN  IF i = Length THEN {}
      ELSE IF j = Length THEN MakeTable[<<i + 1, 0>>]
      ELSE MakeTable[<<i, j + 1>>] \cup
           IF Conversion(TypeAt(i), TypeAt(j)) THEN {i * Length + j} ELSE {}

(* s_convert[from][to], a cell of the array in the order of its rows.      *)
CanConvert(from, to) == from * Length + to \in MakeTable[<<0, 0>>]

(* INIT_TL of the class an object was made as.                             *)
TypeID(c) == IndexOf(c)

(* A pointer is the class its object was made as, or nullptr.  TypeCast    *)
(* gives back the pointer when CanCast holds, and nullptr otherwise.       *)
CanCast(ptr, to) == ptr # NullPtr /\ CanConvert(TypeID(ptr), IndexOf(to))

-----------------------------------------------------------------------------
(* Properties                                                              *)

Listed == {TL[i] : i \in 1 .. Length}

(* TypeCast and CanCast tell whether there is an object and it is of the   *)
(* class asked for or of one derived from it, for the classes of the list  *)
(* in whatever order it has them (TypeCast.h:183-214).                     *)
CastsToBases ==
  \A ptr \in Listed \cup {NullPtr}, to \in Listed :
    CanCast(ptr, to) <=> ptr # NullPtr /\ to \in Bases(ptr)

(* TypeCast.h:199, "C#'s is": no object is said to be of a class that it   *)
(* is not of, whether the list has that class or not.  (For the object of  *)
(* the first row IndexOf = -1 is outside the table; the answer, which can  *)
(* be anything, is no in this model.)                                      *)
OnlyToBases ==
  \A ptr \in Listed, to \in Types : CanCast(ptr, to) => to \in Bases(ptr)

=============================================================================

--------------------------- MODULE StompAllocator ---------------------------
(***************************************************************************)
(* StompAllocator (ServerCore/Allocator.cpp): each block has pages of its  *)
(* own and ends where they end, so that an access past it meets a page     *)
(* that is not there.  Release finds the pages from the block's address.   *)
(***************************************************************************)
EXTENDS Integers, FiniteSets

CONSTANTS
  PAGE_SIZE,
  Granularity, (* VirtualAlloc reserves at multiples of so many bytes      *)
  Space,       (* bound: the addresses, from 0 on; the first ones are none *)
  MaxBlocks    (* bound: blocks at once                                    *)

ASSUME StompAssumption ==
  /\ PAGE_SIZE \in Nat \ {0}
  /\ Granularity \in Nat \ {0} /\ Granularity % PAGE_SIZE = 0
  /\ Space \in Nat

VARIABLES
  reserved,    (* what VirtualAlloc has given out: [base, bytes]           *)
  blocks       (* the blocks in use: [ptr, size, base]                     *)

stompVars == <<reserved, blocks>>

StompInit == reserved = {} /\ blocks = {}

(* Where memory can be reserved: nowhere else is anything there.           *)
Pages(r) == r.base .. r.base + r.bytes - 1
IsVacant(base, bytes) ==
  /\ base % Granularity = 0 /\ base # 0
  /\ base + bytes <= Space
  /\ \A r \in reserved : (base .. base + bytes - 1) \cap Pages(r) = {}

(* One page more than is needed when the size is a multiple of a page.     *)
MutPageCount(size) == size \div PAGE_SIZE + 1

PageCount(size)  == (size + PAGE_SIZE - 1) \div PAGE_SIZE
DataOffset(size) == PageCount(size) * PAGE_SIZE - size

Alloc(size, base) ==
  /\ Cardinality(blocks) < MaxBlocks
  /\ LET bytes == PageCount(size) * PAGE_SIZE
     IN  /\ IsVacant(base, bytes)
         /\ reserved' = reserved \cup {[base |-> base, bytes |-> bytes]}
  /\ blocks' = blocks \cup
       {[ptr |-> base + DataOffset(size), size |-> size, base |-> base]}

(* VirtualAlloc gives NULL, and the block is an address on the first page, *)
(* where nothing is.                                                       *)
AllocFails(size) ==
  /\ Cardinality(blocks) < MaxBlocks
  /\ blocks' = blocks \cup {[ptr |-> DataOffset(size), size |-> size, base |-> 0]}
  /\ UNCHANGED reserved

(* The address rounded down to a page.                                     *)
BaseAddress(address) == address - (address % PAGE_SIZE)

(* VirtualFree fails, and changes nothing, at any address but a base.      *)
ReleaseBlock(b) ==
  /\ b \in blocks
  /\ blocks' = blocks \ {b}
  /\ reserved' = {r \in reserved : r.base # BaseAddress(b.ptr)}

StompNext ==
  \/ \E size \in 1 .. Space :
       AllocFails(size) \/ \E base \in 0 .. Space : Alloc(size, base)
  \/ \E b \in blocks : ReleaseBlock(b)

-----------------------------------------------------------------------------
(* Properties                                                              *)

(* Release gives back exactly the pages Alloc reserved, for every size: no *)
(* page leaks and no other block loses its own, not even by the release of *)
(* a block that failed.  A block is on pages of its own, and the first     *)
(* byte past it is on none, unless they come to the end of their granule,  *)
(* where the next reservation may begin; a block that failed begins where  *)
(* nothing is (Allocator.cpp:22-37).                                       *)
IsMapped(address) == \E r \in reserved : address \in Pages(r)
StompsAreCaught ==
  /\ {r.base : r \in reserved} = {b.base : b \in blocks} \ {0}
  /\ \A b \in blocks :
       IF b.base = 0 THEN ~ IsMapped(b.ptr)
       ELSE LET end == b.ptr + b.size
            IN  /\ \A address \in b.ptr .. end - 1 : IsMapped(address)
                /\ IsMapped(end) => end % Granularity = 0

=============================================================================

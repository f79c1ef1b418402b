------------------------------- MODULE SList -------------------------------
(***************************************************************************)
(* The third list of GameServer/TestLockFree.cpp: entries that belong to   *)
(* the caller, linked from a header of two 64-bit words.  The header is    *)
(* read word by word and replaced as a whole.                              *)
(***************************************************************************)
EXTENDS SharedMemory, Integers, Sequences, FiniteSets

CONSTANTS
  Entries,       (* the entries, aligned to 16 bytes: >> 4 loses nothing   *)
  DepthLimit,    (* 2^16: depth counts modulo this                         *)
  SequenceLimit  (* 2^48: sequence counts modulo this                      *)

ASSUME SListAssumption ==
  /\ Null \notin Entries
  /\ DepthLimit \in Nat \ {0}
  /\ SequenceLimit \in Nat \ {0}

VARIABLES
  low,         (* header->alignment: depth and sequence                    *)
  high,        (* header->region: next                                     *)
  entryNext,   (* entry -> its next                                        *)
  listPc,      (* where each thread is                                     *)
  entry,       (* thread -> the entry it pushes                            *)
  expectedLow, (* thread -> the first word of expected                     *)
  expectedHigh,(* thread -> the second word                                *)
  listed       (* history: the entries pushed, the last first              *)

expected == <<expectedLow, expectedHigh>>
listVars == <<low, high, entryNext, listPc, entry, expected, listed>>

Counts == [depth : 0 .. DepthLimit - 1, sequence : 0 .. SequenceLimit - 1]

(* InitializeHead.                                                         *)
SListInit ==
  /\ low = [depth |-> 0, sequence |-> 0]
  /\ high = Null
  /\ entryNext = [e \in Entries |-> Null]
  /\ listPc = [t \in Threads |-> "idle"]
  /\ entry = [t \in Threads |-> Null]
  /\ expectedLow = [t \in Threads |-> low]
  /\ expectedHigh = [t \in Threads |-> Null]
  /\ listed = <<>>

IsUsed(e) == \/ \E t \in Threads : entry[t] = e
             \/ \E i \in DOMAIN listed : listed[i] = e

(* A caller brings an entry that is in no list.                            *)
PushEntrySList(t, e) ==
  /\ listPc[t] = "idle"
  /\ ~IsUsed(e)
  /\ entry' = [entry EXCEPT ![t] = e]
  /\ listPc' = [listPc EXCEPT ![t] = "read"]
  /\ UNCHANGED <<low, high, entryNext, expected, listed>>

(* expected = *header: the words one after the other, in either order.     *)
ReadLow(t) ==
  /\ listPc[t] \in {"read", "readLow"}
  /\ expectedLow' = [expectedLow EXCEPT ![t] = low]
  /\ listPc' = [listPc EXCEPT ![t] = IF @ = "read" THEN "readHigh" ELSE "link"]
  /\ UNCHANGED <<low, high, entryNext, entry, expectedHigh, listed>>

ReadHigh(t) ==
  /\ listPc[t] \in {"read", "readHigh"}
  /\ expectedHigh' = [expectedHigh EXCEPT ![t] = high]
  /\ listPc' = [listPc EXCEPT ![t] = IF @ = "read" THEN "readLow" ELSE "link"]
  /\ UNCHANGED <<low, high, entryNext, entry, expectedLow, listed>>

Link(t) ==
  /\ listPc[t] = "link"
  /\ entryNext' = [entryNext EXCEPT ![entry[t]] = expectedHigh[t]]
  /\ listPc' = [listPc EXCEPT ![t] = "cas"]
  /\ UNCHANGED <<low, high, entry, expected, listed>>

(* A compare and exchange of the first word alone.                         *)
MutMatches(t) == low = expectedLow[t]

(* InterlockedCompareExchange128 compares both.                            *)
Matches(t) == low = expectedLow[t] /\ high = expectedHigh[t]

Counted(l) == [depth    |-> (l.depth + 1) % DepthLimit,
               sequence |-> (l.sequence + 1) % SequenceLimit]

Exchange(t) ==
  /\ listPc[t] = "cas"
  /\ Matches(t)
  /\ low' = Counted(expectedLow[t])
  /\ high' = entry[t]
  /\ listed' = <<entry[t]>> \o listed
  /\ entry' = [entry EXCEPT ![t] = Null]
  /\ listPc' = [listPc EXCEPT ![t] = "idle"]
  /\ UNCHANGED <<entryNext, expected>>

(* Another turn: the header is read again.                                 *)
ExchangeFails(t) ==
  /\ listPc[t] = "cas"
  /\ ~Matches(t)
  /\ listPc' = [listPc EXCEPT ![t] = "read"]
  /\ UNCHANGED <<low, high, entryNext, entry, expected, listed>>

(* PopEntrySList has no exchange yet: it only leaves its loop when it      *)
(* finds the list empty.                                                   *)
PopEntrySList(t) ==
  /\ listPc[t] = "idle"
  /\ listPc' = [listPc EXCEPT ![t] = "pop"]
  /\ UNCHANGED <<low, high, entryNext, entry, expected, listed>>

PopEmpty(t) ==
  /\ listPc[t] = "pop"
  /\ high = Null
  /\ listPc' = [listPc EXCEPT ![t] = "idle"]
  /\ UNCHANGED <<low, high, entryNext, entry, expected, listed>>

SListNext ==
  \E t \in Threads :
    \/ \E e \in Entries : PushEntrySList(t, e)
    \/ ReadLow(t) \/ ReadHigh(t) \/ Link(t)
    \/ Exchange(t) \/ ExchangeFails(t)
    \/ PopEntrySList(t) \/ PopEmpty(t)

SListSpec == SListInit /\ [][SListNext]_listVars

-----------------------------------------------------------------------------
(* Properties                                                              *)

SListTypeOK ==
  /\ low \in Counts
  /\ high \in Entries \cup {Null}
  /\ entryNext \in [Entries -> Entries \cup {Null}]
  /\ listPc \in [Threads -> {"idle", "read", "readLow", "readHigh", "link", "cas", "pop"}]
  /\ entry \in [Threads -> Entries \cup {Null}]
  /\ expectedLow \in [Threads -> Counts]
  /\ expectedHigh \in [Threads -> Entries \cup {Null}]
  /\ listed \in Seq(Entries)

(* A header read in two halves is never installed: the list from header    *)
(* holds every entry that was pushed, once and in order, and depth and     *)
(* sequence count them, whatever the threads read in between (the comment  *)
(* "what if somebody comes in between?", TestLockFree.cpp:178).            *)
EntryAfter(i) == IF i = Len(listed) THEN Null ELSE listed[i + 1]
EveryEntryListed ==
  /\ high = IF listed = <<>> THEN Null ELSE listed[1]
  /\ \A i \in 1 .. Len(listed) :
       /\ entryNext[listed[i]] = EntryAfter(i)
       /\ \A j \in 1 .. Len(listed) : listed[i] = listed[j] => i = j
  /\ low.depth = Len(listed) % DepthLimit
  /\ low.sequence = Len(listed) % SequenceLimit

=============================================================================

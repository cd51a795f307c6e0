---------------------------- MODULE StatusTable ----------------------------
(***************************************************************************)
(* The status words of sectors, nodes and index records, bit by bit        *)
(* (src/src/status.rs, write_status and read_status of src/src/flash.rs).  *)
(* The modules of the databases take a status for an atomic value that     *)
(* only goes forward; here it is a byte whose bits are written one by one, *)
(* and power may fail in between.  The medium is a NOR flash, which clears *)
(* bits, or one of the backends of storage.rs, which take the bytes as     *)
(* they are.                                                               *)
(***************************************************************************)
EXTENDS Integers

CONSTANT StatusNum      \* the number of states, status_num

\* KV_STATUS_NUM and TSL_STATUS_NUM are 6, those of sectors 4.  From nine states on
\* state 8 would clear no bit.
ASSUME StatusNumAssumption == StatusNum \in 2 .. 8

Index == 0 .. StatusNum-1

\* The bits of the table, the most significant one of the first byte first.
Bits == 0 .. 8 * ((StatusNum + 7) \div 8) - 1

\* A table is the set of its bits that are 1.
ErasedTable == Bits

\* The bits that set_status clears.
\* Mutant: one too few.
M_Cleared(i) == IF i = 0 THEN {}
                ELSE {b \in Bits : b \div 8 = (i-1) \div 8 /\ b % 8 < (i-1) % 8}
Cleared(i) == IF i = 0 THEN {}
              ELSE {b \in Bits : b \div 8 = (i-1) \div 8 /\ b % 8 < i % 8}

\* The search goes downwards, for the first bit that is 0.
\* Mutant: it goes upwards.
M_get_status(t) == LET zeros == {b \in 0 .. StatusNum-2 : b \notin t}
                   IN  IF zeros = {} THEN 0
                       ELSE (CHOOSE b \in zeros : \A c \in zeros : c >= b) + 1
get_status(t) == LET zeros == {b \in 0 .. StatusNum-2 : b \notin t}
                 IN  IF zeros = {} THEN 0
                     ELSE (CHOOSE b \in zeros : \A c \in zeros : c <= b) + 1

----------------------------------------------------------------------------

VARIABLES
    overwrites, \* the medium takes the bits as they are written, also those that are 1
    table,      \* the status word on the medium
    reached,    \* history: the highest state that was written completely
    asked       \* history: the highest state that was written

statusVars == <<overwrites, table, reached, asked>>

StatusInit == overwrites \in BOOLEAN /\ table = ErasedTable /\ reached = 0 /\ asked = 0

Higher(i, j) == IF i > j THEN i ELSE j

\* State i is written over t; power is lost when only the bits in "bits" are written.
Programmed(t, i, bits) ==
    IF overwrites THEN (t \ bits) \cup (bits \ Cleared(i)) ELSE t \ (bits \cap Cleared(i))

\* Where bits that are 1 are written too, no state is written that is earlier than what is
\* read (but by the client's set_status, after which the word reads as what was written).
write_status(i, bits) ==
    /\ overwrites => i >= get_status(table)
    /\ table' = Programmed(table, i, bits)
    /\ reached' = IF Cleared(i) \subseteq bits THEN Higher(reached, i) ELSE reached
    /\ asked' = Higher(asked, i)
    /\ UNCHANGED overwrites

\* State 0 is not written.
StatusNext == \E i \in Index \ {0} : \E bits \in SUBSET Bits : write_status(i, bits)

StatusSpec == StatusInit /\ [][StatusNext]_statusVars

----------------------------------------------------------------------------

StatusTypeOK ==
    overwrites \in BOOLEAN /\ table \subseteq Bits /\ reached \in Index /\ asked \in Index

\* Whatever power failure leaves of the writes, the word reads as a state between the
\* highest one that was written and the highest one that was begun (get_status of
\* set_status, status.rs:16-50): on a medium that only clears bits in whatever order states
\* are written, on one that overwrites them if none is earlier than what was read.
ReadsBetween == get_status(table) \in reached .. asked

\* A word never reads as an earlier state than before: a node that was live and is
\* marked does not come back when the marking is torn.
ReadsForward == [][get_status(table) <= get_status(table')]_table
=============================================================================

----------------------------- MODULE FlashScan -----------------------------
(***************************************************************************)
(* The two scans over the bytes of a sector: continue_ff_addr of           *)
(* src/src/flash.rs, which looks for the end of the data, and              *)
(* find_next_kv_addr of src/src/kvdb.rs, which looks for the next node.    *)
(* Both read the medium in pieces; a step is one piece.  KvFlash.tla takes *)
(* the list of nodes and the end of the last one for what they return.     *)
(*                                                                         *)
(* Of a byte it matters whether it is erased and whether a magic word      *)
(* begins there.                                                           *)
(***************************************************************************)
EXTENDS Integers

CONSTANTS
    Size,           \* the bytes that are scanned: a sector
    Buf,            \* the length of buf: 32 in both functions
    Word,           \* the length of KV_MAGIC_WORD: 4
    MagicOffset     \* KV_MAGIC_OFFSET: 4

ASSUME ScanAssumption == /\ Size \in Nat /\ Buf \in Nat /\ Word \in Nat /\ MagicOffset \in Nat
                         /\ 0 < Word /\ Word < Buf

Byte == {"erased", "magic", "other"}

\* A magic word has no erased byte and does not overlap another one.
Memory == {m \in [0 .. Size-1 -> Byte] :
              \A p \in 0 .. Size-1 : m[p] = "magic" =>
                  /\ p + Word <= Size
                  /\ \A q \in p+1 .. p+Word-1 : m[q] = "other"}

FAILED_ADDR == -1
NoResult == -2

VARIABLES
    mem,        \* the medium
    pc,         \* "Idle", or the function in execution: "Ff", "Find"
    op,         \* the function that was called last
    from,       \* its argument start (start_bak)
    start,      \* the address of the next piece
    end,        \* its argument end
    buf, last, addr,    \* buf, last_data and addr of continue_ff_addr
    stale,      \* history: a read failed during this call
    result      \* what was returned

scanVars == <<mem, pc, op, from, start, end, buf, last, addr, stale, result>>

Zeros == [i \in 0 .. Buf-1 |-> "other"]

ScanInit ==
    /\ mem \in Memory
    /\ pc = "Idle" /\ op = "None" /\ result = NoResult
    /\ from = 0 /\ start = 0 /\ end = 0 /\ addr = 0
    /\ buf = Zeros /\ last = "other" /\ stale = FALSE

First(S) == CHOOSE i \in S : \A j \in S : i <= j
Last(S) == CHOOSE i \in S : \A j \in S : j <= i

Begin(f, s, e) ==
    /\ pc = "Idle" /\ pc' = f /\ op' = f
    /\ from' = s /\ start' = s /\ end' = e /\ addr' = s
    /\ buf' = Zeros /\ last' = "other" /\ stale' = FALSE /\ result' = NoResult
    /\ UNCHANGED mem

\* A call that returned leaves no locals.
Return(r) ==
    /\ pc' = "Idle" /\ result' = r
    /\ start' = from /\ addr' = from /\ buf' = Zeros /\ last' = "other"
    /\ UNCHANGED <<mem, op, from, end>>

----------------------------------------------------------------------------
(* continue_ff_addr *)

PieceLen == IF start + Buf <= end THEN Buf ELSE end - start

\* Where a run of erased bytes begins in the piece b; prev is the byte in front of it.
\* Mutant: the byte in front of the piece is forgotten.
M_Edges(b, n, prev) == {i \in 0 .. n-1 : b[i] = "erased" /\ (i > 0 => b[i-1] # "erased")}
Edges(b, n, prev) ==
    {i \in 0 .. n-1 : b[i] = "erased" /\ (IF i = 0 THEN prev ELSE b[i-1]) # "erased"}

\* An error of the read is ignored: the bytes of the piece before are taken again.
FfPiece(ok) ==
    /\ pc = "Ff" /\ start < end
    /\ buf' = [i \in 0 .. Buf-1 |-> IF ok /\ i < PieceLen THEN mem[start + i] ELSE buf[i]]
    /\ LET edges == Edges(buf', PieceLen, last)
       IN  addr' = IF edges = {} THEN addr ELSE start + Last(edges)
    /\ last' = buf'[PieceLen - 1]
    /\ start' = start + Buf
    /\ stale' = (stale \/ ~ok)
    /\ UNCHANGED <<mem, pc, op, from, end, result>>

FfEnd ==
    /\ pc = "Ff" /\ start >= end
    /\ Return(IF last = "erased" THEN addr ELSE end)
    /\ UNCHANGED stale

----------------------------------------------------------------------------
(* find_next_kv_addr *)

\* A piece is searched up to where the word would not fit any more; the next one begins
\* there.  Mutant: it begins behind the piece.
M_Stride == Buf
Stride == Buf - Word

\* The magic words in the piece that are those of a node from the start on.
Hits == {p \in start .. start + Buf - Word - 1 :
            p <= end /\ mem[p] = "magic" /\ p - MagicOffset >= from}

FindPiece ==
    /\ pc = "Find" /\ start + Buf < end
    /\ \/ Hits # {} /\ Return(First(Hits) - MagicOffset)
       \/ /\ Hits = {} /\ start' = start + Stride
          /\ UNCHANGED <<mem, pc, op, from, end, buf, last, addr, result>>
    /\ UNCHANGED stale

FindError == /\ pc = "Find" /\ start + Buf < end
             /\ Return(FAILED_ADDR) /\ stale' = TRUE

FindEnd == /\ pc = "Find" /\ start + Buf >= end
           /\ Return(FAILED_ADDR) /\ UNCHANGED stale

----------------------------------------------------------------------------

\* The search starts behind the header of a sector.
ScanNext ==
    \/ \E s, e \in 0 .. Size : /\ s <= e
                               /\ Begin("Ff", s, e) \/ (MagicOffset <= s /\ Begin("Find", s, e))
    \/ \E ok \in BOOLEAN : FfPiece(ok)
    \/ FfEnd \/ FindPiece \/ FindError \/ FindEnd

ScanSpec == ScanInit /\ [][ScanNext]_scanVars

----------------------------------------------------------------------------

Erased(p, q) == \A i \in p .. q-1 : mem[i] = "erased"
NoMagic(p, q) == \A i \in p .. q-1 : mem[i] # "magic"

\* The end of the data is where everything up to the end is erased and nothing was in
\* front: also when the erased bytes begin in one piece and go on in the next ones
\* (continue_ff_addr, flash.rs:48-74).  If a read fails it is still a place in between,
\* and it may be in the middle of data.
EndFound ==
    pc = "Idle" /\ op = "Ff" =>
        /\ result \in from .. end
        /\ ~stale => Erased(result, end) /\ (result > from => mem[result - 1] # "erased")

\* The search finds the first node whose magic word is more than one piece in front of
\* the end, also if its magic word lies across the end of a piece; what it finds is one
\* (find_next_kv_addr, kvdb.rs:293-314).
NodeFound ==
    pc = "Idle" /\ op = "Find" =>
        \/ /\ result = FAILED_ADDR
           /\ stale \/ NoMagic(from + MagicOffset, end - Buf)
        \/ /\ result >= from /\ result + MagicOffset < end
           /\ mem[result + MagicOffset] = "magic"
           /\ NoMagic(from + MagicOffset, result + MagicOffset)
=============================================================================

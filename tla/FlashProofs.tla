---------------------------- MODULE FlashProofs ----------------------------
(***************************************************************************)
(* Proofs about the scans over the bytes of a sector, for every length of  *)
(* the sector and of the buffer, and about the status words.               *)
(***************************************************************************)
EXTENDS FlashScan, StatusTable, TLAPS, WellFoundedInduction

----------------------------------------------------------------------------
(* First and last numbers of a set *)

LEMMA FirstExists ==
  ASSUME NEW S, S \subseteq Nat, S # {}
  PROVE  First(S) \in S /\ \A y \in S : First(S) <= y
<1> DEFINE R == {ss \in Nat \X Nat : ss[1] < ss[2]}
<1>1. IsWellFoundedOn(R, Nat)
  BY NatLessThanWellFounded DEF OpToRel
<1>2. \A x, y \in Nat : x < y => <<x, y>> \in R
  OBVIOUS
<1> HIDE DEF R
<1>3. PICK x \in S : \A y \in S : ~ (<<y, x>> \in R)
  BY <1>1, WFMin
<1>4. \A y \in S : x <= y
  <2> TAKE y \in S
  <2>1. x \in Nat /\ y \in Nat /\ ~ (y < x)
    BY <1>2, <1>3
  <2> QED BY <2>1
<1> QED BY <1>3, <1>4 DEF First

\* A set of numbers below a bound has a last one: the first one counted from the bound.
LEMMA TopExists ==
  ASSUME NEW n \in Nat, NEW S, S \subseteq 0 .. n, S # {}
  PROVE  \E x \in S : \A y \in S : y <= x
<1> DEFINE T == {i \in 0 .. n : n - i \in S}
<1>1. T \subseteq Nat /\ T # {}
  <2>1. PICK s \in S : TRUE
    OBVIOUS
  <2>2. n - s \in 0 .. n /\ n - (n - s) = s
    BY <2>1
  <2> QED BY <2>2
<1>2. PICK i \in T : \A j \in T : i <= j
  <2> HIDE DEF T
  <2> QED BY <1>1, FirstExists
<1>3. \A y \in S : n - y \in T
  OBVIOUS
<1>4. \A y \in S : y <= n - i
  <2> TAKE y \in S
  <2>1. i <= n - y /\ i \in Int /\ y \in Int
    BY <1>2, <1>3
  <2> QED BY <2>1
<1> QED BY <1>2, <1>4

LEMMA LastExists ==
  ASSUME NEW n \in Nat, NEW S, S \subseteq 0 .. n, S # {}
  PROVE  Last(S) \in S /\ \A y \in S : y <= Last(S)
BY TopExists DEF Last

----------------------------------------------------------------------------
(* The status words *)

LEMMA OneByte == Bits = 0 .. 7 /\ StatusNum \in 2 .. 8
<1>1. StatusNum \in 2 .. 8
  BY StatusNumAssumption
<1>2. (StatusNum + 7) \div 8 = 1
  BY <1>1
<1> QED BY <1>1, <1>2 DEF Bits

\* State i has the i highest bits cleared.
LEMMA ClearedBits ==
  ASSUME NEW i \in Index
  PROVE  Cleared(i) = 0 .. i-1
<1>1. i \in 0 .. 7 /\ Bits = 0 .. 7
  BY OneByte DEF Index
<1>2. CASE i = 0
  BY <1>2 DEF Cleared
<1>3. CASE i # 0
  <2>1. i \in 1 .. 7 /\ (i-1) \div 8 = 0 /\ i % 8 = i
    BY <1>1, <1>3
  <2>2. \A b \in 0 .. 7 : b \div 8 = 0 /\ b % 8 = b
    OBVIOUS
  <2>3. Cleared(i) = {b \in 0 .. 7 : b \div 8 = 0 /\ b % 8 < i}
    BY <1>1, <1>3, <2>1 DEF Cleared
  <2> QED BY <2>1, <2>2, <2>3
<1> QED BY <1>2, <1>3

\* What get_status returns: the number of the last bit that is 0.
LEMMA StatusRead ==
  ASSUME NEW t
  PROVE  /\ get_status(t) \in Index
         /\ get_status(t) > 0 => get_status(t) - 1 \notin t
         /\ \A b \in 0 .. StatusNum-2 : b >= get_status(t) => b \in t
<1> DEFINE zeros == {b \in 0 .. StatusNum-2 : b \notin t}
<1>1. CASE zeros = {}
  BY <1>1, OneByte DEF get_status, Index
<1>2. CASE zeros # {}
  <2>1. StatusNum - 2 \in Nat /\ zeros \subseteq 0 .. StatusNum-2
    BY OneByte
  <2>2. get_status(t) = (CHOOSE b \in zeros : \A c \in zeros : c <= b) + 1
    BY <1>2 DEF get_status
  <2>3. \A b \in 0 .. StatusNum-2 : b \notin zeros => b \in t
    OBVIOUS
  <2>4. \A b \in zeros : b \notin t
    OBVIOUS
  <2> HIDE DEF zeros
  <2>5. PICK z : z = CHOOSE b \in zeros : \A c \in zeros : c <= b
    OBVIOUS
  <2>6. /\ z \in zeros /\ \A c \in zeros : c <= z
        /\ z \in 0 .. StatusNum-2 /\ get_status(t) = z + 1
    <3>1. \E x \in zeros : \A y \in zeros : y <= x
      BY <1>2, <2>1, TopExists
    <3>2. z \in zeros /\ \A c \in zeros : c <= z
      BY <2>5, <3>1
    <3>3. get_status(t) = z + 1
      BY <2>2, <2>5, Zenon
    <3> QED BY <2>1, <3>2, <3>3
  <2>7. \A b \in 0 .. StatusNum-2 : b >= get_status(t) => b \notin zeros
    BY <2>6
  <2> QED BY <2>3, <2>4, <2>6, <2>7, OneByte DEF Index
<1> QED BY <1>1, <1>2

\* The bits of the states that were written are 0, those of no state that was begun are.
StatusIInv ==
    /\ StatusTypeOK /\ reached <= asked
    /\ \A b \in 0 .. reached-1 : b \notin table
    /\ \A b \in asked .. 7 : b \in table

LEMMA StatusStep ==
  ASSUME StatusIInv, StatusNext
  PROVE  StatusIInv' /\ table' \subseteq table
<1>1. PICK i \in Index \ {0} : \E bits \in SUBSET Bits : write_status(i, bits)
  BY DEF StatusNext
<1>2. PICK bits \in SUBSET Bits : write_status(i, bits)
  BY <1>1
<1>3. Cleared(i) = 0 .. i-1 /\ i \in Nat /\ i <= StatusNum - 1 /\ Bits = 0 .. 7
  BY ClearedBits, OneByte DEF Index
<1>4. /\ table' = Programmed(table, i, bits) /\ asked' = Higher(asked, i)
      /\ reached' = IF Cleared(i) \subseteq bits THEN Higher(reached, i) ELSE reached
      /\ overwrites' = overwrites /\ (overwrites => i >= get_status(table))
  BY <1>2 DEF write_status
<1>5. /\ reached \in Nat /\ asked \in Nat /\ reached <= asked /\ asked <= StatusNum - 1
      /\ StatusNum \in 2 .. 8 /\ table \subseteq Bits
  BY OneByte DEF StatusIInv, StatusTypeOK, Index
<1>6. table' \subseteq table
  <2>1. CASE ~overwrites
    BY <1>4, <2>1 DEF Programmed
  <2>2. CASE overwrites
    <3> SUFFICES ASSUME NEW b \in bits, b \notin Cleared(i) PROVE b \in table
      BY <1>4, <2>2 DEF Programmed
    <3>1. b \in i .. 7
      BY <1>3
    <3>2. CASE b <= StatusNum-2
      <4>1. b \in 0 .. StatusNum-2 /\ b >= get_status(table)
        BY <1>3, <1>4, <1>5, <2>2, <3>1, <3>2, StatusRead DEF Index
      <4> QED BY <4>1, StatusRead
    <3>3. CASE b > StatusNum-2
      <4>1. b \in asked .. 7
        BY <1>5, <3>1, <3>3
      <4> QED BY <4>1 DEF StatusIInv
    <3> QED BY <1>5, <3>1, <3>2, <3>3
  <2> QED BY <2>1, <2>2
<1>7. StatusTypeOK' /\ reached' <= asked'
  <2>1. table' \subseteq Bits
    BY <1>5, <1>6
  <2> QED BY <1>1, <1>4, <1>5, <2>1 DEF StatusIInv, StatusTypeOK, Higher, Index
<1>8. \A b \in 0 .. reached'-1 : b \notin table'
  <2>1. CASE reached' = reached
    BY <1>6, <2>1 DEF StatusIInv
  <2>2. CASE Cleared(i) \subseteq bits /\ reached' = i
    BY <1>3, <1>4, <2>2 DEF Programmed
  <2> QED BY <1>4, <2>1, <2>2 DEF Higher
<1>9. \A b \in asked' .. 7 : b \in table'
  <2> SUFFICES ASSUME NEW b \in asked' .. 7 PROVE b \in table'
    OBVIOUS
  <2>1. asked' >= asked /\ asked' >= i /\ asked' \in Nat
    BY <1>3, <1>4, <1>5 DEF Higher
  <2>2. b \in table
    BY <1>5, <2>1 DEF StatusIInv
  <2>3. b \notin Cleared(i)
    BY <1>3, <2>1
  <2> QED BY <1>4, <2>2, <2>3 DEF Programmed
<1> QED BY <1>6, <1>7, <1>8, <1>9 DEF StatusIInv

LEMMA StatusInv == StatusSpec => []StatusIInv
<1>1. StatusInit => StatusIInv
  BY OneByte DEF StatusInit, StatusIInv, StatusTypeOK, ErasedTable, Index
<1>2. StatusIInv /\ [StatusNext]_statusVars => StatusIInv'
  <2>1. StatusIInv /\ UNCHANGED statusVars => StatusIInv'
    BY DEF statusVars, StatusIInv, StatusTypeOK
  <2> QED BY <2>1, StatusStep
<1> QED BY <1>1, <1>2, PTL DEF StatusSpec

\* However the writes of a status word are torn, it reads as a state between those that
\* were written and those that were begun; with one state written and no other begun, as
\* that one (the encoding of status.rs, for up to eight states): also on a medium that
\* overwrites, as long as no state is earlier than what was read.
THEOREM StatusReadsBetween == StatusSpec => []ReadsBetween
<1>1. StatusIInv => ReadsBetween
  <2> SUFFICES ASSUME StatusIInv PROVE get_status(table) \in reached .. asked
    BY DEF ReadsBetween
  <2>1. reached \in Index /\ asked \in Index /\ get_status(table) \in Index
    BY StatusRead DEF StatusIInv, StatusTypeOK
  <2>2. get_status(table) >= reached
    <3>1. SUFFICES ASSUME get_status(table) < reached PROVE FALSE
      BY <2>1 DEF Index
    <3>2. reached - 1 \in 0 .. StatusNum-2 /\ reached - 1 >= get_status(table)
          /\ reached - 1 \in 0 .. reached-1
      BY <2>1, <3>1, OneByte DEF Index
    <3>3. reached - 1 \in table
      BY <3>2, StatusRead
    <3>4. reached - 1 \notin table
      BY <3>2 DEF StatusIInv
    <3> QED BY <3>3, <3>4
  <2>3. get_status(table) <= asked
    <3>1. SUFFICES ASSUME get_status(table) > asked PROVE FALSE
      BY <2>1 DEF Index
    <3>2. get_status(table) - 1 \in asked .. StatusNum-2 /\ get_status(table) > 0
      BY <2>1, <3>1, OneByte DEF Index
    <3>3. get_status(table) - 1 \in table
      BY <3>2, OneByte DEF StatusIInv
    <3> QED BY <3>2, <3>3, StatusRead
  <2> QED BY <2>1, <2>2, <2>3 DEF Index
<1> QED BY <1>1, StatusInv, PTL

\* A status word never reads as an earlier state than before, on either kind of medium.
THEOREM StatusReadsForward == StatusSpec => ReadsForward
<1>1. ASSUME table' \subseteq table PROVE get_status(table) <= get_status(table')
  <2>1. get_status(table) \in Index /\ get_status(table') \in Index
    BY StatusRead
  <2>2. SUFFICES ASSUME get_status(table) > get_status(table') PROVE FALSE
    BY <2>1 DEF Index
  <2>3. get_status(table) > 0 /\ get_status(table) - 1 \in 0 .. StatusNum-2
        /\ get_status(table) - 1 >= get_status(table')
    BY <2>1, <2>2, OneByte DEF Index
  <2>4. get_status(table) - 1 \notin table
    BY <2>3, StatusRead
  <2>5. get_status(table) - 1 \in table'
    BY <2>3, StatusRead
  <2> QED BY <1>1, <2>4, <2>5
<1>2. StatusIInv /\ [StatusNext]_statusVars => [get_status(table) <= get_status(table')]_table
  <2>1. StatusIInv /\ StatusNext => get_status(table) <= get_status(table')
    BY <1>1, StatusStep
  <2> QED BY <2>1 DEF statusVars
<1> QED BY <1>2, StatusInv, PTL DEF StatusSpec, ReadsForward

----------------------------------------------------------------------------
(* The scans: what is known between two pieces *)

ScanType ==
    /\ mem \in [0 .. Size-1 -> Byte]
    /\ pc \in {"Idle", "Ff", "Find"} /\ op \in {"None", "Ff", "Find"} /\ (pc # "Idle" => op = pc)
    /\ from \in Nat /\ start \in Nat /\ end \in Nat /\ addr \in Nat
    /\ from <= start /\ from <= end /\ end <= Size
    /\ buf \in [0 .. Buf-1 -> Byte] /\ last \in Byte /\ stale \in BOOLEAN

\* The bytes in front of Seen were looked at.
Seen == IF start < end THEN start ELSE end

\* If the last byte that was looked at is erased, so is everything from addr on.
Run == last = "erased" => Erased(addr, Seen) /\ (addr > from => mem[addr - 1] # "erased")

FfInv == /\ from <= addr /\ addr <= Seen
         /\ ~stale => (Seen = from => last = "other") /\ (Seen > from => last = mem[Seen - 1]) /\ Run

ScanIInv == /\ ScanType
            /\ pc = "Ff" => FfInv
            /\ pc = "Find" => NoMagic(from + MagicOffset, start)
            /\ EndFound /\ NodeFound

LEMMA Lengths == /\ Size \in Nat /\ Buf \in Nat \ {0} /\ Word \in Nat \ {0} /\ Word < Buf
                 /\ MagicOffset \in Nat
BY ScanAssumption

\* A row of bytes in which no run begins behind m and that ends erased is erased from m on.
LEMMA RunOf ==
  ASSUME NEW n \in Nat, NEW b, NEW m \in 0 .. n, b[n] = "erased",
         \A i \in m+1 .. n : ~(b[i] = "erased" /\ b[i-1] # "erased")
  PROVE  \A i \in m .. n : b[i] = "erased"
<1> DEFINE bad == {i \in m .. n : b[i] # "erased"}
<1>1. SUFFICES ASSUME bad # {} PROVE FALSE
  OBVIOUS
<1>2. bad \subseteq 0 .. n
  OBVIOUS
<1>3. PICK x \in bad : \A y \in bad : y <= x
  <2> HIDE DEF bad
  <2> QED BY <1>1, <1>2, TopExists
<1>4. x \in m .. n /\ b[x] # "erased" /\ x # n
  BY <1>3
<1>5. x + 1 \in m+1 .. n /\ (x + 1) - 1 = x
  BY <1>4
<1>6. b[x + 1] # "erased"
  BY <1>4, <1>5
<1>7. x + 1 \in bad
  BY <1>5, <1>6
<1> QED BY <1>3, <1>4, <1>7

LEMMA BeginStep ==
  ASSUME ScanIInv, NEW f \in {"Ff", "Find"}, NEW s \in 0 .. Size, NEW e \in 0 .. Size, s <= e,
         Begin(f, s, e)
  PROVE  ScanIInv'
<1>1. /\ pc' = f /\ op' = f /\ from' = s /\ start' = s /\ end' = e /\ addr' = s
      /\ buf' = Zeros /\ last' = "other" /\ mem' = mem /\ stale' = FALSE
  BY DEF Begin
<1>2. ScanType'
  <2>1. mem' \in [0 .. Size-1 -> Byte] /\ Zeros \in [0 .. Buf-1 -> Byte] /\ "other" \in Byte
    BY <1>1 DEF ScanIInv, ScanType, Zeros, Byte
  <2>2. s \in Nat /\ e \in Nat /\ e <= Size
    BY Lengths
  <2>3. s \in Nat /\ s <= s
    OBVIOUS
  <2>4. stale' \in BOOLEAN
    BY <1>1
  <2>5. pc' \in {"Ff", "Find"} /\ op' = pc'
    BY <1>1
  <2> QED BY <1>1, <2>1, <2>2, <2>3, <2>4, <2>5 DEF ScanType
<1>3. Seen' = s
  BY <1>1 DEF Seen
<1>4. FfInv'
  BY <1>1, <1>3 DEF FfInv, Run
<1>5. NoMagic(from + MagicOffset, start)'
  BY <1>1, Lengths DEF NoMagic
<1>6. EndFound' /\ NodeFound'
  BY <1>1 DEF EndFound, NodeFound
<1> QED BY <1>2, <1>4, <1>5, <1>6 DEF ScanIInv

\* A call returns.
LEMMA ReturnStep ==
  ASSUME ScanIInv, NEW r, Return(r), stale' \in BOOLEAN,
         op = "Ff" => EndFound', op = "Find" => NodeFound'
  PROVE  ScanIInv'
<1>1. /\ pc' = "Idle" /\ start' = from /\ addr' = from /\ buf' = Zeros /\ last' = "other"
      /\ mem' = mem /\ op' = op /\ from' = from /\ end' = end
  BY DEF Return
<1>2. ScanType'
  BY <1>1, Lengths DEF ScanIInv, ScanType, Zeros, Byte
<1>3. EndFound' /\ NodeFound'
  BY <1>1 DEF EndFound, NodeFound
<1> QED BY <1>1, <1>2, <1>3 DEF ScanIInv

----------------------------------------------------------------------------
(* continue_ff_addr *)

LEMMA FfPieceStep ==
  ASSUME ScanIInv, NEW ok \in BOOLEAN, FfPiece(ok)
  PROVE  ScanIInv'
<1> DEFINE n == PieceLen
           edges == Edges(buf', n, last)
<1>1. ScanType /\ FfInv /\ pc = "Ff" /\ start < end
  BY DEF ScanIInv, FfPiece
<1>2. /\ mem' = mem /\ pc' = pc /\ op' = op /\ from' = from /\ end' = end /\ result' = result
      /\ start' = start + Buf /\ (stale' <=> stale \/ ~ok)
      /\ buf' = [i \in 0 .. Buf-1 |-> IF ok /\ i < n THEN mem[start + i] ELSE buf[i]]
      /\ last' = buf'[n - 1]
      /\ addr' = IF edges = {} THEN addr ELSE start + Last(edges)
  BY DEF FfPiece
<1>3. /\ n \in 1 .. Buf /\ start + n <= Size /\ Seen = start /\ Seen' = start + n
      /\ n \in Nat /\ n - 1 \in Nat /\ start \in Nat
  BY <1>1, <1>2, Lengths DEF ScanType, PieceLen, Seen
<1>4. buf' \in [0 .. Buf-1 -> Byte]
  <2> SUFFICES ASSUME NEW i \in 0 .. Buf-1
               PROVE  (IF ok /\ i < n THEN mem[start + i] ELSE buf[i]) \in Byte
    BY <1>2
  <2>1. i < n => start + i \in 0 .. Size-1
    BY <1>3, Lengths
  <2> QED BY <1>1, <2>1 DEF ScanType
<1>5. edges \subseteq 0 .. n-1
  BY DEF Edges
<1>6. edges # {} => Last(edges) \in edges /\ \A y \in edges : y <= Last(edges)
  <2> HIDE DEF edges
  <2> QED BY <1>3, <1>5, LastExists
<1>7. addr' \in Nat /\ from <= addr' /\ addr' <= Seen'
  <2>1. CASE edges = {}
    BY <1>1, <1>2, <1>3, <2>1 DEF ScanType, FfInv
  <2>2. CASE edges # {}
    <3>1. Last(edges) \in 0 .. n-1
      BY <1>5, <1>6, <2>2
    <3> HIDE DEF edges, n
    <3> QED BY <1>1, <1>2, <1>3, <2>2, <3>1 DEF ScanType
  <2> QED BY <2>1, <2>2
<1>8. ScanType'
  <2>1. last' \in Byte
    <3>1. n - 1 \in 0 .. Buf-1
      BY <1>3, Lengths
    <3>2. last' = buf'[n - 1]
      BY <1>2
    <3> HIDE DEF n
    <3> QED BY <1>4, <3>1, <3>2
  <2>2. start' \in Nat /\ from <= start'
    BY <1>1, <1>2, Lengths DEF ScanType
  <2>3. stale' \in BOOLEAN
    BY <1>2
  <2> HIDE DEF n, edges
  <2>4. pc' = "Ff" /\ op' = "Ff"
    BY <1>1, <1>2 DEF ScanType
  <2>5. /\ mem' \in [0 .. Size-1 -> Byte] /\ from' \in Nat /\ end' \in Nat /\ from' <= end'
        /\ end' <= Size
    BY <1>1, <1>2 DEF ScanType
  <2> QED BY <1>2, <1>4, <1>7, <2>1, <2>2, <2>3, <2>4, <2>5 DEF ScanType
<1>9. ASSUME ~stale' PROVE last' = mem[Seen' - 1] /\ Run'
  <2>1. ok /\ ~stale
    BY <1>2, <1>9
  <2>2. \A i \in 0 .. n-1 : buf'[i] = mem[start + i]
    BY <1>2, <1>3, <2>1, Lengths
  <2>3. last' = mem[Seen' - 1]
    BY <1>2, <1>3, <2>2
  <2>4. /\ Seen = from => last = "other"
        /\ Seen > from => last = mem[start - 1]
        /\ Run
    BY <1>1, <1>3, <2>1 DEF FfInv
  <2>5. ASSUME last' = "erased" PROVE Erased(addr', start + n)
                                      /\ (addr' > from => mem[addr' - 1] # "erased")
    <3>1. buf'[n-1] = "erased"
      BY <1>2, <2>5
    <3>2. CASE edges = {}
      <4>1. \A i \in 1 .. n-1 : ~(buf'[i] = "erased" /\ buf'[i-1] # "erased")
        BY <3>2 DEF Edges
      <4>2. 0 \in 0 .. n-1 /\ 0 + 1 = 1
        BY <1>3
      <4>3. \A i \in 0 .. n-1 : buf'[i] = "erased"
        <5> HIDE DEF n, edges
        <5> QED BY <1>3, <3>1, <4>1, <4>2, RunOf
      <4>4. last = "erased"
        BY <3>2, <4>2, <4>3 DEF Edges
      <4>5. Erased(addr, start) /\ (addr > from => mem[addr - 1] # "erased")
        BY <1>3, <2>4, <4>4 DEF Run
      <4>6. Erased(addr, start + n)
        <5> HIDE DEF n, edges
        <5>1. addr \in Int /\ start \in Int /\ n \in Int
          BY <1>1, <1>3 DEF ScanType
        <5>2. ASSUME NEW q \in Int, addr <= q, q < start + n PROVE mem[q] = "erased"
          <6>1. CASE q < start
            BY <4>5, <5>1, <5>2, <6>1 DEF Erased
          <6>2. CASE q >= start
            <7>1. q - start \in 0 .. n-1 /\ start + (q - start) = q
              BY <5>1, <5>2, <6>2
            <7> QED BY <2>2, <4>3, <7>1
          <6> QED BY <5>1, <6>1, <6>2
        <5> QED BY <5>1, <5>2 DEF Erased
      <4>7. addr' = addr
        BY <1>2, <3>2
      <4> QED BY <4>5, <4>6, <4>7
    <3>3. CASE edges # {}
      <4> DEFINE k == Last(edges)
      <4>1. k \in 0 .. n-1 /\ buf'[k] = "erased" /\ (IF k = 0 THEN last ELSE buf'[k-1]) # "erased"
        BY <1>6, <3>3 DEF Edges
      <4>2. \A y \in edges : y <= k
        BY <1>6, <3>3
      <4>3. \A i \in k+1 .. n-1 : ~(buf'[i] = "erased" /\ buf'[i-1] # "erased")
        <5> SUFFICES ASSUME NEW i \in k+1 .. n-1, buf'[i] = "erased", buf'[i-1] # "erased"
                     PROVE  FALSE
          OBVIOUS
        <5>1. i \in 0 .. n-1 /\ i # 0 /\ ~(i <= k)
          BY <4>1
        <5>2. i \in edges
          BY <5>1 DEF Edges
        <5> QED BY <4>2, <5>1, <5>2
      <4>4. addr' = start + k
        BY <1>2, <3>3
      <4> HIDE DEF n, edges, k
      <4>5. \A i \in k .. n-1 : buf'[i] = "erased"
        BY <1>3, <3>1, <4>1, <4>3, RunOf
      <4>6. Erased(addr', start + n)
        <5>1. ASSUME NEW q \in Int, start + k <= q, q < start + n PROVE mem[q] = "erased"
          <6>1. q - start \in k .. n-1 /\ start + (q - start) = q /\ q - start \in 0 .. n-1
            BY <1>3, <4>1, <5>1
          <6> QED BY <2>2, <4>5, <6>1
        <5>2. start \in Int /\ k \in Int /\ n \in Int
          BY <1>3, <4>1
        <5>3. \A q \in start + k .. (start + n) - 1 : mem[q] = "erased"
          BY <5>1, <5>2
        <5>4. Erased(start + k, start + n)
          BY <5>3 DEF Erased
        <5> QED BY <4>4, <5>4
      <4>7. ASSUME addr' > from PROVE mem[addr' - 1] # "erased"
        <5>1. CASE k = 0
          <6>1. addr' = start /\ Seen > from /\ last # "erased"
            BY <1>3, <4>1, <4>4, <4>7, <5>1
          <6> QED BY <2>4, <6>1
        <5>2. CASE k # 0
          <6>1. k - 1 \in 0 .. n-1 /\ start + (k - 1) = addr' - 1 /\ buf'[k-1] # "erased"
            BY <1>3, <4>1, <4>4, <5>2
          <6> QED BY <2>2, <6>1
        <5> QED BY <5>1, <5>2
      <4> QED BY <4>6, <4>7
    <3> QED BY <3>2, <3>3
  <2>6. Run'
    BY <1>2, <1>3, <2>5 DEF Run, Erased
  <2> QED BY <2>3, <2>6
<1>10. FfInv'
  <2>1. Seen' > from
    BY <1>1, <1>3 DEF ScanType
  <2>2. Seen' \in Int /\ from \in Int
    BY <1>1, <1>3 DEF ScanType
  <2> HIDE DEF n, edges
  <2> QED BY <1>2, <1>7, <1>9, <2>1, <2>2 DEF FfInv
<1>11. EndFound' /\ NodeFound'
  BY <1>1, <1>2 DEF EndFound, NodeFound
<1> QED BY <1>1, <1>2, <1>8, <1>10, <1>11 DEF ScanIInv

LEMMA FfEndStep ==
  ASSUME ScanIInv, FfEnd
  PROVE  ScanIInv'
<1> DEFINE r == IF last = "erased" THEN addr ELSE end
<1>1. ScanType /\ FfInv /\ pc = "Ff" /\ op = "Ff" /\ start >= end /\ Return(r) /\ stale' = stale
  BY DEF ScanIInv, FfEnd, ScanType
<1>2. Seen = end
  BY <1>1 DEF ScanType, Seen
<1>3. result' = r /\ from' = from /\ end' = end /\ mem' = mem
  BY <1>1 DEF Return
<1>4. r \in from .. end
  BY <1>1, <1>2 DEF ScanType, FfInv
<1>5. ASSUME ~stale
      PROVE  Erased(r, end) /\ (r > from => mem[r - 1] # "erased")
  <2>1. CASE last = "erased"
    BY <1>1, <1>2, <1>5, <2>1 DEF FfInv, Run
  <2>2. CASE last # "erased"
    <3>1. Erased(end, end)
      BY <1>1 DEF ScanType, Erased
    <3>2. end > from => mem[end - 1] # "erased"
      BY <1>1, <1>2, <1>5, <2>2 DEF FfInv
    <3> QED BY <2>2, <3>1, <3>2
  <2> QED BY <2>1, <2>2
<1> HIDE DEF r
<1>6. EndFound'
  BY <1>1, <1>3, <1>4, <1>5 DEF EndFound, Erased
<1>7. stale' \in BOOLEAN
  BY <1>1 DEF ScanType
<1> QED BY <1>1, <1>6, <1>7, ReturnStep

----------------------------------------------------------------------------
(* find_next_kv_addr *)

\* What a search that has come to "start" knows when it gives up.
LEMMA NotFound ==
  ASSUME ScanIInv, pc = "Find", Return(FAILED_ADDR), start + Buf >= end \/ stale', stale' \in BOOLEAN
  PROVE  ScanIInv'
<1>1. ScanType /\ op = "Find" /\ NoMagic(from + MagicOffset, start)
  BY DEF ScanIInv, ScanType
<1>2. /\ result' = FAILED_ADDR /\ from' = from /\ end' = end /\ mem' = mem
  BY DEF Return
<1>3. ASSUME start + Buf >= end PROVE NoMagic(from + MagicOffset, end - Buf)
  BY <1>1, <1>3, Lengths DEF NoMagic, ScanType
<1>4. NodeFound'
  BY <1>2, <1>3 DEF NodeFound, NoMagic
<1> QED BY <1>1, <1>4, ReturnStep

LEMMA FindPieceStep ==
  ASSUME ScanIInv, FindPiece
  PROVE  ScanIInv'
<1>1. ScanType /\ op = "Find" /\ pc = "Find" /\ NoMagic(from + MagicOffset, start)
      /\ start + Buf < end /\ stale' = stale
  BY DEF ScanIInv, ScanType, FindPiece
<1>2. /\ from \in Nat /\ start \in Nat /\ end \in Nat /\ from <= start
  BY <1>1 DEF ScanType
<1>3. \A q \in Int : q \in Hits <=> /\ q >= start /\ q < start + Buf - Word
                                    /\ mem[q] = "magic" /\ q >= from + MagicOffset
  BY <1>1, <1>2, Lengths DEF Hits
<1>4. Hits \subseteq Nat
  BY <1>2, Lengths DEF Hits
<1>5. CASE Hits # {}
  <2>1. PICK h : h \in Hits /\ (\A y \in Hits : h <= y) /\ h = First(Hits)
    BY <1>4, <1>5, FirstExists
  <2>2. Return(h - MagicOffset)
    BY <1>5, <2>1 DEF FindPiece
  <2>3. /\ h \in Nat /\ h >= start /\ h < start + Buf - Word /\ mem[h] = "magic"
        /\ h >= from + MagicOffset
    BY <1>3, <1>4, <2>1
  <2>4. NoMagic(from + MagicOffset, h)
    <3> SUFFICES ASSUME NEW q \in from + MagicOffset .. h-1, mem[q] = "magic" PROVE FALSE
      BY DEF NoMagic
    <3>1. q \in Int /\ q >= from + MagicOffset /\ q < h
      BY <1>2, <2>3, Lengths
    <3>2. CASE q < start
      BY <1>1, <1>2, <3>1, <3>2, Lengths DEF NoMagic
    <3>3. CASE q >= start
      <4>1. q \in Hits
        BY <1>2, <1>3, <2>3, <3>1, <3>3, Lengths
      <4> QED BY <2>1, <2>3, <3>1, <4>1
    <3> QED BY <1>2, <3>1, <3>2, <3>3
  <2>5. /\ result' = h - MagicOffset /\ from' = from /\ end' = end /\ mem' = mem
    BY <2>2 DEF Return
  <2>6. (h - MagicOffset) + MagicOffset = h /\ h - MagicOffset >= from /\ h < end
    BY <1>1, <1>2, <2>3, Lengths
  <2>7. NodeFound'
    <3>1. result' >= from' /\ result' + MagicOffset = h /\ h < end'
      BY <2>5, <2>6
    <3>2. NoMagic(from + MagicOffset, result + MagicOffset)'
      BY <2>4, <2>5, <3>1 DEF NoMagic
    <3> QED BY <2>3, <2>5, <3>1, <3>2 DEF NodeFound
  <2>8. stale' \in BOOLEAN
    BY <1>1 DEF ScanType
  <2> QED BY <1>1, <2>2, <2>7, <2>8, ReturnStep
<1>6. CASE Hits = {}
  <2>1. /\ start' = start + Stride
        /\ UNCHANGED <<mem, pc, op, from, end, buf, last, addr, result>>
    <3>1. ~(Hits # {})
      BY <1>6
    <3> QED BY <3>1 DEF FindPiece
  <2>2. start' \in Nat /\ from <= start'
    BY <1>2, <2>1, Lengths DEF Stride
  <2>3. ScanType'
    BY <1>1, <2>1, <2>2 DEF ScanType
  <2>4. NoMagic(from + MagicOffset, start + Stride)
    <3>1. ASSUME NEW q \in Int, from + MagicOffset <= q, q < start + Stride, mem[q] = "magic"
          PROVE  FALSE
      <4>1. CASE q < start
        BY <1>1, <1>2, <3>1, <4>1, Lengths DEF NoMagic
      <4>2. CASE q >= start
        <5>1. q < start + Buf - Word
          BY <1>2, <3>1, Lengths DEF Stride
        <5> QED BY <1>3, <1>6, <3>1, <4>2, <5>1
      <4> QED BY <1>2, <3>1, <4>1, <4>2
    <3>2. from + MagicOffset \in Int /\ start + Stride \in Int
      BY <1>2, Lengths DEF Stride
    <3> QED BY <3>1, <3>2 DEF NoMagic
  <2>5. NoMagic(from + MagicOffset, start)'
    BY <2>1, <2>4 DEF NoMagic
  <2>6. EndFound' /\ NodeFound'
    BY <1>1, <2>1 DEF EndFound, NodeFound
  <2> QED BY <1>1, <2>1, <2>3, <2>5, <2>6 DEF ScanIInv
<1> QED BY <1>5, <1>6

LEMMA ScanStep ==
  ASSUME ScanIInv, [ScanNext]_scanVars
  PROVE  ScanIInv'
<1>1. CASE \E s, e \in 0 .. Size : /\ s <= e
                                   /\ Begin("Ff", s, e) \/ (MagicOffset <= s /\ Begin("Find", s, e))
  BY <1>1, BeginStep
<1>2. CASE FindError
  BY <1>2, NotFound DEF FindError
<1>3. CASE FindEnd
  <2>1. stale' \in BOOLEAN
    BY <1>3 DEF FindEnd, ScanIInv, ScanType
  <2> QED BY <1>3, <2>1, NotFound DEF FindEnd
<1>4. CASE UNCHANGED scanVars
  BY <1>4 DEF scanVars, ScanIInv, ScanType, FfInv, Run, Seen, Erased, NoMagic, EndFound, NodeFound
<1> QED BY <1>1, <1>2, <1>3, <1>4, FfPieceStep, FfEndStep, FindPieceStep DEF ScanNext

LEMMA ScanInv == ScanSpec => []ScanIInv
<1>1. ASSUME ScanInit PROVE ScanIInv
  <2>1. mem \in [0 .. Size-1 -> Byte] /\ Zeros \in [0 .. Buf-1 -> Byte] /\ "other" \in Byte
    BY <1>1 DEF ScanInit, Memory, Zeros, Byte
  <2>2. /\ from = 0 /\ start = 0 /\ end = 0 /\ addr = 0 /\ pc = "Idle" /\ op = "None"
        /\ buf = Zeros /\ last = "other" /\ stale \in BOOLEAN
    BY <1>1 DEF ScanInit
  <2>3. ScanType
    BY <2>1, <2>2, Lengths DEF ScanType
  <2> QED BY <2>2, <2>3 DEF ScanIInv, EndFound, NodeFound
<1> QED BY <1>1, ScanStep, PTL DEF ScanSpec

\* continue_ff_addr returns the first address from which all is erased up to the end,
\* however the bytes lie in the pieces of the buffer; after an error of a read it still
\* returns an address between the two it was given.
THEOREM EndOfDataFound == ScanSpec => []EndFound
<1>1. ScanIInv => EndFound
  BY DEF ScanIInv
<1> QED BY <1>1, ScanInv, PTL

\* find_next_kv_addr returns the first node behind its start whose magic word is more than
\* a buffer in front of the end, and returns nothing that is not one.
THEOREM NextNodeFound == ScanSpec => []NodeFound
<1>1. ScanIInv => NodeFound
  BY DEF ScanIInv
<1> QED BY <1>1, ScanInv, PTL
=============================================================================

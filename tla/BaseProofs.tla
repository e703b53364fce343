----------------------------- MODULE BaseProofs -----------------------------
(***************************************************************************)
(* Proofs about the threads of the base, for any allocations, number of    *)
(* mobiles, length of a frame and number of packets: gen_mutex keeps the   *)
(* generator alive and whole while a burst uses it, the reader queues no   *)
(* buffer twice, and the unlocked list keeps its packets unless a push_back*)
(* and the erasure of the very node it hangs its own on overlap.           *)
(***************************************************************************)
EXTENDS BaseThreads, SubsequenceProofs, TLAPS

-----------------------------------------------------------------------------
(* The generator.                                                          *)

TxLabels == {"idle", "lock", "load", "assemble", "write", "unlock", "log"}
RxLabels == {"idle", "log", "control", "lock", "destroy", "create", "unlock", "report"}

TxHolds == tx_pc \in {"load", "assemble", "write", "unlock"}
RxHolds == rx_pc \in {"destroy", "create", "unlock"}

\* gen_mutex is held by the thread whose control is between lock and unlock.
LockInv ==
  /\ tx_pc \in TxLabels
  /\ rx_pc \in RxLabels
  /\ gen_mutex \in {NoOwner, "tx", "rx"}
  /\ TxHolds <=> gen_mutex = "tx"
  /\ RxHolds <=> gen_mutex = "rx"

\* The object has its fields, and exists except between destroy and create.
ObjectInv ==
  /\ DOMAIN ofdma_fg_default = {"live", "alloc", "coded", "loaded", "assembled"}
  /\ rx_pc # "create" => ofdma_fg_default.live
  /\ TxUsesGen => gen_valid

\* How far the burst has filled the generator.
FillInv ==
  /\ users \in Int
  /\ tx_pc = "assemble" => ofdma_fg_default.loaded = Mobiles
  /\ tx_pc = "write" => ofdma_fg_default.loaded = Mobiles /\ ofdma_fg_default.assembled
  /\ symbols \in Int
  /\ tx_pc = "write" => symbols < Symbols

GenInv == LockInv /\ ObjectInv /\ FillInv

\* The constructor establishes the invariant.
LEMMA GenInitInv == GenInit => GenInv
<1> SUFFICES ASSUME GenInit PROVE GenInv
  OBVIOUS
<1>1. LockInv
  BY GeneratorAssumption DEF GenInit, LockInv, TxLabels, RxLabels, TxHolds, RxHolds
<1>2. ObjectInv
  BY DEF GenInit, ObjectInv, Created, TxUsesGen
<1>3. FillInv
  BY DEF GenInit, FillInv
<1> QED  BY <1>1, <1>2, <1>3 DEF GenInv

\* The transmitting thread's steps preserve the invariant.
LEMMA TxKeepsInv == ASSUME GenInv, TxNext PROVE GenInv'
<1> USE GeneratorAssumption DEF GenInv, TxLabels, RxLabels, TxHolds, RxHolds, TxUsesGen,
        txVars, rxVars
<1>1. LockInv'
  BY DEF LockInv, TxNext, TxStart, TxLock, TxLoad, TxAssemble, TxWriteSymbol, TxUnlock, TxEnd
<1>2. ObjectInv'
  BY DEF LockInv, ObjectInv, TxNext, TxStart, TxLock, TxLoad, TxAssemble, TxWriteSymbol,
         TxUnlock, TxEnd
<1>3. FillInv'
  <2>1. CASE TxStart \/ TxLock \/ TxUnlock \/ TxEnd
    BY <2>1 DEF FillInv, TxStart, TxLock, TxUnlock, TxEnd
  <2>2. CASE TxLoad
    BY <2>2 DEF FillInv, ObjectInv, TxLoad
  <2>3. CASE TxAssemble
    BY <2>3 DEF FillInv, ObjectInv, TxAssemble
  <2>4. CASE TxWriteSymbol
    <3>1. symbols' \in Int /\ (tx_pc' = "write" => symbols + 1 < Symbols)
      BY <2>4 DEF FillInv, TxWriteSymbol
    <3>2. /\ ofdma_fg_default'.loaded = ofdma_fg_default.loaded
          /\ ofdma_fg_default'.assembled = (symbols + 1 < Symbols)
      BY <2>4, Zenon DEF ObjectInv, TxWriteSymbol
    <3>3. tx_pc' = "write" => ofdma_fg_default'.loaded = Mobiles /\ ofdma_fg_default'.assembled
      BY <2>4, <3>1, <3>2, Zenon DEF FillInv, TxWriteSymbol
    <3>4. users' \in Int /\ tx_pc' # "assemble" /\ (tx_pc' = "write" => symbols' < Symbols)
      BY <2>4, <3>1 DEF FillInv, TxWriteSymbol
    <3> QED  BY <3>1, <3>3, <3>4, Zenon DEF FillInv
  <2> QED  BY <2>1, <2>2, <2>3, <2>4 DEF TxNext
<1> QED  BY <1>1, <1>2, <1>3

\* The receive thread's steps preserve the invariant: it destroys and replaces
\* the object only while no burst is under way.
LEMMA RxKeepsInv == ASSUME GenInv, RxNext PROVE GenInv'
<1> USE GeneratorAssumption DEF GenInv, TxLabels, RxLabels, TxHolds, RxHolds, TxUsesGen,
        txVars, rxVars
<1>1. LockInv'
  BY DEF LockInv, RxNext, RxRecreate, RxData, RxEnd, RxControl, RxSwitch, RxNewAlloc, RxLock,
         RxDestroy, RxCreate, RxUnlock, RxReport
<1>2. ObjectInv'
  BY DEF LockInv, ObjectInv, Created, RxNext, RxRecreate, RxData, RxEnd, RxControl, RxSwitch,
         RxNewAlloc, RxLock, RxDestroy, RxCreate, RxUnlock, RxReport
<1>3. FillInv'
  BY DEF LockInv, FillInv, RxNext, RxRecreate, RxData, RxEnd, RxControl, RxSwitch,
         RxNewAlloc, RxLock, RxDestroy, RxCreate, RxUnlock, RxReport
<1> QED  BY <1>1, <1>2, <1>3

\* A step of the base is a step of the generator's threads or leaves it alone.
LEMMA BaseStepIsGenStep == BaseNext => GenNext \/ UNCHANGED genVars
  BY DEF BaseNext, Burst, BurstLoad, BurstLock, Reader, Frame, Callback, CallbackLock, GenNext,
         TxNext, RxNext, RxRecreate

\* The invariant holds in the composition.
LEMMA GenInvariant == BaseSpec => []GenInv
<1>1. BaseInit => GenInv
  BY GenInitInv DEF BaseInit
<1>2. ASSUME GenInv, [BaseNext]_baseVars PROVE GenInv'
  <2>1. CASE GenNext
    BY <1>2, <2>1, TxKeepsInv, RxKeepsInv DEF GenNext
  <2>2. CASE UNCHANGED genVars
    BY <1>2, <2>2 DEF GenInv, LockInv, ObjectInv, FillInv, TxHolds, RxHolds, TxUsesGen, genVars
  <2>3. UNCHANGED baseVars => UNCHANGED genVars
    BY DEF baseVars
  <2> QED  BY <1>2, <2>1, <2>2, <2>3, BaseStepIsGenStep
<1> QED  BY <1>1, <1>2, PTL DEF BaseSpec

\* A burst of the base never touches a destroyed or replaced generator, and the
\* receive thread's unlocked reads of its maps meet a live one.
THEOREM GeneratorSafe == BaseSpec => []GeneratorOutlivesUse
<1>1. GenInv => GeneratorOutlivesUse
  BY DEF GenInv, LockInv, ObjectInv, GeneratorOutlivesUse, TxHolds, RxHolds, TxUsesGen
<1> QED  BY <1>1, GenInvariant, PTL

\* Every symbol on the air is from a frame with the data of all mobiles.
THEOREM FramesCorrect == BaseSpec => []FramesAreWhole
<1>1. GenInv => FramesAreWhole
  BY DEF GenInv, FillInv, FramesAreWhole
<1> QED  BY <1>1, GenInvariant, PTL

-----------------------------------------------------------------------------
(* The reader.                                                             *)

Entry == [pkt : Nat, dest : Dests \cup {0}]

\* Packets are queued in the order in which the tap delivered them.
ReadInv ==
  /\ reads \in Nat
  /\ data \in Entry
  /\ pushed \in Seq(Entry)
  /\ \A i \in 1 .. Len(pushed) : pushed[i].pkt <= reads
  /\ \A i, j \in 1 .. Len(pushed) : i < j => pushed[i].pkt < pushed[j].pkt

LEMMA EntryHasNumber == ASSUME NEW e \in Entry PROVE e.pkt \in Nat
  BY DEF Entry

\* Of the outcomes of a read only a packet passes the test of its length.
LEMMA OnlyPacketsPass ==
  ASSUME NEW outcome \in Outcomes, Acceptable(Total(outcome)) PROVE outcome = "packet"
<1>1. outcome \in {"timeout", "error", "packet"}
  BY DEF Outcomes
<1>2. Total("timeout") = 0 /\ Total("error") = 65535
  BY DEF Total, FailedRead
<1> QED  BY <1>1, <1>2 DEF Acceptable, MaxSize

\* Appending a number above all others keeps a sequence of entries in order.
LEMMA AppendKeepsOrder ==
  ASSUME NEW s \in Seq(Entry), NEW e \in Entry, NEW r \in Nat, e.pkt = r + 1,
         \A i \in 1 .. Len(s) : s[i].pkt <= r,
         \A i, j \in 1 .. Len(s) : i < j => s[i].pkt < s[j].pkt
  PROVE  LET t == Append(s, e)
         IN  /\ \A i \in 1 .. Len(t) : t[i].pkt <= r + 1
             /\ \A i, j \in 1 .. Len(t) : i < j => t[i].pkt < t[j].pkt
<1> DEFINE t == Append(s, e)
<1>1. /\ Len(t) = Len(s) + 1 /\ Len(s) \in Nat
      /\ t[Len(s) + 1] = e
      /\ \A i \in 1 .. Len(s) : t[i] = s[i]
  OBVIOUS
<1>2. \A i \in 1 .. Len(s) : s[i].pkt \in Nat
  BY EntryHasNumber
<1> HIDE DEF t
<1>3. ASSUME NEW i \in 1 .. Len(t) PROVE t[i].pkt <= r + 1
  <2>1. CASE i = Len(s) + 1
    BY <1>1, <2>1
  <2>2. CASE i \in 1 .. Len(s)
    <3>1. s[i].pkt \in Nat /\ s[i].pkt <= r /\ t[i] = s[i]
      BY <1>1, <1>2, <2>2
    <3> QED  BY <3>1
  <2> QED  BY <1>1, <2>1, <2>2
<1>4. ASSUME NEW i \in 1 .. Len(t), NEW j \in 1 .. Len(t), i < j PROVE t[i].pkt < t[j].pkt
  <2>1. i \in 1 .. Len(s)
    BY <1>1, <1>4
  <2>2. CASE j = Len(s) + 1
    <3>1. s[i].pkt \in Nat /\ s[i].pkt <= r /\ t[i] = s[i] /\ t[j].pkt = r + 1
      BY <1>1, <1>2, <2>1, <2>2
    <3> QED  BY <3>1
  <2>3. CASE j \in 1 .. Len(s)
    BY <1>1, <1>4, <2>1, <2>3
  <2> QED  BY <1>1, <2>2, <2>3
<1> QED  BY <1>3, <1>4 DEF t

\* A read keeps the order.
LEMMA ReadKeepsInv ==
  ASSUME ReadInv, NEW outcome \in Outcomes, NEW dest \in Dests, ReadTap(outcome, dest)
  PROVE  ReadInv'
<1>1. CASE outcome = "packet"
  <2>1. reads' = reads + 1 /\ data' = [pkt |-> reads + 1, dest |-> dest]
    BY <1>1 DEF ReadTap
  <2>2. reads' \in Nat /\ data' \in Entry /\ data'.pkt = reads + 1
    BY <2>1 DEF ReadInv, Entry
  <2>3. CASE pushed' = pushed
    <3>1. \A i \in 1 .. Len(pushed) : pushed[i] \in Entry
      BY DEF ReadInv
    <3>2. \A i \in 1 .. Len(pushed) : pushed[i].pkt \in Nat
      BY <3>1, EntryHasNumber
    <3> QED  BY <2>1, <2>2, <2>3, <3>2 DEF ReadInv
  <2>4. CASE pushed' = Append(pushed, data')
    <3>1. pushed' \in Seq(Entry)
      BY <2>2, <2>4 DEF ReadInv
    <3>2. /\ \A i \in 1 .. Len(pushed') : pushed'[i].pkt <= reads + 1
          /\ \A i, j \in 1 .. Len(pushed') : i < j => pushed'[i].pkt < pushed'[j].pkt
      BY <2>2, <2>4, AppendKeepsOrder DEF ReadInv
    <3> QED  BY <2>1, <2>2, <3>1, <3>2 DEF ReadInv
  <2> QED  BY <2>3, <2>4 DEF ReadTap
<1>2. CASE outcome # "packet"
  <2>1. ~Acceptable(Total(outcome))
    BY <1>2, OnlyPacketsPass
  <2>2. UNCHANGED <<reads, data, pushed>>
    BY <1>2, <2>1 DEF ReadTap
  <2> QED  BY <2>2 DEF ReadInv
<1> QED  BY <1>1, <1>2

\* The order holds in the composition.
LEMMA ReadInvariant == BaseSpec => []ReadInv
<1>1. BaseInit => ReadInv
  BY DEF BaseInit, ListInit, ReadInv, Entry
<1>2. ASSUME ReadInv, [BaseNext]_baseVars PROVE ReadInv'
  <2>1. ASSUME NEW outcome \in Outcomes, NEW dest \in Dests, ReadTap(outcome, dest)
        PROVE  ReadInv'
    BY <1>2, <2>1, ReadKeepsInv
  <2>2. CASE UNCHANGED <<reads, pushed, data>>
    BY <1>2, <2>2 DEF ReadInv
  <2>3. UNCHANGED baseVars \/ UNCHANGED listVars => UNCHANGED <<reads, pushed, data>>
    BY DEF baseVars, listVars
  <2>4. PushLink \/ PushHook \/ PushClose => UNCHANGED <<reads, pushed, data>>
    BY DEF PushLink, PushHook, PushClose
  <2>5. BurstFind \/ TakeUnhook \/ TakeFree \/ BurstLoad => UNCHANGED <<reads, pushed, data>>
    BY DEF BurstFind, TakeFind, TakeUnhook, TakeFree, BurstLoad, TakeReturn
  <2> QED  BY <1>2, <2>1, <2>2, <2>3, <2>4, <2>5
           DEF BaseNext, Burst, BurstLock, Reader, Frame, Callback, CallbackLock
<1> QED  BY <1>1, <1>2, PTL DEF BaseSpec

\* No buffer is queued twice: neither a time-out nor a failed read, whose -1 is a
\* length of 65535 to readPackets, queues what the buffer still holds.
THEOREM NoStaleCorrect == BaseSpec => []NoStaleBuffer
<1>1. ReadInv => NoStaleBuffer
  <2> SUFFICES ASSUME ReadInv, NEW i \in DOMAIN pushed, NEW j \in DOMAIN pushed, i # j
               PROVE  pushed[i].pkt # pushed[j].pkt
    BY DEF NoStaleBuffer
  <2>1. /\ pushed \in Seq(Entry)
        /\ \A a, b \in 1 .. Len(pushed) : a < b => pushed[a].pkt < pushed[b].pkt
    BY DEF ReadInv
  <2>2. i \in 1 .. Len(pushed) /\ j \in 1 .. Len(pushed) /\ pushed[i] \in Entry /\ pushed[j] \in Entry
    BY <2>1
  <2>3. pushed[i].pkt \in Nat /\ pushed[j].pkt \in Nat
    BY <2>2, EntryHasNumber
  <2>4. i < j \/ j < i
    BY <2>2
  <2> QED  BY <2>1, <2>2, <2>3, <2>4
<1> QED  BY <1>1, ReadInvariant, PTL

-----------------------------------------------------------------------------
(* The list's links.                                                       *)

\* y is where a walk over S goes on from x: the next greater member, or End.
Follows(S, x, y) ==
  \/ y \in S /\ x < y /\ \A z \in S : x < z => y <= z
  \/ y = End /\ \A z \in S : z <= x

\* y is where a walk back over S goes on from x.
Precedes(S, x, y) ==
  \/ y \in S /\ y < x /\ \A z \in S : z < x => z <= y
  \/ y = End /\ \A z \in S : x <= z

\* y is where a walk back over S begins.
Ends(S, y) ==
  \/ y \in S /\ \A z \in S : z <= y
  \/ y = End /\ S = {}

\* The nodes whose links back are to be right: an erased node's are until it is
\* freed.
Backed == (1 .. Hooked) \ erased

ListType ==
  /\ reader.pc \in {"read", "link", "hook", "close"}
  /\ DOMAIN reader = {"pc", "node", "tail"}
  /\ take.pc \in {"idle", "unhook", "free", "done"}
  /\ DOMAIN take = {"pc", "node", "next", "prev"}
  /\ Len(pushed) <= MaxReads + 1
  /\ reader.pc # "read" => reader.node = Len(pushed) /\ Len(pushed) > 0
  /\ DOMAIN next = Nodes
  /\ DOMAIN prev = Nodes
  /\ erased \subseteq 1 .. Hooked
  /\ reader.pc = "close" => reader.node \notin erased

\* The links forward and back.
Forward == \A x \in Listed \cup {End} : Follows(Listed, x, next[x])
Backward ==
  /\ \A x \in Backed : Precedes(Backed, x, prev[x])
  /\ reader.pc # "close" => Ends(Backed, prev[End])

\* What push_back has loaded and stored, and no erase takes the node it is
\* about to hang its own on.
Pushing ==
  reader.pc = "hook" =>
    /\ reader.tail = prev[End]
    /\ next[reader.node] = End
    /\ prev[reader.node] = reader.tail
    /\ take.pc \in {"unhook", "free"} => take.node # reader.tail

\* What erase has loaded is still so.
Erasing ==
  take.pc \in {"unhook", "free"} =>
    /\ take.node \in Backed
    /\ Precedes(Backed, take.node, take.prev)
    /\ Follows(Listed, take.node, take.next)

Links == ListType /\ Forward /\ Backward /\ Pushing /\ Erasing

ListInv == collided \in BOOLEAN /\ (~collided => Links)

\* Where walks go on is a node of the set or the sentinel.
LEMMA PlacesType ==
  ASSUME NEW S \in SUBSET (Nat \ {0}), NEW x \in Nat, NEW y
  PROVE  /\ Ends(S, y) => y \in S \cup {End} /\ y \in Nat
         /\ Follows(S, x, y) => y \in S \cup {End} /\ y \in Nat
         /\ Precedes(S, x, y) => y \in S \cup {End} /\ y \in Nat
<1>1. S \subseteq Nat /\ End \in Nat
  BY DEF End
<1>2. y \in S \cup {End} => y \in Nat
  BY <1>1
<1>3. /\ Ends(S, y) => y \in S \cup {End}
      /\ Follows(S, x, y) => y \in S \cup {End}
      /\ Precedes(S, x, y) => y \in S \cup {End}
  BY DEF Ends, Follows, Precedes
<1> QED
  BY <1>2, <1>3

\* push_back's stores to the links forward and back.
LEMMA HookForward ==
  ASSUME NEW S \in SUBSET (Nat \ {0}), NEW n \in Nat \ {0}, \A x \in S : x < n,
         NEW t, Ends(S, t), NEW f, S \cup {End, n} \subseteq DOMAIN f,
         \A x \in S \cup {End} : Follows(S, x, f[x]), f[n] = End
  PROVE  \A x \in S \cup {n, End} : Follows(S \cup {n}, x, [f EXCEPT ![t] = n][x])
<1> DEFINE g == [f EXCEPT ![t] = n]
<1>1. t \in S \cup {End} /\ t \in Nat
  BY PlacesType
<1>2. g[t] = n /\ \A x \in DOMAIN f : x # t => g[x] = f[x]
  BY <1>1
<1> HIDE DEF g
<1>3. Follows(S \cup {n}, n, g[n])
  BY <1>1, <1>2 DEF Follows, End
<1>4. Follows(S \cup {n}, t, g[t])
  BY <1>1, <1>2 DEF Follows, Ends, End
<1>5. ASSUME NEW x \in S \cup {End}, x # t PROVE Follows(S \cup {n}, x, g[x])
  <2>1. x \in Nat /\ x < t /\ t \in S
    BY <1>1, <1>5 DEF Ends, End
  <2>2. g[x] = f[x] /\ Follows(S, x, f[x])
    BY <1>2, <1>5
  <2>3. ASSUME NEW y, Follows(S, x, y) PROVE Follows(S \cup {n}, x, y)
    <3>1. y \in S /\ x < y /\ \A z \in S : x < z => y <= z
      BY <2>1, <2>3 DEF Follows
    <3>2. y < n /\ y \in Nat
      BY <3>1
    <3> QED
      BY <3>1, <3>2 DEF Follows
  <2> QED
    BY <2>2, <2>3
<1> QED
  BY <1>3, <1>4, <1>5 DEF g

LEMMA HookBackward ==
  ASSUME NEW S \in SUBSET (Nat \ {0}), NEW n \in Nat \ {0}, \A x \in S : x < n,
         NEW g, \A x \in S : Precedes(S, x, g[x]), Ends(S, g[n])
  PROVE  \A x \in S \cup {n} : Precedes(S \cup {n}, x, g[x])
<1>1. Precedes(S \cup {n}, n, g[n])
  <2>1. ASSUME NEW y, Ends(S, y) PROVE Precedes(S \cup {n}, n, y)
    <3>1. y \in Nat
      BY <2>1, PlacesType
    <3> QED
      BY <2>1, <3>1 DEF Precedes, Ends
  <2> QED
    BY <2>1
<1>2. ASSUME NEW x \in S PROVE Precedes(S \cup {n}, x, g[x])
  <2>1. Precedes(S, x, g[x])
    OBVIOUS
  <2> QED
    BY <2>1 DEF Precedes, End
<1> QED
  BY <1>1, <1>2

\* erase's store to the predecessor's link ...
LEMMA UnhookForward ==
  ASSUME NEW S \in SUBSET (Nat \ {0}), NEW m \in S, NEW p, Precedes(S, m, p),
         NEW q, Follows(S, m, q), NEW f, S \cup {End} \subseteq DOMAIN f,
         \A x \in S \cup {End} : Follows(S, x, f[x])
  PROVE  /\ \A x \in (S \ {m}) \cup {End} : Follows(S \ {m}, x, [f EXCEPT ![p] = q][x])
         /\ Follows(S \ {m}, m, q)
<1> DEFINE g == [f EXCEPT ![p] = q]
           T == S \ {m}
<1>1. p \in S \cup {End} /\ p \in Nat /\ m \in Nat /\ m > 0
  BY PlacesType
<1>2. g[p] = q /\ \A x \in DOMAIN f : x # p => g[x] = f[x]
  BY <1>1
<1>3. q \in Nat
  BY <1>1, PlacesType
<1> HIDE DEF g
<1>4. Follows(T, m, q)
  BY <1>1, <1>3 DEF Follows, End
<1>5. Follows(T, p, g[p])
  <2>1. p < m /\ \A z \in T : p < z => m < z
    BY <1>1 DEF Precedes, End
  <2> QED
    BY <1>1, <1>2, <1>3, <1>4, <2>1 DEF Follows, End
<1>6. ASSUME NEW x \in T \cup {End}, x # p PROVE Follows(T, x, g[x])
  <2>1. x \in Nat /\ x # m
    BY <1>1, <1>6 DEF End
  <2>2. g[x] = f[x] /\ Follows(S, x, f[x])
    BY <1>2, <1>6
  <2>3. f[x] # m
    <3> SUFFICES ASSUME f[x] = m PROVE FALSE
      OBVIOUS
    <3>1. x < m /\ \A z \in S : x < z => m <= z
      BY <1>1, <2>2 DEF Follows, End
    <3> QED
      BY <1>1, <1>6, <2>1, <3>1 DEF Precedes, End
  <2> QED
    BY <1>1, <2>1, <2>2, <2>3 DEF Follows, End
<1> QED
  BY <1>4, <1>5, <1>6 DEF g

\* ... and to the successor's.
LEMMA FreeBackward ==
  ASSUME NEW S \in SUBSET (Nat \ {0}), NEW m \in S, NEW p, Precedes(S, m, p),
         NEW q, Follows(S \ {m}, m, q), NEW f, S \cup {End} \subseteq DOMAIN f,
         \A x \in S : Precedes(S, x, f[x])
  PROVE  /\ \A x \in S \ {m} : Precedes(S \ {m}, x, [f EXCEPT ![q] = p][x])
         /\ Ends(S, f[End]) => Ends(S \ {m}, [f EXCEPT ![q] = p][End])
<1> DEFINE g == [f EXCEPT ![q] = p]
           T == S \ {m}
<1>1. p \in Nat /\ m \in Nat /\ m > 0
  BY PlacesType
<1>2. q \in T \cup {End} /\ q \in Nat
  <2>1. T \in SUBSET (Nat \ {0})
    OBVIOUS
  <2> QED
    BY <1>1, <2>1, PlacesType
<1>3. g[q] = p /\ \A x \in DOMAIN f : x # q => g[x] = f[x]
  BY <1>2
<1>4. p \in T \cup {End}
  BY <1>1 DEF Precedes, End
<1> HIDE DEF g
<1>5. ASSUME NEW x \in T, x = q PROVE Precedes(T, x, g[x])
  <2>1. m < x /\ \A z \in T : z < x => z < m
    BY <1>1, <1>2, <1>5 DEF Follows, End
  <2> QED
    BY <1>1, <1>3, <1>4, <1>5, <2>1 DEF Precedes, End
<1>6. ASSUME NEW x \in T, x # q PROVE Precedes(T, x, g[x])
  <2>1. g[x] = f[x] /\ Precedes(S, x, f[x]) /\ x \in Nat
    BY <1>3, <1>6
  <2>2. f[x] # m
    <3> SUFFICES ASSUME f[x] = m PROVE FALSE
      OBVIOUS
    <3>1. m < x /\ \A z \in S : z < x => z <= m
      BY <1>1, <2>1 DEF Precedes, End
    <3> QED
      BY <1>1, <1>2, <1>6, <2>1, <3>1 DEF Follows, End
  <2> QED
    BY <1>1, <2>1, <2>2 DEF Precedes, End
<1>7. ASSUME Ends(S, f[End]) PROVE Ends(T, g[End])
  <2>1. CASE q = End
    <3>1. g[End] = p /\ \A z \in T : z < m
      BY <1>1, <1>2, <1>3, <2>1 DEF Follows, End
    <3> QED
      BY <1>1, <1>4, <3>1 DEF Precedes, Ends, End
  <2>2. CASE q # End
    <3>1. g[End] = f[End] /\ q \in T /\ m < q
      BY <1>2, <1>3, <2>2 DEF Follows
    <3> QED
      BY <1>1, <1>2, <1>7, <3>1 DEF Ends, End
  <2> QED
    BY <2>1, <2>2
<1> QED
  BY <1>5, <1>6, <1>7 DEF g

-----------------------------------------------------------------------------
(* Walks.                                                                  *)

\* f is the walk's first n steps.
Path(n, f) == f = [k \in 0 .. n |-> IF k = 0 THEN next[End] ELSE next[f[k - 1]]]

LEMMA PathAt ==
  ASSUME NEW n \in Nat, NEW f, Path(n, f)
  PROVE  f[0] = next[End] /\ \A k \in 1 .. n : f[k] = next[f[k - 1]]
<1>1. f = [k \in 0 .. n |-> IF k = 0 THEN next[End] ELSE next[f[k - 1]]]
  BY DEF Path
<1>2. \A k \in 0 .. n : f[k] = IF k = 0 THEN next[End] ELSE next[f[k - 1]]
  BY <1>1
<1>3. 0 \in 0 .. n /\ \A k \in 1 .. n : k \in 0 .. n /\ k # 0
  OBVIOUS
<1> QED
  BY <1>2, <1>3

LEMMA PathExists == \A n \in Nat : \E f : Path(n, f)
<1> DEFINE S == {n \in Nat : \E f : Path(n, f)}
<1>1. 0 \in S
  <2> DEFINE f == [k \in 0 .. 0 |-> next[End]]
  <2>1. Path(0, f)
    BY DEF Path
  <2> QED
    BY <2>1
<1>2. ASSUME NEW n \in S PROVE n + 1 \in S
  <2>1. n \in Nat /\ n + 1 \in Nat
    OBVIOUS
  <2>2. PICK f : Path(n, f)
    OBVIOUS
  <2> DEFINE g == [k \in 0 .. n + 1 |-> IF k = n + 1 THEN next[f[n]] ELSE f[k]]
  <2>3. \A k \in 0 .. n + 1 : g[k] = IF k = 0 THEN next[End] ELSE next[g[k - 1]]
    <3> SUFFICES ASSUME NEW k \in 0 .. n + 1
                 PROVE  g[k] = IF k = 0 THEN next[End] ELSE next[g[k - 1]]
      OBVIOUS
    <3>1. CASE k = n + 1
      <4>1. n \in 0 .. n + 1 /\ n # n + 1 /\ k - 1 = n /\ k # 0
        BY <2>1, <3>1
      <4>2. g[k] = next[f[n]] /\ g[n] = f[n]
        BY <3>1, <4>1
      <4> QED
        BY <4>1, <4>2
    <3>2. CASE k = 0
      <4>1. 0 # n + 1 /\ 0 \in 0 .. n + 1
        BY <2>1
      <4>2. g[0] = f[0]
        BY <4>1
      <4> QED
        BY <2>1, <2>2, <3>2, <4>2, PathAt
    <3>3. CASE k \in 1 .. n
      <4>1. k # n + 1 /\ k # 0 /\ k - 1 \in 0 .. n + 1 /\ k - 1 # n + 1
        BY <2>1, <3>3
      <4>2. g[k] = f[k] /\ g[k - 1] = f[k - 1]
        BY <4>1
      <4>3. f[k] = next[f[k - 1]]
        BY <2>1, <2>2, <3>3, PathAt
      <4> QED
        BY <4>1, <4>2, <4>3
    <3>4. k = n + 1 \/ k = 0 \/ k \in 1 .. n
      BY <2>1
    <3> QED
      BY <3>1, <3>2, <3>3, <3>4
  <2>4. g = [k \in 0 .. n + 1 |-> g[k]]
    OBVIOUS
  <2> HIDE DEF g
  <2>5. g = [k \in 0 .. n + 1 |-> IF k = 0 THEN next[End] ELSE next[g[k - 1]]]
    BY <2>3, <2>4
  <2>6. Path(n + 1, g)
    BY <2>5 DEF Path
  <2> QED
    BY <2>1, <2>6
<1>3. S = Nat
  <2> HIDE DEF S
  <2>1. S \subseteq Nat
    BY DEF S
  <2> QED
    BY <1>1, <1>2, <2>1, Induct
<1> QED
  BY <1>3

LEMMA PathUnique ==
  ASSUME NEW m \in Nat, NEW n \in Nat, NEW f, NEW g, Path(m, f), Path(n, g)
  PROVE  \A k \in Nat : k <= m /\ k <= n => f[k] = g[k]
<1> DEFINE S == {k \in Nat : k <= m /\ k <= n => f[k] = g[k]}
<1>1. 0 \in S
  BY PathAt
<1>2. ASSUME NEW k \in S PROVE k + 1 \in S
  <2> SUFFICES ASSUME k + 1 <= m, k + 1 <= n PROVE f[k + 1] = g[k + 1]
    OBVIOUS
  <2>1. k + 1 \in 1 .. m /\ k + 1 \in 1 .. n /\ (k + 1) - 1 = k /\ k <= m /\ k <= n
    OBVIOUS
  <2>2. f[k + 1] = next[f[k]] /\ g[k + 1] = next[g[k]]
    BY <2>1, PathAt
  <2>3. f[k] = g[k]
    BY <2>1
  <2> QED
    BY <2>2, <2>3
<1>3. S = Nat
  <2> HIDE DEF S
  <2>1. S \subseteq Nat
    BY DEF S
  <2> QED
    BY <1>1, <1>2, <2>1, Induct
<1> QED
  BY <1>3

\* The recursion defines the steps.
LEMMA ReachedAt == /\ Reached[0] = next[End]
                   /\ \A k \in Nat : Reached[k + 1] = next[Reached[k]]
<1> DEFINE path(n) == CHOOSE f : Path(n, f)
           F == [n \in Nat |-> path(n)[n]]
<1>1. \A n \in Nat : Path(n, path(n))
  BY PathExists
<1> HIDE DEF path
<1>2. ASSUME NEW n \in Nat PROVE F[n] = IF n = 0 THEN next[End] ELSE next[F[n - 1]]
  <2>1. CASE n = 0
    <3>1. path(0)[0] = next[End]
      BY <1>1, PathAt
    <3> QED
      BY <2>1, <3>1
  <2>2. CASE n # 0
    <3>1. n - 1 \in Nat /\ n \in 1 .. n /\ n - 1 <= n - 1 /\ n - 1 <= n
      BY <2>2
    <3>2. path(n)[n] = next[path(n)[n - 1]]
      BY <1>1, <3>1, PathAt
    <3>3. path(n)[n - 1] = path(n - 1)[n - 1]
      BY <1>1, <3>1, PathUnique
    <3>4. F[n] = path(n)[n] /\ F[n - 1] = path(n - 1)[n - 1]
      BY <3>1
    <3> QED
      BY <2>2, <3>2, <3>3, <3>4
  <2> QED
    BY <2>1, <2>2
<1>3. F = [n \in Nat |-> F[n]]
  OBVIOUS
<1> HIDE DEF F
<1>4. F = [k \in Nat |-> IF k = 0 THEN next[End] ELSE next[F[k - 1]]]
  BY <1>2, <1>3
<1>5. Reached = [k \in Nat |-> IF k = 0 THEN next[End] ELSE next[Reached[k - 1]]]
  BY <1>4 DEF Reached
<1>6. \A k \in Nat : Reached[k] = IF k = 0 THEN next[End] ELSE next[Reached[k - 1]]
  BY <1>5
<1>7. \A k \in Nat : k + 1 \in Nat /\ k + 1 # 0 /\ (k + 1) - 1 = k
  OBVIOUS
<1> QED
  BY <1>6, <1>7

LEMMA ListedFacts ==
  ASSUME ReadInv, ListType
  PROVE  /\ Len(pushed) \in Nat /\ Hooked \in 0 .. MaxReads + 1
         /\ Listed \in SUBSET (Nat \ {0}) /\ Listed \subseteq 1 .. Hooked
         /\ Backed \in SUBSET (Nat \ {0}) /\ Backed \subseteq 1 .. Hooked
         /\ Listed \cup {End} \subseteq Nodes /\ Backed \cup {End} \subseteq Nodes
         /\ IsFiniteSet(Listed)
<1>1. Len(pushed) \in Nat
  BY DEF ReadInv
<1>2. Hooked \in 0 .. MaxReads + 1
  BY <1>1, ListAssumption DEF ListType, Hooked
<1>3. 1 .. Hooked \subseteq Nat \ {0} /\ (1 .. Hooked) \cup {End} \subseteq Nodes
  BY <1>2, ListAssumption DEF Nodes, End
<1>4. Listed \subseteq 1 .. Hooked /\ Backed \subseteq 1 .. Hooked
  BY DEF Listed, Backed
<1>5. IsFiniteSet(1 .. Hooked)
  BY <1>2, FS_Interval
<1> HIDE DEF Listed, Backed
<1>6. IsFiniteSet(Listed)
  BY <1>4, <1>5, FS_Subset
<1> QED
  BY <1>1, <1>2, <1>3, <1>4, <1>6

\* Where a walk over the members of a set in ascending order goes on.
LEMMA AscendingFollows ==
  ASSUME NEW S \in SUBSET (Nat \ {0}), IsFiniteSet(S)
  PROVE  /\ Cardinality(S) \in Nat
         /\ \A y : Follows(S, End, y) =>
              y = IF Cardinality(S) = 0 THEN End ELSE Ascending(S)[1]
         /\ \A k \in 1 .. Cardinality(S) : \A y : Follows(S, Ascending(S)[k], y) =>
              y = IF k = Cardinality(S) THEN End ELSE Ascending(S)[k + 1]
<1> DEFINE C == Cardinality(S)
           a == Ascending(S)
<1>1. C \in Nat /\ S \subseteq Nat
  BY FS_CardinalityType
<1>2. \A k \in 1 .. C : a[k] \in S /\ a[k] \in Nat /\ a[k] > 0
  <2>1. \A k \in 1 .. C : a[k] \in S
    BY <1>1, AscendingRank
  <2>2. \A x \in S : x \in Nat /\ x > 0
    OBVIOUS
  <2> HIDE DEF a, C
  <2> QED
    BY <2>1, <2>2
<1>3. \A j, k \in 1 .. C : j < k => a[j] < a[k]
  BY <1>1, AscendingGrows
<1>4. \A x \in S : \E k \in 1 .. C : a[k] = x
  BY <1>1, AscendingOnto
<1>5. C = 0 => S = {}
  BY <1>1, <1>4
<1> HIDE DEF a, C
<1>6. ASSUME NEW y, Follows(S, End, y) PROVE y = IF C = 0 THEN End ELSE a[1]
  <2>1. CASE C = 0
    BY <1>5, <1>6, <2>1 DEF Follows
  <2>2. CASE C # 0
    <3>1. 1 \in 1 .. C
      BY <1>1, <2>2
    <3>2. a[1] \in S /\ a[1] \in Nat /\ a[1] > 0
      BY <1>2, <3>1
    <3>3. y \in S /\ y \in Nat /\ y <= a[1]
      <4>1. y \in Nat
        BY <1>6, PlacesType DEF End
      <4>2. ~ (\A z \in S : z <= End)
        BY <3>2 DEF End
      <4>3. End < a[1]
        BY <3>2 DEF End
      <4> QED
        BY <1>6, <3>2, <4>1, <4>2, <4>3 DEF Follows
    <3>4. PICK k \in 1 .. C : a[k] = y
      BY <1>4, <3>3
    <3>5. k = 1 \/ 1 < k
      BY <1>1
    <3> QED
      BY <1>3, <2>2, <3>1, <3>2, <3>3, <3>4, <3>5
  <2> QED
    BY <2>1, <2>2
<1>7. ASSUME NEW k \in 1 .. C, NEW y, Follows(S, a[k], y)
      PROVE  y = IF k = C THEN End ELSE a[k + 1]
  <2>1. CASE y = End /\ \A z \in S : z <= a[k]
    <3> SUFFICES ASSUME k # C PROVE FALSE
      BY <2>1
    <3>1. k + 1 \in 1 .. C /\ k < k + 1
      BY <1>1
    <3>2. a[k] < a[k + 1] /\ a[k + 1] \in S /\ a[k] \in Nat /\ a[k + 1] \in Nat
      BY <1>2, <1>3, <3>1
    <3> QED
      BY <2>1, <3>2
  <2>2. CASE y \in S /\ a[k] < y /\ \A z \in S : a[k] < z => y <= z
    <3>1. PICK j \in 1 .. C : a[j] = y
      BY <1>4, <2>2
    <3>2. k < j
      <4>1. k \in Nat /\ j \in Nat /\ a[k] \in Nat /\ a[j] \in Nat
        BY <1>1, <1>2
      <4>2. j < k => a[j] < a[k]
        BY <1>3
      <4> QED
        BY <2>2, <3>1, <4>1, <4>2
    <3>3. k # C /\ k + 1 \in 1 .. C /\ k < k + 1
      BY <1>1, <3>2
    <3>4. a[k] < a[k + 1] /\ a[k + 1] \in S /\ a[k + 1] \in Nat /\ a[j] \in Nat
      BY <1>2, <1>3, <3>3
    <3>5. a[j] <= a[k + 1]
      BY <2>2, <3>1, <3>4
    <3>6. k + 1 < j => a[k + 1] < a[j]
      BY <1>3, <3>3
    <3>7. j = k + 1
      BY <1>1, <3>2, <3>4, <3>5, <3>6
    <3> QED
      BY <3>1, <3>3, <3>7
  <2> QED
    BY <1>7, <2>1, <2>2 DEF Follows
<1> QED
  BY <1>1, <1>6, <1>7 DEF a, C

\* Right links make a walk meet the nodes in order.
LEMMA WalkIsPresent == ReadInv /\ ListType /\ Forward => Walk = Present
<1> SUFFICES ASSUME ReadInv, ListType, Forward PROVE Walk = Present
  OBVIOUS
<1> DEFINE C == Cardinality(Listed)
           a == Ascending(Listed)
<1>1. /\ Listed \in SUBSET (Nat \ {0}) /\ Listed \subseteq 1 .. Hooked /\ IsFiniteSet(Listed)
      /\ Hooked \in 0 .. MaxReads + 1
  BY ListedFacts
<1>2. C \in Nat
  BY <1>1, AscendingFollows
<1>3. C \in Nodes
  <2>1. Cardinality(1 .. Hooked) = Hooked /\ IsFiniteSet(1 .. Hooked)
    BY <1>1, FS_Interval
  <2>2. C <= Cardinality(1 .. Hooked)
    BY <1>1, <2>1, FS_Subset
  <2> QED
    BY <1>1, <1>2, <2>1, <2>2, ListAssumption DEF Nodes
<1>4. next[End] = IF C = 0 THEN End ELSE a[1]
  BY <1>1, AscendingFollows DEF Forward
<1>5. \A k \in 1 .. C : a[k] \in Listed /\ a[k] # End
  BY <1>1, AscendingRank DEF End
<1>6. \A k \in 1 .. C : next[a[k]] = IF k = C THEN End ELSE a[k + 1]
  BY <1>1, <1>5, AscendingFollows DEF Forward
<1> HIDE DEF C, a
<1> DEFINE S == {k \in Nat : k <= C => Reached[k] = IF k = C THEN End ELSE a[k + 1]}
<1>7. 0 \in S
  <2>1. 0 + 1 = 1
    OBVIOUS
  <2> QED
    BY <1>2, <1>4, <2>1, ReachedAt
<1>8. ASSUME NEW k \in S PROVE k + 1 \in S
  <2> SUFFICES ASSUME k + 1 <= C
               PROVE  Reached[k + 1] = IF k + 1 = C THEN End ELSE a[(k + 1) + 1]
    OBVIOUS
  <2>1. k <= C /\ k # C /\ k + 1 \in 1 .. C /\ k \in Nat
    BY <1>2
  <2>2. Reached[k] = a[k + 1]
    BY <2>1
  <2>3. Reached[k + 1] = next[a[k + 1]]
    BY <2>1, <2>2, ReachedAt
  <2> QED
    BY <1>6, <2>1, <2>3
<1>9. S = Nat
  <2> HIDE DEF S
  <2>1. S \subseteq Nat
    BY DEF S
  <2> QED
    BY <1>7, <1>8, <2>1, Induct
<1>10. \A k \in Nat : k <= C => Reached[k] = IF k = C THEN End ELSE a[k + 1]
  BY <1>9
<1> HIDE DEF S
<1>11. Reached[C] = End /\ \A j \in 0 .. C - 1 : Reached[j] = a[j + 1] /\ Reached[j] # End
  <2>1. Reached[C] = End
    BY <1>2, <1>10
  <2>2. ASSUME NEW j \in 0 .. C - 1 PROVE Reached[j] = a[j + 1] /\ Reached[j] # End
    <3>1. j \in Nat /\ j <= C /\ j # C /\ j + 1 \in 1 .. C
      BY <1>2
    <3> QED
      BY <1>5, <1>10, <3>1
  <2> QED
    BY <2>1, <2>2
<1> DEFINE First(k) == Reached[k] = End /\ \A j \in 0 .. k - 1 : Reached[j] # End
<1>12. First(C)
  BY <1>11
<1>13. ASSUME NEW k \in Nodes, First(k) PROVE k = C
  <2>1. k \in Nat
    BY ListAssumption DEF Nodes
  <2>2. k < C => k \in 0 .. C - 1
    BY <1>2, <2>1
  <2>3. C < k => C \in 0 .. k - 1
    BY <1>2, <2>1
  <2>4. ~ (k < C)
    BY <1>11, <1>13, <2>2
  <2>5. ~ (C < k)
    BY <1>11, <1>13, <2>3
  <2> QED
    BY <1>2, <2>1, <2>4, <2>5
<1> HIDE DEF First
<1>14. (CHOOSE k \in Nodes : First(k)) = C
  BY <1>3, <1>12, <1>13
<1>15. Walk = [k \in 1 .. C |-> Reached[k - 1]]
  BY <1>14 DEF Walk, First
<1>16. \A k \in 1 .. C : Reached[k - 1] = a[k]
  <2> SUFFICES ASSUME NEW k \in 1 .. C PROVE Reached[k - 1] = a[k]
    OBVIOUS
  <2>1. k - 1 \in 0 .. C - 1 /\ (k - 1) + 1 = k
    BY <1>2
  <2> QED
    BY <1>11, <2>1
<1>17. a = [k \in 1 .. C |-> a[k]]
  BY DEF a, C, Ascending
<1>18. Walk = a
  BY <1>15, <1>16, <1>17
<1> QED
  BY <1>18 DEF Present, a

\* What the search finds is a node of the list.
LEMMA FindsListed ==
  ASSUME ReadInv, ListType, Forward, NEW dest, QueuedTo(dest) # <<>>
  PROVE  Head(QueuedTo(dest)) \in Listed
<1> DEFINE I == {k \in DOMAIN Present : pushed[Present[k]].dest = dest}
<1>1. Listed \subseteq Nat /\ IsFiniteSet(Listed)
  BY ListedFacts
<1>2. Cardinality(Listed) \in Nat
  BY <1>1, FS_CardinalityType
<1>3. DOMAIN Present = 1 .. Cardinality(Listed)
  BY DEF Present, Ascending
<1>4. \A k \in DOMAIN Present : Present[k] \in Listed
  BY <1>1, <1>3, AscendingRank DEF Present
<1>5. Present = [k \in 1 .. Cardinality(Listed) |-> Present[k]]
  BY DEF Present, Ascending
<1>6. Present \in Seq(Listed)
  BY <1>2, <1>3, <1>4, <1>5
<1>7. QueuedTo(dest) = Subsequence(Present, I)
  BY WalkIsPresent DEF QueuedTo
<1>8. Subsequence(Present, I) \in Seq(Listed)
  <2>1. I \in SUBSET DOMAIN Present
    OBVIOUS
  <2> QED
    BY <1>6, <2>1, SubsequenceType
<1> HIDE DEF I
<1> QED
  BY <1>7, <1>8

\* Links as the list's invariant says are all that QueueIntact asks for.
LEMMA LinksIntact == ReadInv /\ ListInv => QueueIntact
<1> SUFFICES ASSUME ReadInv, Links PROVE
       /\ Walk = Present
       /\ reader.pc = "read" /\ take.pc \in {"idle", "done"} =>
            /\ prev[End] = (IF Present = <<>> THEN End ELSE Present[Len(Present)])
            /\ \A k \in DOMAIN Present : prev[Present[k]] = (IF k = 1 THEN End ELSE Present[k - 1])
  BY DEF ListInv, QueueIntact
<1> DEFINE C == Cardinality(Listed)
<1>1. Walk = Present
  BY WalkIsPresent DEF Links
<1>2. /\ Listed \in SUBSET (Nat \ {0}) /\ IsFiniteSet(Listed) /\ C \in Nat
  BY ListedFacts, FS_CardinalityType DEF Links
<1>3. Present = [k \in 1 .. C |-> Present[k]]
  BY DEF Present, Ascending
<1>4. DOMAIN Present = 1 .. C /\ Len(Present) = C
  BY <1>2, <1>3
<1>5. \A k \in 1 .. C : Present[k] \in Listed
  BY <1>2, AscendingRank DEF Present
<1>6. \A j, k \in 1 .. C : j < k => Present[j] < Present[k]
  BY <1>2, AscendingGrows DEF Present
<1>7. \A x \in Listed : \E k \in 1 .. C : Present[k] = x
  BY <1>2, AscendingOnto DEF Present
<1>8. \A x \in Listed : x \in Nat
  BY <1>2
<1> HIDE DEF C
<1>9. ASSUME reader.pc = "read", take.pc \in {"idle", "done"}
      PROVE  /\ prev[End] = (IF Present = <<>> THEN End ELSE Present[Len(Present)])
             /\ \A k \in 1 .. C : prev[Present[k]] = (IF k = 1 THEN End ELSE Present[k - 1])
  <2>1. Backed = Listed
    BY <1>9 DEF Backed, Listed
  <2>2. Ends(Listed, prev[End]) /\ \A x \in Listed : Precedes(Listed, x, prev[x])
    BY <1>9, <2>1 DEF Links, Backward
  <2>3. prev[End] = (IF Present = <<>> THEN End ELSE Present[Len(Present)])
    <3>1. CASE C = 0
      <4>1. Listed = {} /\ Present = <<>>
        BY <1>3, <1>7, <3>1
      <4> QED
        BY <2>2, <4>1 DEF Ends
    <3>2. CASE C # 0
      <4>1. C \in 1 .. C /\ Present # <<>>
        BY <1>2, <1>4, <3>2
      <4>2. Present[C] \in Listed /\ Present[C] \in Nat
        BY <1>5, <1>8, <4>1
      <4>3. prev[End] \in Listed /\ Present[C] <= prev[End]
        BY <2>2, <4>2 DEF Ends
      <4>4. PICK k \in 1 .. C : Present[k] = prev[End]
        BY <1>7, <4>3
      <4>5. k < C => Present[k] < Present[C]
        BY <1>6, <4>1
      <4>6. prev[End] \in Nat
        BY <1>8, <4>3
      <4>7. C \in Nat
        BY <1>2
      <4>8. k < C \/ k = C
        BY <4>7
      <4> QED
        BY <1>4, <4>1, <4>2, <4>3, <4>4, <4>5, <4>6, <4>8
    <3> QED
      BY <3>1, <3>2
  <2>4. ASSUME NEW k \in 1 .. C
        PROVE  prev[Present[k]] = (IF k = 1 THEN End ELSE Present[k - 1])
    <3> DEFINE x == Present[k]
               y == prev[x]
    <3>1. x \in Listed /\ x \in Nat /\ Precedes(Listed, x, y)
      BY <1>5, <1>8, <2>2
    <3> HIDE DEF x, y
    <3>2. CASE y = End /\ \A z \in Listed : x <= z
      <4> SUFFICES ASSUME k # 1 PROVE FALSE
        BY <3>2 DEF x, y
      <4>1. k - 1 \in 1 .. C /\ k - 1 < k
        BY <1>2
      <4>2. Present[k - 1] < x /\ Present[k - 1] \in Listed /\ Present[k - 1] \in Nat
        BY <1>5, <1>6, <1>8, <4>1 DEF x
      <4> QED
        BY <3>1, <3>2, <4>2
    <3>3. CASE y \in Listed /\ y < x /\ \A z \in Listed : z < x => z <= y
      <4>1. PICK j \in 1 .. C : Present[j] = y
        BY <1>7, <3>3
      <4>2. y \in Nat
        BY <1>8, <3>3
      <4>3. k < j => x < y
        BY <1>6, <4>1 DEF x
      <4>4. j < k
        BY <1>2, <3>1, <3>3, <4>1, <4>2, <4>3 DEF x
      <4>5. k # 1 /\ k - 1 \in 1 .. C /\ k - 1 < k
        BY <1>2, <4>4
      <4>6. Present[k - 1] < x /\ Present[k - 1] \in Listed /\ Present[k - 1] \in Nat
        BY <1>5, <1>6, <1>8, <4>5 DEF x
      <4>7. Present[k - 1] <= y
        BY <3>3, <4>6
      <4>8. j < k - 1 => y < Present[k - 1]
        BY <1>6, <4>1, <4>5
      <4>9. j = k - 1
        BY <1>2, <4>2, <4>4, <4>6, <4>7, <4>8
      <4> QED
        BY <4>1, <4>5, <4>9 DEF x, y
    <3> QED
      BY <3>1, <3>2, <3>3 DEF Precedes
  <2> QED
    BY <2>3, <2>4
<1> QED
  BY <1>1, <1>4, <1>9

-----------------------------------------------------------------------------
(* The steps of the two threads.                                           *)

\* A step that leaves what the invariant is about alone.
LEMMA LinksStutter ==
  ASSUME Links, UNCHANGED <<reader, take, next, prev, erased>>, Len(pushed') = Len(pushed)
  PROVE  Links'
  BY DEF Links, ListType, Forward, Backward, Pushing, Erasing, Listed, Backed, Hooked, Nodes

LEMMA ReadKeepsLinks ==
  ASSUME ReadInv, Links, NEW outcome \in Outcomes, NEW dest \in Dests, ReadTap(outcome, dest)
  PROVE  Links'
<1>1. CASE UNCHANGED <<pushed, reader>>
  BY <1>1, LinksStutter DEF ReadTap
<1>2. CASE ~UNCHANGED <<pushed, reader>>
  <2>1. /\ Len(pushed) < MaxReads + 1 /\ pushed' = Append(pushed, data')
        /\ reader' = [reader EXCEPT !.pc = "link", !.node = Len(pushed) + 1]
        /\ reader.pc = "read" /\ UNCHANGED <<next, prev, take, erased>>
    BY <1>2 DEF ReadTap
  <2>2. Len(pushed) \in Nat /\ Len(pushed') = Len(pushed) + 1
    BY <2>1 DEF ReadInv
  <2>3. reader'.pc = "link" /\ reader'.node = Len(pushed')
        /\ DOMAIN reader' = {"pc", "node", "tail"}
    BY <2>1, <2>2 DEF Links, ListType
  <2>4. Hooked = Len(pushed) /\ Hooked' = Len(pushed)
    BY <2>1, <2>2, <2>3 DEF Hooked
  <2>5. Listed' = Listed /\ Backed' = Backed
    BY <2>1, <2>4 DEF Listed, Backed
  <2>6. ListType'
    BY <2>1, <2>2, <2>3, <2>4, ListAssumption DEF Links, ListType, Nodes
  <2>7. Forward' /\ Backward' /\ Pushing' /\ Erasing'
    BY <2>1, <2>3, <2>5 DEF Links, Forward, Backward, Pushing, Erasing
  <2> QED
    BY <2>6, <2>7 DEF Links
<1> QED
  BY <1>1, <1>2

LEMMA PushLinkKeeps ==
  ASSUME ReadInv, Links, PushLink, ~collided'
  PROVE  Links'
<1>1. /\ reader.pc = "link" /\ reader.node = Len(pushed) /\ Len(pushed) > 0
      /\ Len(pushed) <= MaxReads + 1
      /\ UNCHANGED <<data, reads, pushed, take, erased>>
  BY DEF PushLink, Links, ListType
<1>2. /\ reader'.pc = "hook" /\ reader'.node = reader.node /\ reader'.tail = prev[End]
      /\ DOMAIN reader' = {"pc", "node", "tail"}
  BY DEF PushLink, Links, ListType
<1>3. take.pc \in {"unhook", "free"} => take.node # prev[End]
  BY DEF PushLink
<1>4. /\ Hooked \in 0 .. MaxReads + 1 /\ Len(pushed) \in Nat
      /\ Listed \subseteq 1 .. Hooked /\ Backed \subseteq 1 .. Hooked
      /\ Listed \cup {End} \subseteq Nodes /\ Backed \cup {End} \subseteq Nodes
  BY ListedFacts DEF Links
<1>5. Hooked = Len(pushed) - 1 /\ Hooked' = Hooked
  BY <1>1, <1>2 DEF Hooked
<1>6. Listed' = Listed /\ Backed' = Backed
  BY <1>1, <1>5 DEF Listed, Backed
<1>7. reader.node \in Nodes /\ reader.node \notin Listed \cup Backed \cup {End}
  BY <1>1, <1>4, <1>5, ListAssumption DEF Nodes, End
<1>8. /\ next'[reader.node] = End /\ prev'[reader.node] = prev[End]
      /\ \A x \in Nodes : x # reader.node => next'[x] = next[x] /\ prev'[x] = prev[x]
      /\ DOMAIN next' = Nodes /\ DOMAIN prev' = Nodes
  BY <1>7 DEF PushLink, Links, ListType
<1>9. \A x \in Listed \cup Backed \cup {End} : next'[x] = next[x] /\ prev'[x] = prev[x]
  BY <1>4, <1>7, <1>8
<1>10. ListType'
  BY <1>1, <1>2, <1>5, <1>8 DEF Links, ListType, Nodes
<1>11. Forward'
  BY <1>6, <1>9 DEF Links, Forward
<1>12. Backward'
  BY <1>1, <1>6, <1>9 DEF Links, Backward
<1>13. Pushing'
  BY <1>1, <1>2, <1>3, <1>8, <1>9 DEF Pushing
<1>14. Erasing'
  BY <1>1, <1>6 DEF Links, Erasing
<1> QED
  BY <1>10, <1>11, <1>12, <1>13, <1>14 DEF Links

LEMMA PushHookKeeps ==
  ASSUME ReadInv, Links, PushHook
  PROVE  Links'
<1> DEFINE n == reader.node
           t == prev[End]
<1>1. /\ reader.pc = "hook" /\ n = Len(pushed) /\ Len(pushed) > 0
      /\ Len(pushed) <= MaxReads + 1 /\ DOMAIN next = Nodes
      /\ reader.tail = t /\ next[n] = End /\ prev[n] = t
      /\ UNCHANGED <<data, reads, pushed, prev, take, erased>>
      /\ next' = [next EXCEPT ![t] = n]
  BY DEF PushHook, Links, ListType, Pushing
<1>2. /\ reader'.pc = "close" /\ reader'.node = n /\ DOMAIN reader' = {"pc", "node", "tail"}
  BY DEF PushHook, Links, ListType
<1>3. /\ Hooked \in 0 .. MaxReads + 1 /\ Len(pushed) \in Nat
      /\ Listed \subseteq 1 .. Hooked /\ Backed \subseteq 1 .. Hooked
      /\ Listed \cup {End} \subseteq Nodes /\ Backed \cup {End} \subseteq Nodes
      /\ Listed \in SUBSET (Nat \ {0}) /\ Backed \in SUBSET (Nat \ {0})
  BY ListedFacts DEF Links
<1>4. /\ n \in Nat \ {0} /\ n \in Nodes /\ Hooked = n - 1 /\ Hooked' = n
  BY <1>1, <1>2, <1>3, ListAssumption DEF Hooked, Nodes
<1>5. erased \subseteq 1 .. Hooked
  BY DEF Links, ListType
<1> HIDE DEF n
<1>6. /\ n \notin erased /\ \A x \in 1 .. Hooked : x < n
      /\ 1 .. Hooked' = (1 .. Hooked) \cup {n}
  BY <1>3, <1>4, <1>5
<1>7. take.pc = "free" => take.node \in 1 .. Hooked /\ take.node # t
  BY <1>1, <1>3 DEF Links, Erasing, Pushing
<1>8. Backed' = Backed \cup {n}
  BY <1>1, <1>6 DEF Backed
<1>9. Listed' = Listed \cup {n}
  BY <1>1, <1>4, <1>6, <1>7 DEF Listed
<1>10. Ends(Backed, t)
  BY <1>1 DEF Links, Backward
<1>11. Ends(Listed, t)
  <2>1. CASE take.pc # "free"
    <3>1. Listed = Backed
      BY <2>1 DEF Listed, Backed
    <3> QED
      BY <1>10, <3>1
  <2>2. CASE take.pc = "free"
    <3>1. Listed = Backed \ {take.node} /\ take.node \in Backed
      BY <2>2 DEF Listed, Backed, Links, Erasing
    <3> QED
      BY <1>7, <1>10, <2>2, <3>1 DEF Ends
  <2> QED
    BY <2>1, <2>2
<1>12. \A x \in Listed \cup Backed : x < n
  BY <1>3, <1>6
<1>13. Forward'
  <2>1. \A x \in Listed \cup {n, End} : Follows(Listed \cup {n}, x, [next EXCEPT ![t] = n][x])
    <3>1. Listed \cup {End, n} \subseteq DOMAIN next
      BY <1>1, <1>3, <1>4
    <3>2. \A x \in Listed \cup {End} : Follows(Listed, x, next[x])
      BY DEF Links, Forward
    <3>3. \A x \in Listed : x < n
      BY <1>12
    <3>4. next[n] = End
      BY <1>1
    <3> HIDE DEF t
    <3> QED
      BY <1>3, <1>4, <1>11, <3>1, <3>2, <3>3, <3>4, HookForward
  <2> QED
    BY <1>1, <1>9, <2>1 DEF Forward
<1>14. Backward'
  <2>1. \A x \in Backed \cup {n} : Precedes(Backed \cup {n}, x, prev[x])
    <3>1. \A x \in Backed : Precedes(Backed, x, prev[x])
      BY DEF Links, Backward
    <3>2. Ends(Backed, prev[n])
      BY <1>1, <1>10
    <3> QED
      BY <1>3, <1>4, <1>12, <3>1, <3>2, HookBackward
  <2> QED
    BY <1>1, <1>2, <1>8, <2>1 DEF Backward
<1>15. ListType'
  <2>1. DOMAIN next' = Nodes
    BY <1>1
  <2>2. erased' \subseteq 1 .. Hooked'
    BY <1>1, <1>5, <1>6
  <2> QED
    BY <1>1, <1>2, <1>6, <2>1, <2>2 DEF Links, ListType, Nodes
<1>16. Pushing'
  BY <1>2 DEF Pushing
<1>17. Erasing'
  <2> SUFFICES ASSUME take.pc \in {"unhook", "free"}
               PROVE  /\ take.node \in Backed \cup {n}
                      /\ Precedes(Backed \cup {n}, take.node, take.prev)
                      /\ Follows(Listed \cup {n}, take.node, take.next)
    BY <1>1, <1>8, <1>9 DEF Erasing
  <2>1. /\ take.node \in Backed /\ Precedes(Backed, take.node, take.prev)
        /\ Follows(Listed, take.node, take.next) /\ take.node # t
    BY <1>1 DEF Links, Erasing, Pushing
  <2> HIDE DEF t
  <2>2. take.node \in Nat /\ take.node < n /\ take.node < t /\ t \in Nat
    <3>1. take.node \in Nat /\ take.node < n /\ t \in Nat
      BY <1>3, <1>10, <1>12, <2>1, PlacesType
    <3>2. take.node <= t
      BY <1>10, <2>1 DEF Ends
    <3> QED
      BY <2>1, <3>1, <3>2
  <2>3. Precedes(Backed \cup {n}, take.node, take.prev)
    BY <1>4, <2>1, <2>2 DEF Precedes
  <2>4. t \in Listed
    BY <1>11, <2>2 DEF Ends, End
  <2>5. /\ take.next \in Listed /\ take.node < take.next
        /\ \A z \in Listed : take.node < z => take.next <= z
    BY <1>3, <2>1, <2>2, <2>4 DEF Follows
  <2>6. take.next < n /\ take.next \in Nat
    BY <1>3, <1>12, <2>5
  <2>7. Follows(Listed \cup {n}, take.node, take.next)
    BY <1>4, <2>5, <2>6 DEF Follows
  <2> QED
    BY <2>1, <2>3, <2>7
<1> QED
  BY <1>13, <1>14, <1>15, <1>16, <1>17 DEF Links

LEMMA PushCloseKeeps ==
  ASSUME ReadInv, Links, PushClose
  PROVE  Links'
<1> DEFINE n == reader.node
<1>1. /\ reader.pc = "close" /\ n = Len(pushed) /\ Len(pushed) > 0 /\ n \notin erased
      /\ DOMAIN prev = Nodes
      /\ UNCHANGED <<data, reads, pushed, next, take, erased>>
      /\ prev' = [prev EXCEPT ![End] = n] /\ reader' = NotPushing
  BY DEF PushClose, Links, ListType
<1>2. /\ reader'.pc = "read" /\ DOMAIN reader' = {"pc", "node", "tail"}
  BY <1>1 DEF NotPushing
<1>3. /\ Len(pushed) \in Nat /\ Backed \in SUBSET (Nat \ {0}) /\ Backed \subseteq 1 .. Hooked
      /\ Backed \cup {End} \subseteq Nodes
  BY ListedFacts DEF Links
<1>4. Hooked = n /\ Hooked' = n
  BY <1>1, <1>2 DEF Hooked
<1>5. Listed' = Listed /\ Backed' = Backed
  BY <1>1, <1>4 DEF Listed, Backed
<1>6. n \in Backed
  BY <1>1, <1>3, <1>4 DEF Backed
<1>7. prev'[End] = n /\ DOMAIN prev' = Nodes /\ \A x \in Backed : prev'[x] = prev[x]
  BY <1>1, <1>3 DEF End
<1>8. Ends(Backed, n)
  BY <1>3, <1>4, <1>6 DEF Ends
<1>9. Backward'
  BY <1>5, <1>7, <1>8 DEF Links, Backward
<1>10. ListType'
  BY <1>1, <1>2, <1>4, <1>7 DEF Links, ListType, Nodes
<1>11. Forward' /\ Pushing' /\ Erasing'
  BY <1>1, <1>2, <1>5 DEF Links, Forward, Pushing, Erasing
<1> QED
  BY <1>9, <1>10, <1>11 DEF Links

LEMMA TakeFindKeeps ==
  ASSUME ReadInv, Links, NEW dest, TakeFind(dest), ~collided'
  PROVE  Links'
<1>1. take.pc = "idle" /\ UNCHANGED <<reader, data, reads, pushed, next, prev, erased>>
  BY DEF TakeFind
<1>2. Listed = Backed
  BY <1>1 DEF Listed, Backed
<1>3. CASE QueuedTo(dest) = <<>>
  <2>1. take'.pc = "done" /\ DOMAIN take' = {"pc", "node", "next", "prev"}
    BY <1>3 DEF TakeFind, NotTaking
  <2>2. Hooked' = Hooked /\ Listed' = Listed /\ Backed' = Backed
    BY <1>1, <2>1 DEF Hooked, Listed, Backed
  <2> QED
    BY <1>1, <2>1, <2>2 DEF Links, ListType, Forward, Backward, Pushing, Erasing, Nodes
<1>4. CASE QueuedTo(dest) # <<>>
  <2> DEFINE n == Head(QueuedTo(dest))
  <2>1. n \in Listed
    BY <1>4, FindsListed DEF Links
  <2>2. /\ take' = [pc |-> "unhook", node |-> n, next |-> next[n], prev |-> prev[n]]
        /\ ~(reader.pc = "hook" /\ n = reader.tail)
    BY <1>4 DEF TakeFind
  <2> HIDE DEF n
  <2>3. /\ take'.pc = "unhook" /\ DOMAIN take' = {"pc", "node", "next", "prev"}
        /\ take'.node = n /\ take'.next = next[n] /\ take'.prev = prev[n]
    BY <2>2
  <2>4. Hooked' = Hooked /\ Listed' = Listed /\ Backed' = Backed
    BY <1>1, <2>3 DEF Hooked, Listed, Backed
  <2>5. Erasing'
    <3>1. Precedes(Backed, n, prev[n]) /\ Follows(Listed, n, next[n])
      BY <1>2, <2>1 DEF Links, Forward, Backward
    <3> QED
      BY <1>2, <2>1, <2>3, <2>4, <3>1 DEF Erasing
  <2>6. Pushing'
    BY <1>1, <2>2, <2>3 DEF Links, Pushing
  <2> QED
    BY <1>1, <2>3, <2>4, <2>5, <2>6 DEF Links, ListType, Forward, Backward, Nodes
<1> QED
  BY <1>3, <1>4

LEMMA TakeUnhookKeeps ==
  ASSUME ReadInv, Links, TakeUnhook
  PROVE  Links'
<1> DEFINE m == take.node
           p == take.prev
           q == take.next
<1>1. /\ take.pc = "unhook" /\ next' = [next EXCEPT ![p] = q] /\ DOMAIN next = Nodes
      /\ UNCHANGED <<reader, data, reads, pushed, prev, erased, collided>>
  BY DEF TakeUnhook, Links, ListType
<1>2. /\ take'.pc = "free" /\ DOMAIN take' = {"pc", "node", "next", "prev"}
      /\ take'.node = m /\ take'.next = q /\ take'.prev = p
  BY DEF TakeUnhook, Links, ListType
<1>3. Listed = Backed
  BY <1>1 DEF Listed, Backed
<1>4. m \in Listed /\ Precedes(Listed, m, p) /\ Follows(Listed, m, q)
  BY <1>1, <1>3 DEF Links, Erasing
<1>5. /\ Listed \in SUBSET (Nat \ {0}) /\ Listed \subseteq 1 .. Hooked
      /\ Listed \cup {End} \subseteq DOMAIN next /\ Len(pushed) \in Nat
  BY <1>1, ListedFacts DEF Links
<1> HIDE DEF m, p, q
<1>6. Hooked' = Hooked /\ Backed' = Backed
  BY <1>1 DEF Hooked, Backed
<1>7. Listed' = Listed \ {m}
  BY <1>1, <1>2, <1>6 DEF Listed
<1>8. \A x \in Listed \cup {End} : Follows(Listed, x, next[x])
  BY DEF Links, Forward
<1>9. /\ \A x \in (Listed \ {m}) \cup {End} : Follows(Listed \ {m}, x, [next EXCEPT ![p] = q][x])
      /\ Follows(Listed \ {m}, m, q)
  BY <1>4, <1>5, <1>8, UnhookForward
<1>10. Forward'
  BY <1>1, <1>7, <1>9 DEF Forward
<1>11. Erasing'
  BY <1>2, <1>3, <1>4, <1>6, <1>7, <1>9 DEF Erasing
<1>12. Backward'
  BY <1>1, <1>6 DEF Links, Backward
<1>13. Pushing'
  <2> SUFFICES ASSUME reader.pc = "hook"
               PROVE  /\ reader.tail = prev[End] /\ next'[reader.node] = End
                      /\ prev[reader.node] = reader.tail /\ m # reader.tail
    BY <1>1, <1>2 DEF Pushing
  <2>1. /\ reader.tail = prev[End] /\ next[reader.node] = End
        /\ prev[reader.node] = reader.tail /\ m # reader.tail
    BY <1>1 DEF Links, Pushing, m
  <2>2. reader.node = Len(pushed) /\ Len(pushed) > 0 /\ Hooked = Len(pushed) - 1
        /\ Len(pushed) <= MaxReads + 1
    BY DEF Links, ListType, Hooked
  <2>3. reader.node \notin Listed \cup {End} /\ reader.node \in Nodes
    BY <1>5, <2>2, ListAssumption DEF End, Nodes
  <2>4. p \in Listed \cup {End}
    <3>1. m \in Nat
      BY <1>4, <1>5
    <3> QED
      BY <1>4, <1>5, <3>1, PlacesType
  <2>5. next'[reader.node] = next[reader.node]
    BY <1>1, <2>3, <2>4
  <2> QED
    BY <2>1, <2>5
<1>14. ListType'
  BY <1>1, <1>2, <1>6 DEF Links, ListType, Nodes
<1> QED
  BY <1>10, <1>11, <1>12, <1>13, <1>14 DEF Links

LEMMA TakeFreeKeeps ==
  ASSUME ReadInv, Links, TakeFree, ~collided'
  PROVE  Links'
<1> DEFINE m == take.node
           p == take.prev
           q == take.next
<1>1. /\ take.pc = "free" /\ prev' = [prev EXCEPT ![q] = p] /\ DOMAIN prev = Nodes
      /\ erased' = erased \cup {m} /\ take' = NotTaking("done")
      /\ UNCHANGED <<reader, data, reads, pushed, next>>
      /\ ~(reader.pc = "close" /\ m = reader.node)
  BY DEF TakeFree, Links, ListType
<1>2. take'.pc = "done" /\ DOMAIN take' = {"pc", "node", "next", "prev"}
  BY <1>1 DEF NotTaking
<1>3. m \in Backed /\ Precedes(Backed, m, p) /\ Follows(Listed, m, q)
  BY <1>1 DEF Links, Erasing
<1>4. Listed = Backed \ {m}
  BY <1>1 DEF Listed, Backed
<1>5. /\ Backed \in SUBSET (Nat \ {0}) /\ Backed \subseteq 1 .. Hooked
      /\ Backed \cup {End} \subseteq DOMAIN prev /\ Len(pushed) \in Nat
  BY <1>1, ListedFacts DEF Links
<1> HIDE DEF m, p, q
<1>6. Hooked' = Hooked
  BY <1>1 DEF Hooked
<1>7. Listed' = Backed \ {m} /\ Backed' = Backed \ {m}
  BY <1>1, <1>2, <1>6 DEF Listed, Backed
<1>8. \A x \in Backed : Precedes(Backed, x, prev[x])
  BY DEF Links, Backward
<1>9. Follows(Backed \ {m}, m, q)
  BY <1>3, <1>4
<1>10. /\ \A x \in Backed \ {m} : Precedes(Backed \ {m}, x, [prev EXCEPT ![q] = p][x])
       /\ Ends(Backed, prev[End]) => Ends(Backed \ {m}, [prev EXCEPT ![q] = p][End])
  BY <1>3, <1>5, <1>8, <1>9, FreeBackward
<1>11. Backward'
  BY <1>1, <1>7, <1>10 DEF Links, Backward
<1>12. Forward'
  BY <1>1, <1>4, <1>7 DEF Links, Forward
<1>13. ListType'
  <2>1. erased' \subseteq 1 .. Hooked'
    BY <1>1, <1>3, <1>5, <1>6 DEF Links, ListType
  <2>2. DOMAIN prev' = Nodes
    BY <1>1
  <2>3. reader.pc = "close" => reader.node \notin erased'
    BY <1>1 DEF Links, ListType
  <2> QED
    BY <1>1, <1>2, <2>1, <2>2, <2>3 DEF Links, ListType, Nodes
<1>14. Erasing'
  BY <1>2 DEF Erasing
<1>15. Pushing'
  <2> SUFFICES ASSUME reader.pc = "hook"
               PROVE  /\ reader.tail = prev'[End] /\ next[reader.node] = End
                      /\ prev'[reader.node] = reader.tail
    BY <1>1, <1>2 DEF Pushing
  <2>1. /\ reader.tail = prev[End] /\ next[reader.node] = End
        /\ prev[reader.node] = reader.tail /\ m # reader.tail
    BY <1>1 DEF Links, Pushing, m
  <2>2. reader.node = Len(pushed) /\ Len(pushed) > 0 /\ Hooked = Len(pushed) - 1
        /\ Len(pushed) <= MaxReads + 1
    BY DEF Links, ListType, Hooked
  <2>3. reader.node \notin Backed \cup {End} /\ reader.node \in Nodes
    BY <1>5, <2>2, ListAssumption DEF End, Nodes
  <2>4. Ends(Backed, reader.tail)
    BY <2>1 DEF Links, Backward
  <2>5. /\ m \in Nat /\ \A x \in Backed \ {m} : x \in Nat
    BY <1>3, <1>5
  <2>6. reader.tail \in Backed \ {m} /\ m < reader.tail
    <3>1. reader.tail \in Backed /\ m <= reader.tail
      BY <1>3, <2>4 DEF Ends
    <3> QED
      BY <2>1, <2>5, <3>1
  <2>7. q \in Backed \ {m}
    BY <1>9, <2>5, <2>6 DEF Follows
  <2>8. q # End /\ q # reader.node
    BY <1>5, <2>3, <2>7 DEF End
  <2>9. prev'[End] = prev[End] /\ prev'[reader.node] = prev[reader.node]
    BY <1>1, <1>5, <2>3, <2>8
  <2> QED
    BY <2>1, <2>9
<1> QED
  BY <1>11, <1>12, <1>13, <1>14, <1>15 DEF Links

LEMMA TakeReturnKeeps ==
  ASSUME Links, TakeReturn
  PROVE  Links'
<1>1. /\ take.pc = "done" /\ take'.pc = "idle" /\ DOMAIN take' = {"pc", "node", "next", "prev"}
      /\ UNCHANGED <<reader, data, reads, pushed, next, prev, erased, collided>>
  BY DEF TakeReturn, NotTaking
<1>2. Hooked' = Hooked /\ Listed' = Listed /\ Backed' = Backed
  BY <1>1 DEF Hooked, Listed, Backed
<1> QED
  BY <1>1, <1>2 DEF Links, ListType, Forward, Backward, Pushing, Erasing, Nodes

\* An empty list is linked.
LEMMA ListInitInv == ListInit => ListInv
<1> SUFFICES ASSUME ListInit PROVE collided \in BOOLEAN /\ Links
  BY DEF ListInv
<1>1. /\ reader.pc = "read" /\ DOMAIN reader = {"pc", "node", "tail"}
      /\ take.pc = "idle" /\ DOMAIN take = {"pc", "node", "next", "prev"}
      /\ Len(pushed) = 0 /\ erased = {} /\ collided = FALSE
  BY DEF ListInit, NotPushing, NotTaking
<1>2. /\ DOMAIN next = Nodes /\ DOMAIN prev = Nodes /\ next[End] = End /\ prev[End] = End
  BY ListAssumption DEF ListInit, Nodes, End
<1>3. Hooked = 0
  BY <1>1 DEF Hooked
<1>4. Listed = {} /\ Backed = {}
  BY <1>1, <1>3 DEF Listed, Backed
<1>5. ListType
  BY <1>1, <1>2, ListAssumption DEF ListType
<1>6. Forward /\ Backward
  BY <1>1, <1>2, <1>4 DEF Forward, Backward, Follows, Ends
<1>7. Pushing /\ Erasing
  BY <1>1 DEF Pushing, Erasing
<1> QED
  BY <1>1, <1>5, <1>6, <1>7 DEF Links

\* Either thread's step keeps the links, or is a collision.
LEMMA ListStep == ASSUME ReadInv, ListInv, [BaseNext]_baseVars PROVE ListInv'
<1>1. CASE UNCHANGED listVars
  <2>1. Links => Links'
    BY <1>1, LinksStutter DEF listVars
  <2> QED
    BY <1>1, <2>1 DEF ListInv, listVars
<1>2. ASSUME NEW outcome \in Outcomes, NEW dest \in Dests, ReadTap(outcome, dest) PROVE ListInv'
  <2>1. collided' = collided
    BY <1>2 DEF ReadTap
  <2>2. Links => Links'
    BY <1>2, ReadKeepsLinks
  <2> QED
    BY <2>1, <2>2 DEF ListInv
<1>3. CASE PushLink
  <2>1. collided' \in BOOLEAN /\ (collided => collided')
    BY <1>3 DEF PushLink, ListInv
  <2>2. Links /\ ~collided' => Links'
    BY <1>3, PushLinkKeeps
  <2> QED
    BY <2>1, <2>2 DEF ListInv
<1>4. CASE PushHook \/ PushClose \/ TakeUnhook
  <2>1. collided' = collided
    BY <1>4 DEF PushHook, PushClose, TakeUnhook
  <2>2. Links => Links'
    BY <1>4, PushHookKeeps, PushCloseKeeps, TakeUnhookKeeps
  <2> QED
    BY <2>1, <2>2 DEF ListInv
<1>5. CASE BurstFind
  <2>1. PICK dest : TakeFind(dest)
    BY <1>5 DEF BurstFind
  <2>2. collided' \in BOOLEAN /\ (collided => collided')
    BY <2>1 DEF TakeFind, ListInv
  <2>3. Links /\ ~collided' => Links'
    BY <2>1, TakeFindKeeps
  <2> QED
    BY <2>2, <2>3 DEF ListInv
<1>6. CASE TakeFree
  <2>1. collided' \in BOOLEAN /\ (collided => collided')
    BY <1>6 DEF TakeFree, ListInv
  <2>2. Links /\ ~collided' => Links'
    BY <1>6, TakeFreeKeeps
  <2> QED
    BY <2>1, <2>2 DEF ListInv
<1>7. CASE BurstLoad
  <2>1. TakeReturn /\ collided' = collided
    BY <1>7 DEF BurstLoad, TakeReturn
  <2>2. Links => Links'
    BY <2>1, TakeReturnKeeps
  <2> QED
    BY <2>1, <2>2 DEF ListInv
<1>8. UNCHANGED baseVars => UNCHANGED listVars
  BY DEF baseVars
<1> QED
  BY <1>1, <1>2, <1>3, <1>4, <1>5, <1>6, <1>7, <1>8
     DEF BaseNext, Burst, BurstLock, Reader, Frame, Callback, CallbackLock

\* readPackets and get_next_frame_for_destination on the unlocked list: every
\* queued packet stays in it, in order and linked both ways, for any number of
\* packets and however the two threads' stores interleave, unless the node that
\* a push_back hangs its own on is erased meanwhile.
THEOREM QueueStaysIntact == BaseSpec => []QueueIntact
<1>1. BaseInit => ListInv
  BY ListInitInv DEF BaseInit
<1> QED
  BY <1>1, ReadInvariant, ListStep, LinksIntact, PTL DEF BaseSpec
=============================================================================

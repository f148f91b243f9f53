-------------------------- MODULE AudioPipelineProofs --------------------------
(***************************************************************************)
(* Proofs about AudioPipeline, for any configurations, any number of       *)
(* pipelines, stages, elements and buffers, any sizes of storages and any  *)
(* number of RUN commands that fail: where the pipelines of the table and  *)
(* their rings lie, that the writer and the reader of a ring stay in       *)
(* phase, that no other element overwrites what is on its way, and that    *)
(* the readers of a shared ring are one period behind its writer.          *)
(***************************************************************************)
EXTENDS AudioPipeline, FiniteSetTheorems, SequenceTheorems, WellFoundedInduction, TLAPS

\* Every set of natural numbers that is not empty has a least one.
LEMMA LeastNatural ==
  ASSUME NEW S \in SUBSET Nat, S # {}
  PROVE  /\ Min(S) \in S
         /\ \A y \in S : Min(S) <= y
<1> DEFINE Less == {p \in Nat \X Nat : p[1] < p[2]}
<1>1. IsWellFoundedOn(Less, Nat)
  BY NatLessThanWellFounded DEF OpToRel
<1>2. \A x, y \in Nat : <<y, x>> \in Less <=> y < x
  OBVIOUS
<1> HIDE DEF Less
<1>3. \E x \in S : \A y \in S : ~(<<y, x>> \in Less)
  BY <1>1, WFMin
<1>4. PICK x \in S : \A y \in S : ~(<<y, x>> \in Less)
  BY <1>3
<1>5. \A y \in S : x <= y
  <2> SUFFICES ASSUME NEW y \in S PROVE x <= y
    OBVIOUS
  <2>1. x \in Nat /\ y \in Nat /\ ~(y < x)
    BY <1>2, <1>4
  <2> QED
    BY <2>1
<1> QED
  BY <1>5 DEF Min

-----------------------------------------------------------------------------
(* Rings                                                                   *)

LEMMA HalfBounds ==
  ASSUME NEW s \in Nat, s > 1
  PROVE  s \div 2 \in Nat /\ 2 * (s \div 2) <= s /\ s \div 2 < s /\ s \div 2 > 0
  BY SMT

\* Wrap is a number between 1 and the size, and not 1 for a ring of several periods.
LEMMA WrapBounds ==
  ASSUME NEW size \in Nat
  PROVE  /\ Wrap(size) \in Nat \ {0}
         /\ size > 0 => Wrap(size) <= size
         /\ size > 1 => Wrap(size) > 1
<1> DEFINE Def(w, m) == w = [s \in 0..m |-> IF s <= 1 THEN 1 ELSE 2 * w[s \div 2]]
           Bad == {m \in Nat : ~ \E w : Def(w, m)}
<1>1. Bad = {}
  <2> SUFFICES ASSUME Bad # {} PROVE FALSE
    OBVIOUS
  <2>1. PICK m \in Bad : \A k \in Bad : m <= k
    BY LeastNatural
  <2>2. CASE m = 0
    <3>1. Def([s \in 0..0 |-> 1], 0)
      OBVIOUS
    <3> QED
      BY <2>1, <2>2, <3>1
  <2>3. CASE m # 0
    <3>1. m \in Nat /\ m - 1 \in Nat /\ m - 1 \notin Bad
      <4>1. m \in Nat /\ (m - 1 \in Bad => m <= m - 1)
        BY <2>1
      <4> HIDE DEF Bad
      <4> QED
        BY <2>3, <4>1
    <3>2. PICK w : Def(w, m - 1)
      BY <3>1
    <3> DEFINE v == [s \in 0..m |-> IF s = m THEN (IF m <= 1 THEN 1 ELSE 2 * w[m \div 2]) ELSE w[s]]
    <3>3. \A s \in 0..m : v[s] = IF s <= 1 THEN 1 ELSE 2 * v[s \div 2]
      <4> SUFFICES ASSUME NEW s \in 0..m PROVE v[s] = IF s <= 1 THEN 1 ELSE 2 * v[s \div 2]
        OBVIOUS
      <4>1. s > 1 => s \div 2 \in 0..m-1
        BY HalfBounds, <3>1
      <4>2. s > 1 => v[s \div 2] = w[s \div 2]
        BY <4>1, <3>1
      <4>3. CASE s = m
        BY <4>2, <4>3
      <4>4. CASE s # m
        <5>1. s \in 0..m-1
          BY <4>4, <3>1
        <5>2. w[s] = IF s <= 1 THEN 1 ELSE 2 * w[s \div 2]
          BY <3>2, <5>1
        <5> QED
          BY <4>2, <4>4, <5>2
      <4> QED
        BY <4>3, <4>4
    <3>4. Def(v, m)
      BY <3>3
    <3> QED
      BY <2>1, <3>4
  <2> QED
    BY <2>2, <2>3
<1>2. PICK v : Def(v, size)
  BY <1>1
<1> DEFINE w == CHOOSE w : Def(w, size)
<1>3. Def(w, size)
  BY <1>2
<1>4. Wrap(size) = w[size]
  BY DEF Wrap
<1> HIDE DEF w
<1> DEFINE Wrong == {s \in 0..size : ~(w[s] \in Nat \ {0} /\ (s > 0 => w[s] <= s))}
<1>5. Wrong = {}
  <2> SUFFICES ASSUME Wrong # {} PROVE FALSE
    OBVIOUS
  <2> Wrong \in SUBSET Nat
    OBVIOUS
  <2>1. PICK s \in Wrong : \A k \in Wrong : s <= k
    BY LeastNatural
  <2>2. w[s] = IF s <= 1 THEN 1 ELSE 2 * w[s \div 2]
    BY <1>3
  <2>3. s > 1
    BY <2>1, <2>2
  <2>4. s \div 2 \in 0..size /\ s \div 2 \notin Wrong /\ s \div 2 > 0 /\ 2 * (s \div 2) <= s
    BY <2>1, <2>3, HalfBounds
  <2>5. w[s \div 2] \in Nat \ {0} /\ w[s \div 2] <= s \div 2
    BY <2>4
  <2> QED
    BY <2>1, <2>2, <2>3, <2>4, <2>5
<1>6. ASSUME size > 1 PROVE w[size] > 1
  <2>1. w[size] = 2 * w[size \div 2]
    BY <1>3, <1>6
  <2>2. size \div 2 \in 0..size /\ size \div 2 \notin Wrong
    BY <1>5, <1>6, HalfBounds
  <2> QED
    BY <2>1, <2>2
<1> QED
  BY <1>4, <1>5, <1>6

\* The index after and before r.
After(r, wrap)  == IF r = wrap - 1 THEN 0 ELSE r + 1
Before(r, wrap) == IF r = 0 THEN wrap - 1 ELSE r - 1

LEMMA ModType ==
  ASSUME NEW a \in Int, NEW wrap \in Nat \ {0}
  PROVE  a % wrap \in 0..wrap-1
  BY SMT

LEMMA ModOnce ==
  ASSUME NEW wrap \in Nat \ {0}, NEW r \in 0..wrap-1
  PROVE  /\ r % wrap = r
         /\ (r + 1) % wrap = After(r, wrap)
         /\ (r - 1) % wrap = Before(r, wrap)
<1>1. r % wrap = r
  BY SMT
<1>2. (r + 1) % wrap = After(r, wrap)
  BY SMT DEF After
<1>3. (r - 1) % wrap = Before(r, wrap)
  BY SMT DEF Before
<1> QED
  BY <1>1, <1>2, <1>3

-----------------------------------------------------------------------------
(* Configurations                                                          *)

\* The defaults leave the number of inputs and of outputs as it is.
LEMMA NumberedArray ==
  ASSUME NEW list, IsArray(list)
  PROVE  /\ DOMAIN Numbered(list) = DOMAIN list
         /\ Numbered(list) = [k \in DOMAIN list |-> Numbered(list)[k]]
<1> DEFINE Def(n, m) ==
      n = [k \in 1..m |-> IF list[k] # 0 THEN list[k] ELSE IF k = 1 THEN 0 ELSE n[k-1] + 1]
           Bad == {m \in Nat : ~ \E n : Def(n, m)}
<1>1. Bad = {}
  <2> SUFFICES ASSUME Bad # {} PROVE FALSE
    OBVIOUS
  <2>1. PICK m \in Bad : \A k \in Bad : m <= k
    BY LeastNatural
  <2>2. CASE m = 0
    <3>1. Def([s \in 1..0 |-> 1], 0)
      OBVIOUS
    <3> QED
      BY <2>1, <2>2, <3>1
  <2>3. CASE m # 0
    <3>1. m \in Nat /\ m - 1 \in Nat /\ m - 1 \notin Bad
      <4>1. m \in Nat /\ (m - 1 \in Bad => m <= m - 1)
        BY <2>1
      <4> HIDE DEF Bad
      <4> QED
        BY <2>3, <4>1
    <3>2. PICK n : Def(n, m - 1)
      BY <3>1
    <3> DEFINE last == IF list[m] # 0 THEN list[m] ELSE IF m = 1 THEN 0 ELSE n[m-1] + 1
               v == [k \in 1..m |-> IF k = m THEN last ELSE n[k]]
    <3>3. \A k \in 1..m : v[k] = IF list[k] # 0 THEN list[k] ELSE IF k = 1 THEN 0 ELSE v[k-1] + 1
      <4> SUFFICES ASSUME NEW k \in 1..m
                   PROVE v[k] = IF list[k] # 0 THEN list[k] ELSE IF k = 1 THEN 0 ELSE v[k-1] + 1
        OBVIOUS
      <4>1. k # 1 => v[k-1] = n[k-1]
        BY <3>1
      <4>2. CASE k = m
        BY <4>1, <4>2
      <4>3. CASE k # m
        <5>1. k \in 1..m-1
          BY <4>3, <3>1
        <5>2. n[k] = IF list[k] # 0 THEN list[k] ELSE IF k = 1 THEN 0 ELSE n[k-1] + 1
          BY <3>2, <5>1
        <5> QED
          BY <4>1, <4>3, <5>2
      <4> QED
        BY <4>2, <4>3
    <3>4. Def(v, m)
      BY <3>3
    <3> QED
      BY <2>1, <3>4
  <2> QED
    BY <2>2, <2>3
<1>2. PICK v : Def(v, Len(list))
  BY <1>1 DEF IsArray
<1> DEFINE n == CHOOSE n : Def(n, Len(list))
<1>3. Def(n, Len(list))
  BY <1>2
<1>4. Numbered(list) = n
  BY DEF Numbered
<1> HIDE DEF n
<1> QED
  BY <1>3, <1>4 DEF IsArray

\* A storage begins where the one before it ends.
LEMMA StorageSteps ==
  ASSUME NEW cfg, IsTable(DOMAIN cfg.periods)
  PROVE  /\ StorageOff(cfg, 0) = 0
         /\ \A s \in 1..Cardinality(DOMAIN cfg.periods) :
              StorageOff(cfg, s) = StorageOff(cfg, s-1) + cfg.periods[s-1]
<1> DEFINE M == Cardinality(DOMAIN cfg.periods)
           Def(off, m) == off = [s \in 0..m |-> IF s = 0 THEN 0 ELSE off[s-1] + cfg.periods[s-1]]
           Bad == {m \in Nat : ~ \E off : Def(off, m)}
<1>1. Bad = {}
  <2> SUFFICES ASSUME Bad # {} PROVE FALSE
    OBVIOUS
  <2>1. PICK m \in Bad : \A k \in Bad : m <= k
    BY LeastNatural
  <2>2. CASE m = 0
    <3>1. Def([s \in 0..0 |-> 0], 0)
      OBVIOUS
    <3> QED
      BY <2>1, <2>2, <3>1
  <2>3. CASE m # 0
    <3>1. m \in Nat /\ m - 1 \in Nat /\ m - 1 \notin Bad
      <4>1. m \in Nat /\ (m - 1 \in Bad => m <= m - 1)
        BY <2>1
      <4> HIDE DEF Bad
      <4> QED
        BY <2>3, <4>1
    <3>2. PICK off : Def(off, m - 1)
      BY <3>1
    <3> DEFINE v == [s \in 0..m |-> IF s = m THEN off[m-1] + cfg.periods[m-1] ELSE off[s]]
    <3>3. \A s \in 0..m : v[s] = IF s = 0 THEN 0 ELSE v[s-1] + cfg.periods[s-1]
      <4> SUFFICES ASSUME NEW s \in 0..m
                   PROVE  v[s] = IF s = 0 THEN 0 ELSE v[s-1] + cfg.periods[s-1]
        OBVIOUS
      <4>1. s # 0 => v[s-1] = off[s-1]
        BY <3>1
      <4>2. CASE s = m
        BY <2>3, <4>1, <4>2
      <4>3. CASE s # m
        <5>1. s \in 0..m-1
          BY <4>3, <3>1
        <5>2. off[s] = IF s = 0 THEN 0 ELSE off[s-1] + cfg.periods[s-1]
          BY <3>2, <5>1
        <5> QED
          BY <4>1, <4>3, <5>2
      <4> QED
        BY <4>2, <4>3
    <3>4. Def(v, m)
      BY <3>3
    <3> QED
      BY <2>1, <3>4
  <2> QED
    BY <2>2, <2>3
<1>2. M \in Nat
  BY DEF IsTable
<1>3. PICK v : Def(v, M)
  BY <1>1, <1>2
<1> DEFINE off == CHOOSE off : Def(off, M)
<1>4. Def(off, M)
  BY <1>3
<1>5. \A id : StorageOff(cfg, id) = off[id]
  BY DEF StorageOff
<1> HIDE DEF off
<1> HIDE DEF M
<1>6. /\ off[0] = 0
      /\ \A s \in 1..M : off[s] = off[s-1] + cfg.periods[s-1]
  BY <1>2, <1>4
<1> QED
  BY <1>5, <1>6 DEF M

\* The storages follow one another.
LEMMA StoragesFollow ==
  ASSUME NEW cfg, IsTable(DOMAIN cfg.periods),
         \A s \in DOMAIN cfg.periods : cfg.periods[s] \in Nat
  PROVE  /\ StorageSize(cfg) \in Nat
         /\ \A s \in DOMAIN cfg.periods :
              /\ StorageOff(cfg, s) \in Nat
              /\ StorageOff(cfg, s) + cfg.periods[s] <= StorageSize(cfg)
              /\ \A u \in DOMAIN cfg.periods :
                   s < u => StorageOff(cfg, s) + cfg.periods[s] <= StorageOff(cfg, u)
<1> DEFINE M == Cardinality(DOMAIN cfg.periods)
           Off(s) == StorageOff(cfg, s)
<1>1. M \in Nat /\ DOMAIN cfg.periods = 0..M-1
  BY DEF IsTable
<1>2. Off(0) = 0 /\ \A s \in 1..M : Off(s) = Off(s-1) + cfg.periods[s-1]
  BY StorageSteps
<1>3. StorageSize(cfg) = Off(M)
  BY DEF StorageSize
<1>4. \A s \in 0..M-1 : cfg.periods[s] \in Nat
  BY <1>1
<1> HIDE DEF M, Off
<1> DEFINE Wrong == {s \in 0..M : ~(/\ Off(s) \in Nat
                                    /\ \A u \in 0..M-1 : u < s => Off(u) + cfg.periods[u] <= Off(s))}
<1>5. Wrong = {}
  <2> SUFFICES ASSUME Wrong # {} PROVE FALSE
    OBVIOUS
  <2> Wrong \in SUBSET Nat
    BY <1>1
  <2>1. PICK s \in Wrong : \A k \in Wrong : s <= k
    BY LeastNatural
  <2>2. s \in 0..M /\ s # 0
    BY <1>2, <2>1
  <2>3. s - 1 \in 0..M-1 /\ s - 1 \in 0..M /\ s \in 1..M
    BY <1>1, <2>2
  <2>4. s - 1 \notin Wrong
    <3>1. s - 1 \in Wrong => s <= s - 1
      BY <2>1
    <3> HIDE DEF Wrong
    <3> QED
      BY <1>1, <2>2, <3>1
  <2>5. /\ Off(s-1) \in Nat
        /\ \A u \in 0..M-1 : u < s - 1 => Off(u) + cfg.periods[u] <= Off(s-1)
    BY <2>3, <2>4
  <2>6. Off(s) = Off(s-1) + cfg.periods[s-1] /\ cfg.periods[s-1] \in Nat
    BY <1>2, <1>4, <2>3
  <2>7. ASSUME NEW u \in 0..M-1, u < s PROVE Off(u) + cfg.periods[u] <= Off(s)
    <3>1. CASE u = s - 1
      BY <2>5, <2>6, <3>1
    <3>2. CASE u # s - 1
      <4>1. u < s - 1
        BY <1>1, <2>2, <2>7, <3>2
      <4>2. Off(u) + cfg.periods[u] <= Off(s-1)
        BY <2>5, <4>1
      <4>3. u \in 0..M /\ u \notin Wrong
        <5>1. u \in Wrong => s <= u
          BY <2>1
        <5> HIDE DEF Wrong
        <5> QED
          BY <1>1, <2>2, <2>7, <5>1
      <4>4. Off(u) \in Nat /\ cfg.periods[u] \in Nat
        BY <1>4, <4>3
      <4> QED
        BY <2>5, <2>6, <4>2, <4>4
    <3> QED
      BY <3>1, <3>2
  <2>8. Off(s) \in Nat
    BY <2>5, <2>6
  <2> QED
    BY <2>1, <2>7, <2>8
<1>6. \A s \in 0..M : /\ Off(s) \in Nat
                      /\ \A u \in 0..M-1 : u < s => Off(u) + cfg.periods[u] <= Off(s)
  BY <1>5
<1> HIDE DEF Wrong
<1>7. M \in 0..M /\ \A s \in 0..M-1 : s < M /\ s \in 0..M
  BY <1>1
<1>8. /\ Off(M) \in Nat
      /\ \A s \in 0..M-1 : /\ Off(s) \in Nat /\ Off(s) + cfg.periods[s] <= Off(M)
                           /\ \A u \in 0..M-1 : s < u => Off(s) + cfg.periods[s] <= Off(u)
  BY <1>6, <1>7
<1> QED
  BY <1>1, <1>3, <1>8 DEF Off

\* How often a list of buffers names one.
LEMMA TimesNamed ==
  ASSUME NEW list, NEW b
  PROVE  /\ (\A k \in DOMAIN list : list[k] # b) => Times(list, b) = 0
         /\ \A k \in DOMAIN list :
              list[k] = b /\ (\A j \in DOMAIN list : list[j] = b => j = k) => Times(list, b) = 1
         /\ \A m \in Nat : DOMAIN list = 1..m => Times(list, b) \in Nat
<1> DEFINE S == {k \in DOMAIN list : list[k] = b}
<1>1. (\A k \in DOMAIN list : list[k] # b) => S = {}
  OBVIOUS
<1>2. ASSUME NEW k \in DOMAIN list, list[k] = b, \A j \in DOMAIN list : list[j] = b => j = k
      PROVE  S = {k}
  BY <1>2
<1>3. ASSUME NEW m \in Nat, DOMAIN list = 1..m PROVE Cardinality(S) \in Nat
  <2>1. IsFiniteSet(1..m)
    BY FS_Interval
  <2>2. IsFiniteSet(S)
    BY <1>3, <2>1, FS_Subset
  <2> QED
    BY <2>2, FS_CardinalityType
<1>4. Times(list, b) = Cardinality(S)
  BY DEF Times
<1> HIDE DEF S
<1>5. Cardinality({}) = 0 /\ \A k : Cardinality({k}) = 1
  BY FS_EmptySet, FS_Singleton
<1> QED
  BY <1>1, <1>2, <1>3, <1>4, <1>5

\* What a list names once, it names.
LEMMA NamedOnce ==
  ASSUME NEW list, NEW b, Times(list, b) = 1
  PROVE  \E k \in DOMAIN list : list[k] = b
<1>1. ~(\A k \in DOMAIN list : list[k] # b)
  BY TimesNamed
<1> QED
  BY <1>1

-----------------------------------------------------------------------------
(* What elements do to the rings                                           *)

Ring ==
  [base : [slot : Slot, off : Nat], size : Nat, silence : {0, 1},
   flags : {"none", "shared", "shared_user"}, shared_id : Nat, read : Nat, write : Nat]

IsRing(buf) == buf \in Ring /\ buf.read < Wrap(buf.size) /\ buf.write < Wrap(buf.size)

PipelineFields == {"cfg", "buffer", "memory", "started"}

Rings(table) ==
  \A q \in DOMAIN table :
    DOMAIN table[q] = PipelineFields /\ \A b \in DOMAIN table[q].buffer : IsRing(table[q].buffer[b])

\* A ring is left where it is.
Turns(old, new) ==
  /\ IsRing(new)
  /\ new.base = old.base /\ new.size = old.size /\ new.silence = old.silence
  /\ new.flags = old.flags /\ new.shared_id = old.shared_id

\* All pipelines stay as they are but for memory, and the one in slot p turns its
\* rings and starts its elements.
KeepsTable(table, new, p) ==
  /\ DOMAIN new = DOMAIN table
  /\ \A q \in DOMAIN table :
       /\ DOMAIN new[q] = PipelineFields
       /\ new[q].cfg = table[q].cfg
       /\ DOMAIN new[q].memory = DOMAIN table[q].memory
       /\ DOMAIN new[q].buffer = DOMAIN table[q].buffer
       /\ \A b \in DOMAIN table[q].buffer : Turns(table[q].buffer[b], new[q].buffer[b])
       /\ q # p => new[q].buffer = table[q].buffer

LEMMA KeepsTwice ==
  ASSUME NEW table, NEW mid, NEW new, NEW p, KeepsTable(table, mid, p), KeepsTable(mid, new, p)
  PROVE  KeepsTable(table, new, p)
<1> SUFFICES ASSUME NEW q \in DOMAIN table
             PROVE  /\ DOMAIN new = DOMAIN table
                    /\ DOMAIN new[q] = PipelineFields
                    /\ new[q].cfg = table[q].cfg
                    /\ DOMAIN new[q].memory = DOMAIN table[q].memory
                    /\ DOMAIN new[q].buffer = DOMAIN table[q].buffer
                    /\ \A b \in DOMAIN table[q].buffer : Turns(table[q].buffer[b], new[q].buffer[b])
                    /\ q # p => new[q].buffer = table[q].buffer
  BY DEF KeepsTable
<1>1. DOMAIN mid = DOMAIN table /\ DOMAIN new = DOMAIN mid
  BY DEF KeepsTable
<1>2. /\ DOMAIN new[q] = PipelineFields
      /\ new[q].cfg = table[q].cfg
      /\ DOMAIN new[q].memory = DOMAIN table[q].memory
      /\ DOMAIN mid[q].buffer = DOMAIN table[q].buffer
      /\ DOMAIN new[q].buffer = DOMAIN mid[q].buffer
      /\ q # p => new[q].buffer = table[q].buffer
      /\ \A b \in DOMAIN table[q].buffer : Turns(table[q].buffer[b], mid[q].buffer[b])
      /\ \A b \in DOMAIN table[q].buffer : Turns(mid[q].buffer[b], new[q].buffer[b])
  BY <1>1 DEF KeepsTable
<1>3. \A b \in DOMAIN table[q].buffer : Turns(table[q].buffer[b], new[q].buffer[b])
  BY <1>2 DEF Turns
<1> QED
  BY <1>1, <1>2, <1>3

LEMMA KeepsRings ==
  ASSUME NEW table, NEW new, NEW p, KeepsTable(table, new, p)
  PROVE  Rings(new)
  BY DEF KeepsTable, Rings, Turns

LEMMA SetIndices ==
  ASSUME NEW buf, IsRing(buf), NEW r \in 0..Wrap(buf.size)-1
  PROVE  /\ Turns(buf, [buf EXCEPT !.read = r])
         /\ [buf EXCEPT !.read = r].read = r /\ [buf EXCEPT !.read = r].write = buf.write
         /\ Turns(buf, [buf EXCEPT !.write = r])
         /\ [buf EXCEPT !.write = r].write = r /\ [buf EXCEPT !.write = r].read = buf.read
<1>1. Wrap(buf.size) \in Nat \ {0}
  BY WrapBounds DEF IsRing, Ring
<1>2. r \in Nat /\ r < Wrap(buf.size)
  BY <1>1
<1>3. buf \in Ring /\ buf.read < Wrap(buf.size) /\ buf.write < Wrap(buf.size)
  BY DEF IsRing
<1> DEFINE a == [buf EXCEPT !.read = r]
           b == [buf EXCEPT !.write = r]
<1>4. /\ a \in Ring /\ a.read = r /\ a.write = buf.write /\ a.base = buf.base /\ a.size = buf.size
      /\ a.silence = buf.silence /\ a.flags = buf.flags /\ a.shared_id = buf.shared_id
  BY <1>2, <1>3 DEF Ring
<1>5. /\ b \in Ring /\ b.write = r /\ b.read = buf.read /\ b.base = buf.base /\ b.size = buf.size
      /\ b.silence = buf.silence /\ b.flags = buf.flags /\ b.shared_id = buf.shared_id
  BY <1>2, <1>3 DEF Ring
<1> HIDE DEF a, b
<1>6. Turns(buf, a) /\ Turns(buf, b)
  BY <1>2, <1>3, <1>4, <1>5 DEF Turns, IsRing
<1> QED
  BY <1>4, <1>5, <1>6 DEF a, b

LEMMA UpdatedRings ==
  ASSUME NEW buf, IsRing(buf), NEW n \in Nat
  PROVE  /\ Turns(buf, ReadUpdate(buf, n))
         /\ ReadUpdate(buf, n).read = (buf.read + n) % Wrap(buf.size)
         /\ ReadUpdate(buf, n).write = buf.write
         /\ Turns(buf, WriteUpdate(buf, n))
         /\ WriteUpdate(buf, n).write = (buf.write + n) % Wrap(buf.size)
         /\ WriteUpdate(buf, n).read = buf.read
         /\ Turns(buf, WriteHead(buf, n))
         /\ WriteHead(buf, n).read = (buf.read - n) % Wrap(buf.size)
         /\ WriteHead(buf, n).write = buf.write
<1>1. /\ Wrap(buf.size) \in Nat \ {0}
      /\ buf.read \in Nat /\ buf.write \in Nat
  BY WrapBounds DEF IsRing, Ring
<1>0. buf.read + n \in Int /\ buf.write + n \in Int /\ buf.read - n \in Int
  BY <1>1
<1>2. /\ (buf.read + n) % Wrap(buf.size) \in 0..Wrap(buf.size)-1
      /\ (buf.write + n) % Wrap(buf.size) \in 0..Wrap(buf.size)-1
      /\ (buf.read - n) % Wrap(buf.size) \in 0..Wrap(buf.size)-1
  BY <1>0, <1>1, ModType
<1>3. /\ ReadUpdate(buf, n) = [buf EXCEPT !.read = (buf.read + n) % Wrap(buf.size)]
      /\ WriteUpdate(buf, n) = [buf EXCEPT !.write = (buf.write + n) % Wrap(buf.size)]
      /\ WriteHead(buf, n) = [buf EXCEPT !.read = (buf.read - n) % Wrap(buf.size)]
  BY DEF ReadUpdate, WriteUpdate, WriteHead
<1> DEFINE rd == (buf.read + n) % Wrap(buf.size)
           wr == (buf.write + n) % Wrap(buf.size)
           hd == (buf.read - n) % Wrap(buf.size)
<1> HIDE DEF rd, wr, hd
<1>4. /\ Turns(buf, [buf EXCEPT !.read = rd])
      /\ [buf EXCEPT !.read = rd].read = rd /\ [buf EXCEPT !.read = rd].write = buf.write
      /\ Turns(buf, [buf EXCEPT !.write = wr])
      /\ [buf EXCEPT !.write = wr].write = wr /\ [buf EXCEPT !.write = wr].read = buf.read
      /\ Turns(buf, [buf EXCEPT !.read = hd])
      /\ [buf EXCEPT !.read = hd].read = hd /\ [buf EXCEPT !.read = hd].write = buf.write
  <2>1. rd \in 0..Wrap(buf.size)-1 /\ wr \in 0..Wrap(buf.size)-1 /\ hd \in 0..Wrap(buf.size)-1
    BY <1>2 DEF rd, wr, hd
  <2> QED
    BY <2>1, SetIndices
<1> QED
  BY <1>3, <1>4 DEF rd, wr, hd

\* Storing changes the memory only.
Stored(table, cells, age, q) ==
  [c \in DOMAIN table[q].memory |-> IF <<q, c>> \in cells THEN age ELSE table[q].memory[c]]

SetsMemory(table, new, cells, age) ==
  /\ DOMAIN new = DOMAIN table
  /\ \A q \in DOMAIN table :
       /\ DOMAIN new[q] = PipelineFields
       /\ new[q].cfg = table[q].cfg
       /\ new[q].buffer = table[q].buffer
       /\ new[q].started = table[q].started
       /\ new[q].memory = Stored(table, cells, age, q)

LEMMA StoreStep ==
  ASSUME NEW table, Rings(table), NEW cells, NEW age
  PROVE  SetsMemory(table, Store(table, cells, age), cells, age)
<1> DEFINE M(q) == [c \in DOMAIN table[q].memory |->
                     IF <<q, c>> \in cells THEN age ELSE table[q].memory[c]]
<1>1. Store(table, cells, age) = [q \in DOMAIN table |-> [table[q] EXCEPT !.memory = M(q)]]
  BY DEF Store
<1>2. ASSUME NEW q \in DOMAIN table
      PROVE  LET m == M(q) IN
             /\ DOMAIN [table[q] EXCEPT !.memory = m] = PipelineFields
             /\ [table[q] EXCEPT !.memory = m].cfg = table[q].cfg
             /\ [table[q] EXCEPT !.memory = m].buffer = table[q].buffer
             /\ [table[q] EXCEPT !.memory = m].started = table[q].started
             /\ [table[q] EXCEPT !.memory = m].memory = m
  <2>1. DOMAIN table[q] = PipelineFields
    BY DEF Rings
  <2> HIDE DEF M
  <2> QED
    BY <2>1 DEF PipelineFields
<1> HIDE DEF M
<1>3. \A q \in DOMAIN table :
              /\ DOMAIN Store(table, cells, age)[q] = PipelineFields
              /\ Store(table, cells, age)[q].cfg = table[q].cfg
              /\ Store(table, cells, age)[q].buffer = table[q].buffer
              /\ Store(table, cells, age)[q].started = table[q].started
              /\ Store(table, cells, age)[q].memory = M(q)
  BY <1>1, <1>2
<1> QED
  BY <1>1, <1>3 DEF M, SetsMemory, Stored

\* The rings of one pipeline are replaced.
SetsRings(table, new, p, buffer) ==
  /\ DOMAIN new = DOMAIN table
  /\ \A q \in DOMAIN table : q # p => new[q] = table[q]
  /\ DOMAIN new[p] = PipelineFields
  /\ new[p].cfg = table[p].cfg /\ new[p].memory = table[p].memory
  /\ new[p].started = table[p].started /\ new[p].buffer = buffer

LEMMA SetBuffers ==
  ASSUME NEW table, NEW p \in DOMAIN table, DOMAIN table[p] = PipelineFields, NEW buffer
  PROVE  SetsRings(table, [table EXCEPT ![p].buffer = buffer], p, buffer)
BY DEF PipelineFields, SetsRings

\* The rings that a list names are read.
ReadsList(table, new, p, list) ==
  /\ KeepsTable(table, new, p)
  /\ \A q \in DOMAIN table : new[q].memory = table[q].memory /\ new[q].started = table[q].started
  /\ \A b \in DOMAIN table[p].buffer :
       LET buf == table[p].buffer[b] IN
       /\ new[p].buffer[b].read = (buf.read + Times(list, b)) % Wrap(buf.size)
       /\ new[p].buffer[b].write = buf.write

LEMMA ReadAllStep ==
  ASSUME NEW table, Rings(table), NEW p \in DOMAIN table, NEW list, IsArray(list)
  PROVE  ReadsList(table, ReadAll(table, p, list), p, list)
<1> DEFINE buffer == [b \in DOMAIN table[p].buffer |-> ReadUpdate(table[p].buffer[b], Times(list, b))]
           new == [table EXCEPT ![p].buffer = buffer]
<1>1. ReadAll(table, p, list) = new
  BY DEF ReadAll
<1>2. ASSUME NEW b \in DOMAIN table[p].buffer
      PROVE  /\ Turns(table[p].buffer[b], buffer[b])
             /\ buffer[b].read = (table[p].buffer[b].read + Times(list, b)) % Wrap(table[p].buffer[b].size)
             /\ buffer[b].write = table[p].buffer[b].write
  <2>1. IsRing(table[p].buffer[b]) /\ Times(list, b) \in Nat
    BY TimesNamed DEF Rings, IsArray
  <2> QED
    BY <2>1, UpdatedRings
<1>3. DOMAIN buffer = DOMAIN table[p].buffer
  OBVIOUS
<1> HIDE DEF buffer
<1>4. /\ DOMAIN new = DOMAIN table
      /\ \A q \in DOMAIN table : q # p => new[q] = table[q]
      /\ DOMAIN new[p] = PipelineFields
      /\ new[p].cfg = table[p].cfg /\ new[p].memory = table[p].memory
      /\ new[p].started = table[p].started /\ new[p].buffer = buffer
  BY SetBuffers DEF Rings, SetsRings
<1> HIDE DEF new
<1>5. ASSUME NEW q \in DOMAIN table, q # p, NEW b \in DOMAIN table[q].buffer
      PROVE  Turns(table[q].buffer[b], new[q].buffer[b])
  BY <1>4, <1>5 DEF Rings, Turns
<1>6. KeepsTable(table, new, p)
  BY <1>2, <1>3, <1>4, <1>5 DEF KeepsTable, Rings
<1>7. ReadsList(table, new, p, list)
  BY <1>2, <1>4, <1>6 DEF ReadsList
<1> QED
  BY <1>1, <1>7

LEMMA StoreAndTurn ==
  ASSUME NEW table, Rings(table), NEW p \in DOMAIN table, NEW cells, NEW age, NEW buffer,
         DOMAIN buffer = DOMAIN table[p].buffer,
         \A b \in DOMAIN buffer : Turns(table[p].buffer[b], buffer[b]),
         NEW new, SetsRings(Store(table, cells, age), new, p, buffer)
  PROVE  /\ KeepsTable(table, new, p)
         /\ \A q \in DOMAIN table : /\ new[q].memory = Stored(table, cells, age, q)
                                    /\ new[q].started = table[q].started
         /\ new[p].buffer = buffer
<1> DEFINE mid == Store(table, cells, age)
<1>1. /\ DOMAIN mid = DOMAIN table
      /\ \A q \in DOMAIN table :
           /\ DOMAIN mid[q] = PipelineFields /\ mid[q].cfg = table[q].cfg
           /\ mid[q].buffer = table[q].buffer /\ mid[q].started = table[q].started
           /\ mid[q].memory = Stored(table, cells, age, q)
  BY StoreStep DEF SetsMemory
<1>2. /\ DOMAIN new = DOMAIN mid
      /\ \A q \in DOMAIN mid : q # p => new[q] = mid[q]
      /\ DOMAIN new[p] = PipelineFields
      /\ new[p].cfg = mid[p].cfg /\ new[p].memory = mid[p].memory
      /\ new[p].started = mid[p].started /\ new[p].buffer = buffer
  BY DEF SetsRings
<1> HIDE DEF mid
<1>3. ASSUME NEW q \in DOMAIN table
      PROVE  /\ new[q].memory = Stored(table, cells, age, q) /\ new[q].started = table[q].started
             /\ DOMAIN new[q] = PipelineFields /\ new[q].cfg = table[q].cfg
             /\ q # p => new[q].buffer = table[q].buffer
  BY <1>1, <1>2
<1>4. ASSUME NEW q \in DOMAIN table, NEW b \in DOMAIN table[q].buffer
      PROVE  DOMAIN new[q].buffer = DOMAIN table[q].buffer /\ Turns(table[q].buffer[b], new[q].buffer[b])
  <2>1. CASE q = p
    BY <1>2, <2>1
  <2>2. CASE q # p
    BY <1>3, <2>2 DEF Rings, Turns
  <2> QED
    BY <2>1, <2>2
<1>5. ASSUME NEW q \in DOMAIN table
      PROVE  DOMAIN new[q].memory = DOMAIN table[q].memory /\ DOMAIN new[q].buffer = DOMAIN table[q].buffer
  BY <1>2, <1>3 DEF Stored
<1>6. KeepsTable(table, new, p)
  BY <1>1, <1>2, <1>3, <1>4, <1>5 DEF KeepsTable
<1> QED
  BY <1>2, <1>3, <1>6

\* The rings that a list names are written.
WritesList(table, new, p, list) ==
  LET cells == {Cell(table[p].buffer[b], table[p].buffer[b].write) : b \in Range(list)} IN
  /\ KeepsTable(table, new, p)
  /\ \A q \in DOMAIN table : /\ new[q].memory = Stored(table, cells, "now", q)
                             /\ new[q].started = table[q].started
  /\ \A b \in DOMAIN table[p].buffer :
       LET buf == table[p].buffer[b] IN
       /\ new[p].buffer[b].write = (buf.write + Times(list, b)) % Wrap(buf.size)
       /\ new[p].buffer[b].read = buf.read

LEMMA WriteAllStep ==
  ASSUME NEW table, Rings(table), NEW p \in DOMAIN table, NEW list, IsArray(list)
  PROVE  WritesList(table, WriteAll(table, p, list), p, list)
<1> DEFINE cells == {Cell(table[p].buffer[b], table[p].buffer[b].write) : b \in Range(list)}
           mid == Store(table, cells, "now")
           buffer == [b \in DOMAIN table[p].buffer |-> WriteUpdate(table[p].buffer[b], Times(list, b))]
           new == [Store(table, cells, "now") EXCEPT ![p].buffer = buffer]
<1>1. mid[p].buffer = table[p].buffer
  <2> HIDE DEF cells
  <2>1. \A q \in DOMAIN table : mid[q].buffer = table[q].buffer /\ mid[q].memory = Stored(table, cells, "now", q)
    BY StoreStep DEF SetsMemory
  <2> HIDE DEF mid
  <2> QED
    BY <2>1
<1>2. WriteAll(table, p, list) = new
  <2>1. WriteAll(table, p, list) =
          [mid EXCEPT ![p].buffer = [b \in DOMAIN mid[p].buffer |-> WriteUpdate(mid[p].buffer[b], Times(list, b))]]
    BY DEF WriteAll
  <2>2. [b \in DOMAIN mid[p].buffer |-> WriteUpdate(mid[p].buffer[b], Times(list, b))] = buffer
    <3> HIDE DEF mid
    <3> QED
      BY <1>1
  <2> HIDE DEF buffer
  <2>3. new = [mid EXCEPT ![p].buffer = buffer]
    OBVIOUS
  <2> HIDE DEF mid, new
  <2> QED
    BY <2>1, <2>2, <2>3
<1> HIDE DEF mid
<1>3. ASSUME NEW b \in DOMAIN table[p].buffer
      PROVE  /\ Turns(table[p].buffer[b], buffer[b])
             /\ buffer[b].write = (table[p].buffer[b].write + Times(list, b)) % Wrap(table[p].buffer[b].size)
             /\ buffer[b].read = table[p].buffer[b].read
  <2>1. IsRing(table[p].buffer[b]) /\ Times(list, b) \in Nat
    BY TimesNamed DEF Rings, IsArray
  <2> QED
    BY <2>1, UpdatedRings
<1>4. DOMAIN buffer = DOMAIN table[p].buffer
  OBVIOUS
<1>. \A b \in DOMAIN buffer : Turns(table[p].buffer[b], buffer[b])
  BY <1>3
<1> HIDE DEF buffer, cells
<1>6. SetsRings(Store(table, cells, "now"), new, p, buffer)
  <2> DEFINE store == Store(table, cells, "now")
  <2>1. p \in DOMAIN store /\ DOMAIN store[p] = PipelineFields
    BY StoreStep DEF SetsMemory
  <2> HIDE DEF store
  <2>2. SetsRings(store, [store EXCEPT ![p].buffer = buffer], p, buffer)
    BY <2>1, SetBuffers
  <2> QED
    BY <2>2 DEF store
<1> HIDE DEF new
<1>5. /\ KeepsTable(table, new, p)
      /\ \A q \in DOMAIN table : new[q].memory = Stored(table, cells, "now", q) /\ new[q].started = table[q].started
      /\ new[p].buffer = buffer
  BY <1>3, <1>4, <1>6, StoreAndTurn
<1>7. WritesList(table, new, p, list)
  BY <1>3, <1>5 DEF cells, WritesList
<1> QED
  BY <1>2, <1>7

\* Silence is put before the samples of the rings that a list names.
PutsSilence(table, new, p, list) ==
  \E cells :
    /\ \A cell \in cells : \E b \in Range(list) : \E k \in 0..Times(list, b)-1 :
         /\ Times(list, b) > 0
         /\ LET buf == WriteHead(table[p].buffer[b], Times(list, b))
            IN  cell = Cell(buf, (buf.read + k) % Wrap(buf.size))
    /\ KeepsTable(table, new, p)
    /\ \A q \in DOMAIN table : /\ new[q].memory = Stored(table, cells, "head", q)
                               /\ new[q].started = table[q].started
    /\ \A b \in DOMAIN table[p].buffer :
         LET buf == table[p].buffer[b] IN
         /\ new[p].buffer[b].read = (buf.read - Times(list, b)) % Wrap(buf.size)
         /\ new[p].buffer[b].write = buf.write

LEMMA WriteSilenceAllStep ==
  ASSUME NEW table, Rings(table), NEW p \in DOMAIN table, NEW list, IsArray(list),
         Range(list) \subseteq DOMAIN table[p].buffer
  PROVE  PutsSilence(table, WriteSilenceAll(table, p, list), p, list)
<1> DEFINE buffer == [b \in DOMAIN table[p].buffer |-> WriteHead(table[p].buffer[b], Times(list, b))]
           Silence(b) == {Cell(buffer[b], (buffer[b].read + k) % Wrap(buffer[b].size)) :
                            k \in 0..Times(list, b)-1}
           cells == UNION {Silence(b) : b \in Range(list)}
           new == [Store(table, cells, "head") EXCEPT ![p].buffer = buffer]
<1>1. WriteSilenceAll(table, p, list) = new
  BY DEF WriteSilenceAll
<1>2. ASSUME NEW cell \in cells
      PROVE  \E b \in Range(list) : \E k \in 0..Times(list, b)-1 :
               /\ Times(list, b) > 0
               /\ LET buf == WriteHead(table[p].buffer[b], Times(list, b))
                  IN  cell = Cell(buf, (buf.read + k) % Wrap(buf.size))
  <2>1. PICK b \in Range(list) : cell \in Silence(b)
    BY <1>2
  <2>2. PICK k \in 0..Times(list, b)-1 : cell = Cell(buffer[b], (buffer[b].read + k) % Wrap(buffer[b].size))
    BY <2>1
  <2>3. Times(list, b) \in Nat
    BY TimesNamed DEF IsArray
  <2>4. Times(list, b) > 0
    BY <2>3
  <2>5. buffer[b] = WriteHead(table[p].buffer[b], Times(list, b))
    OBVIOUS
  <2> HIDE DEF buffer
  <2> QED
    BY <2>2, <2>4, <2>5
<1>3. ASSUME NEW b \in DOMAIN table[p].buffer
      PROVE  /\ Turns(table[p].buffer[b], buffer[b])
             /\ buffer[b].read = (table[p].buffer[b].read - Times(list, b)) % Wrap(table[p].buffer[b].size)
             /\ buffer[b].write = table[p].buffer[b].write
  <2>1. IsRing(table[p].buffer[b]) /\ Times(list, b) \in Nat
    BY TimesNamed DEF Rings, IsArray
  <2> QED
    BY <2>1, UpdatedRings
<1>4. DOMAIN buffer = DOMAIN table[p].buffer
  OBVIOUS
<1>. \A b \in DOMAIN buffer : Turns(table[p].buffer[b], buffer[b])
  BY <1>3
<1> HIDE DEF buffer, cells
<1>6. SetsRings(Store(table, cells, "head"), new, p, buffer)
  <2> DEFINE store == Store(table, cells, "head")
  <2>1. p \in DOMAIN store /\ DOMAIN store[p] = PipelineFields
    BY StoreStep DEF SetsMemory
  <2> HIDE DEF store
  <2>2. SetsRings(store, [store EXCEPT ![p].buffer = buffer], p, buffer)
    BY <2>1, SetBuffers
  <2> QED
    BY <2>2 DEF store
<1> HIDE DEF new
<1>5. /\ KeepsTable(table, new, p)
      /\ \A q \in DOMAIN table : new[q].memory = Stored(table, cells, "head", q) /\ new[q].started = table[q].started
      /\ new[p].buffer = buffer
  BY <1>3, <1>4, <1>6, StoreAndTurn
<1>7. PutsSilence(table, new, p, list)
  BY <1>2, <1>3, <1>5 DEF PutsSilence
<1> QED
  BY <1>1, <1>7

\* Silence goes to the rings that a starting SAI sink reads, before the read index
\* of a ring that it reads once.
SilenceCell(table, p, e, cell) ==
  /\ table[p].cfg.element[e].type = "SAI_SINK"
  /\ LET list == table[p].cfg.element[e].input IN
     \E b \in Range(list) :
       LET buf == table[p].buffer[b] IN
       \E j \in 0..Wrap(buf.size)-1 :
         /\ cell = Cell(buf, j)
         /\ Times(list, b) = 1 => j = Before(buf.read, Wrap(buf.size))

ModBack ==
  \A wrap \in Nat \ {0} : \A r \in 0..wrap-1 : \A n \in {0, 1} :
    (((r - n) % wrap) + n) % wrap = r

LEMMA ThereAndBack == ModBack
<1> SUFFICES ASSUME NEW wrap \in Nat \ {0}, NEW r \in 0..wrap-1, NEW n \in {0, 1}
             PROVE  (((r - n) % wrap) + n) % wrap = r
  BY DEF ModBack
<1>1. CASE n = 0
  <2>1. r % wrap = r
    BY ModOnce
  <2>2. r - 0 = r /\ r + 0 = r
    OBVIOUS
  <2> QED
    BY <1>1, <2>1, <2>2
<1>2. CASE n = 1
  <2>1. (r - 1) % wrap = Before(r, wrap)
    BY ModOnce
  <2>2. Before(r, wrap) \in 0..wrap-1
    BY DEF Before
  <2>3. (Before(r, wrap) + 1) % wrap = After(Before(r, wrap), wrap)
    BY <2>2, ModOnce
  <2>4. After(Before(r, wrap), wrap) = r
    BY DEF Before, After
  <2> QED
    BY <1>2, <2>1, <2>3, <2>4
<1> QED
  BY <1>1, <1>2

\* A SAI sink fills its FIFO with silence, and its rings are as before, unless it
\* reads one of them twice.
FillsFifo(table, new, p, e, list) ==
  /\ KeepsTable(table, new, p)
  /\ \E cells :
       /\ \A cell \in cells : SilenceCell(table, p, e, cell)
       /\ \A q \in DOMAIN table : /\ new[q].memory = Stored(table, cells, "head", q)
                                  /\ new[q].started = table[q].started
  /\ \A b \in DOMAIN table[p].buffer :
       /\ new[p].buffer[b].write = table[p].buffer[b].write
       /\ Times(list, b) \in {0, 1} => new[p].buffer[b].read = table[p].buffer[b].read

LEMMA SilenceStep ==
  ASSUME NEW table, Rings(table), NEW p \in DOMAIN table, NEW e,
         NEW list, list = table[p].cfg.element[e].input, IsArray(list),
         Range(list) \subseteq DOMAIN table[p].buffer,
         table[p].cfg.element[e].type = "SAI_SINK"
  PROVE  FillsFifo(table, ReadAll(WriteSilenceAll(table, p, list), p, list), p, e, list)
<1> DEFINE mid == WriteSilenceAll(table, p, list)
           new == ReadAll(mid, p, list)
<1>0. PutsSilence(table, mid, p, list)
  BY WriteSilenceAllStep
<1> HIDE DEF mid
<1>1. PICK cells :
         /\ \A cell \in cells : \E b \in Range(list) : \E k \in 0..Times(list, b)-1 :
              /\ Times(list, b) > 0
              /\ LET buf == WriteHead(table[p].buffer[b], Times(list, b))
                 IN  cell = Cell(buf, (buf.read + k) % Wrap(buf.size))
         /\ KeepsTable(table, mid, p)
         /\ \A q \in DOMAIN table : /\ mid[q].memory = Stored(table, cells, "head", q)
                                    /\ mid[q].started = table[q].started
         /\ \A b \in DOMAIN table[p].buffer :
              LET buf == table[p].buffer[b] IN
              /\ mid[p].buffer[b].read = (buf.read - Times(list, b)) % Wrap(buf.size)
              /\ mid[p].buffer[b].write = buf.write
  BY <1>0 DEF PutsSilence
<1>3. Rings(mid) /\ p \in DOMAIN mid
  <2>1. Rings(mid)
    BY <1>1, KeepsRings
  <2> QED
    BY <1>1, <2>1 DEF KeepsTable
<1>4. /\ KeepsTable(mid, new, p)
      /\ \A q \in DOMAIN mid : new[q].memory = mid[q].memory /\ new[q].started = mid[q].started
      /\ \A b \in DOMAIN mid[p].buffer :
           LET buf == mid[p].buffer[b] IN
           /\ new[p].buffer[b].read = (buf.read + Times(list, b)) % Wrap(buf.size)
           /\ new[p].buffer[b].write = buf.write
  <2>1. ReadsList(mid, new, p, list)
    BY <1>3, ReadAllStep
  <2> HIDE DEF new
  <2> QED
    BY <2>1 DEF ReadsList
<1> HIDE DEF new
<1>5. KeepsTable(table, new, p)
  BY <1>1, <1>4, KeepsTwice
<1>6. \A cell \in cells : SilenceCell(table, p, e, cell)
  <2> SUFFICES ASSUME NEW cell \in cells PROVE SilenceCell(table, p, e, cell)
    OBVIOUS
  <2>1. PICK b \in Range(list) : \E k \in 0..Times(list, b)-1 :
          /\ Times(list, b) > 0
          /\ LET buf == WriteHead(table[p].buffer[b], Times(list, b))
             IN  cell = Cell(buf, (buf.read + k) % Wrap(buf.size))
    BY <1>1
  <2> DEFINE buf == WriteHead(table[p].buffer[b], Times(list, b))
  <2>2. PICK k \in 0..Times(list, b)-1 : cell = Cell(buf, (buf.read + k) % Wrap(buf.size))
    BY <2>1
  <2>3. Times(list, b) \in Nat /\ IsRing(table[p].buffer[b]) /\ k \in Int
    BY TimesNamed DEF IsArray, Rings
  <2>4. /\ Turns(table[p].buffer[b], buf)
        /\ buf.read = (table[p].buffer[b].read - Times(list, b)) % Wrap(table[p].buffer[b].size)
    BY <2>3, UpdatedRings
  <2> HIDE DEF buf
  <2>5. /\ Wrap(buf.size) \in Nat \ {0} /\ buf.read + k \in Int /\ buf.read \in 0..Wrap(buf.size)-1
        /\ buf.base = table[p].buffer[b].base /\ buf.size = table[p].buffer[b].size
    <3>1. IsRing(buf) /\ buf.base = table[p].buffer[b].base /\ buf.size = table[p].buffer[b].size
      BY <2>4 DEF Turns
    <3>2. Wrap(buf.size) \in Nat \ {0} /\ buf.read \in Nat /\ buf.read < Wrap(buf.size)
      BY <3>1, WrapBounds DEF IsRing, Ring
    <3> QED
      BY <2>3, <3>1, <3>2
  <2> DEFINE j == (buf.read + k) % Wrap(buf.size)
  <2>6. j \in 0..Wrap(table[p].buffer[b].size)-1
    BY <2>5, ModType
  <2>7. ASSUME Times(list, b) = 1
        PROVE  j = Before(table[p].buffer[b].read, Wrap(table[p].buffer[b].size))
    <3>1. table[p].buffer[b].read \in 0..Wrap(buf.size)-1
      <4>1. table[p].buffer[b].read \in Nat /\ table[p].buffer[b].read < Wrap(table[p].buffer[b].size)
        BY <2>3 DEF IsRing, Ring
      <4> QED
        BY <2>5, <4>1
    <3>2. buf.read = Before(table[p].buffer[b].read, Wrap(buf.size))
      BY <2>4, <2>5, <2>7, <3>1, ModOnce
    <3>3. k = 0
      BY <2>7
    <3>4. j = buf.read % Wrap(buf.size)
      BY <2>5, <3>3
    <3>5. j = buf.read
      BY <2>5, <3>4, ModOnce
    <3> QED
      BY <2>5, <3>2, <3>5
  <2> HIDE DEF j
  <2>8. cell = Cell(table[p].buffer[b], j)
    BY <2>2, <2>5 DEF Cell, j
  <2> QED
    BY <2>6, <2>7, <2>8 DEF SilenceCell
<1>7. \A q \in DOMAIN table : /\ new[q].memory = Stored(table, cells, "head", q)
                              /\ new[q].started = table[q].started
  <2>1. DOMAIN mid = DOMAIN table
    BY <1>1 DEF KeepsTable
  <2> QED
    BY <1>1, <1>4, <2>1
<1>8. ASSUME NEW b \in DOMAIN table[p].buffer
      PROVE  /\ new[p].buffer[b].write = table[p].buffer[b].write
             /\ Times(list, b) \in {0, 1} => new[p].buffer[b].read = table[p].buffer[b].read
  <2> DEFINE buf == table[p].buffer[b]
             wrap == Wrap(buf.size)
  <2>1. /\ mid[p].buffer[b].read = (buf.read - Times(list, b)) % wrap
        /\ mid[p].buffer[b].write = buf.write
    BY <1>1
  <2>2. b \in DOMAIN mid[p].buffer /\ mid[p].buffer[b].size = buf.size
    BY <1>1 DEF KeepsTable, Turns
  <2>3. /\ new[p].buffer[b].read = (mid[p].buffer[b].read + Times(list, b)) % wrap
        /\ new[p].buffer[b].write = mid[p].buffer[b].write
    BY <1>4, <2>2
  <2>4. wrap \in Nat \ {0} /\ buf.read \in 0..wrap-1
    <3>1. IsRing(buf)
      BY DEF Rings
    <3>2. wrap \in Nat \ {0} /\ buf.read \in Nat /\ buf.read < wrap
      BY <3>1, WrapBounds DEF IsRing, Ring
    <3> HIDE DEF wrap, buf
    <3> QED
      BY <3>2
  <2> HIDE DEF wrap, buf
  <2>5. ASSUME Times(list, b) \in {0, 1}
        PROVE  (((buf.read - Times(list, b)) % wrap) + Times(list, b)) % wrap = buf.read
    BY <2>4, <2>5, ThereAndBack DEF ModBack
  <2> QED
    BY <2>1, <2>3, <2>5 DEF buf
<1>9. FillsFifo(table, new, p, e, list)
  BY <1>5, <1>6, <1>7, <1>8 DEF FillsFifo
<1> QED
  BY <1>9 DEF new, mid

\* An element of the pipeline in slot p starts or stops.
SetsStarted(table, new, p) ==
  /\ DOMAIN new = DOMAIN table
  /\ \A q \in DOMAIN table :
       /\ DOMAIN new[q] = PipelineFields
       /\ new[q].cfg = table[q].cfg /\ new[q].memory = table[q].memory
       /\ new[q].buffer = table[q].buffer

LEMMA StartStep ==
  ASSUME NEW table, Rings(table), NEW p \in DOMAIN table, NEW e, NEW value
  PROVE  SetsStarted(table, [table EXCEPT ![p].started[e] = value], p)
<1> DEFINE started == [table[p].started EXCEPT ![e] = value]
           new == [table EXCEPT ![p].started = started]
<1>1. [table EXCEPT ![p].started[e] = value] = new
  OBVIOUS
<1> HIDE DEF started
<1>2. ASSUME NEW q \in DOMAIN table
      PROVE  /\ DOMAIN new[q] = PipelineFields
             /\ new[q].cfg = table[q].cfg /\ new[q].memory = table[q].memory
             /\ new[q].buffer = table[q].buffer
  BY DEF Rings, PipelineFields
<1>3. DOMAIN new = DOMAIN table
  OBVIOUS
<1> HIDE DEF new
<1> QED
  BY <1>1, <1>2, <1>3 DEF SetsStarted

\* Element e of the pipeline in slot p writes its outputs and releases its inputs.
Written(table, p, e) ==
  {Cell(table[p].buffer[b], table[p].buffer[b].write) : b \in Range(table[p].cfg.element[e].output)}

RunsElement(table, new, p, e) ==
  LET element == table[p].cfg.element[e] IN
  /\ KeepsTable(table, new, p)
  /\ \A b \in DOMAIN table[p].buffer :
       LET buf == table[p].buffer[b] IN
       /\ new[p].buffer[b].write = (buf.write + Times(element.output, b)) % Wrap(buf.size)
       /\ Times(element.input, b) \in {0, 1} =>
            new[p].buffer[b].read = (buf.read + Times(element.input, b)) % Wrap(buf.size)
  /\ \A q \in DOMAIN table : \A c \in DOMAIN table[q].memory :
       IF <<q, c>> \in Written(table, p, e) THEN new[q].memory[c] = "now"
       ELSE \/ SilenceCell(table, p, e, <<q, c>>) /\ new[q].memory[c] = "head"
            \/ new[q].memory[c] = table[q].memory[c]

LEMMA ElementRunStep ==
  ASSUME NEW table, Rings(table), NEW p \in DOMAIN table, NEW e,
         IsArray(table[p].cfg.element[e].input), IsArray(table[p].cfg.element[e].output),
         Range(table[p].cfg.element[e].input) \subseteq DOMAIN table[p].buffer,
         Range(table[p].cfg.element[e].output) \subseteq DOMAIN table[p].buffer
  PROVE  RunsElement(table, ElementRun(table, p, e), p, e)
<1> DEFINE element == table[p].cfg.element[e]
           starting == element.type = "SAI_SINK" /\ ~table[p].started[e]
           ready == IF starting THEN ReadAll(WriteSilenceAll(table, p, element.input), p, element.input)
                    ELSE table
           written == WriteAll(ready, p, element.output)
           read == ReadAll(written, p, element.input)
           new == [read EXCEPT ![p].started[e] = element.type \in SaiElement]
<1>1. ElementRun(table, p, e) = new
  BY DEF ElementRun
<1>2. /\ KeepsTable(table, ready, p)
      /\ \A q \in DOMAIN table : \A c \in DOMAIN table[q].memory :
           \/ SilenceCell(table, p, e, <<q, c>>) /\ ready[q].memory[c] = "head"
           \/ ready[q].memory[c] = table[q].memory[c]
      /\ \A b \in DOMAIN table[p].buffer :
           /\ ready[p].buffer[b].write = table[p].buffer[b].write
           /\ Times(element.input, b) \in {0, 1} => ready[p].buffer[b].read = table[p].buffer[b].read
  <2>1. CASE starting
    <3>1. ready = ReadAll(WriteSilenceAll(table, p, element.input), p, element.input)
      BY <2>1
    <3>2. element.type = "SAI_SINK"
      BY <2>1
    <3> DEFINE list == element.input
    <3>3. list = table[p].cfg.element[e].input /\ IsArray(list) /\ Range(list) \subseteq DOMAIN table[p].buffer
      OBVIOUS
    <3> HIDE DEF list
    <3>0. FillsFifo(table, ReadAll(WriteSilenceAll(table, p, list), p, list), p, e, list)
      BY <3>2, <3>3, SilenceStep
    <3>9. ready = ReadAll(WriteSilenceAll(table, p, list), p, list)
      BY <3>1 DEF list
    <3> HIDE DEF ready
    <3>4. /\ KeepsTable(table, ready, p)
          /\ \E cells :
               /\ \A cell \in cells : SilenceCell(table, p, e, cell)
               /\ \A q \in DOMAIN table : /\ ready[q].memory = Stored(table, cells, "head", q)
                                          /\ ready[q].started = table[q].started
          /\ \A b \in DOMAIN table[p].buffer :
               /\ ready[p].buffer[b].write = table[p].buffer[b].write
               /\ Times(list, b) \in {0, 1} => ready[p].buffer[b].read = table[p].buffer[b].read
      BY <3>0, <3>9 DEF FillsFifo
    <3>5. PICK cells :
            /\ \A cell \in cells : SilenceCell(table, p, e, cell)
            /\ \A q \in DOMAIN table : ready[q].memory = Stored(table, cells, "head", q)
      BY <3>4
    <3>6. ASSUME NEW q \in DOMAIN table, NEW c \in DOMAIN table[q].memory
          PROVE  \/ SilenceCell(table, p, e, <<q, c>>) /\ ready[q].memory[c] = "head"
                 \/ ready[q].memory[c] = table[q].memory[c]
      BY <3>5 DEF Stored
    <3> QED
      BY <3>4, <3>6 DEF list
  <2>2. CASE ~starting
    <3>1. ready = table
      BY <2>2
    <3>2. KeepsTable(table, table, p)
      BY DEF KeepsTable, Rings, Turns
    <3> HIDE DEF ready
    <3> QED
      BY <3>1, <3>2
  <2> QED
    BY <2>1, <2>2
<1> HIDE DEF ready
<1>3. Rings(ready) /\ DOMAIN ready = DOMAIN table /\ IsArray(element.output) /\ IsArray(element.input)
  <2>1. Rings(ready)
    BY <1>2, KeepsRings
  <2> QED
    BY <1>2, <2>1 DEF KeepsTable
<1> DEFINE outlist == element.output
           inlist == element.input
           cells == {Cell(ready[p].buffer[b], ready[p].buffer[b].write) : b \in Range(outlist)}
<1>4. /\ KeepsTable(ready, written, p)
      /\ \A q \in DOMAIN ready : written[q].memory = Stored(ready, cells, "now", q)
      /\ \A b \in DOMAIN ready[p].buffer :
           LET buf == ready[p].buffer[b] IN
           /\ written[p].buffer[b].write = (buf.write + Times(outlist, b)) % Wrap(buf.size)
           /\ written[p].buffer[b].read = buf.read
  <2>1. WritesList(ready, written, p, outlist)
    BY <1>3, WriteAllStep
  <2> HIDE DEF written
  <2> QED
    BY <2>1 DEF WritesList
<1> HIDE DEF written
<1>5. Rings(written) /\ DOMAIN written = DOMAIN table
  <2>1. Rings(written)
    BY <1>4, KeepsRings
  <2> QED
    BY <1>3, <1>4, <2>1 DEF KeepsTable
<1>6. /\ KeepsTable(written, read, p)
      /\ \A q \in DOMAIN written : read[q].memory = written[q].memory
      /\ \A b \in DOMAIN written[p].buffer :
           LET buf == written[p].buffer[b] IN
           /\ read[p].buffer[b].read = (buf.read + Times(inlist, b)) % Wrap(buf.size)
           /\ read[p].buffer[b].write = buf.write
  <2>1. ReadsList(written, read, p, inlist)
    BY <1>3, <1>5, ReadAllStep
  <2> HIDE DEF read
  <2> QED
    BY <2>1 DEF ReadsList
<1> HIDE DEF read
<1>7. Rings(read) /\ DOMAIN read = DOMAIN table
  <2>1. Rings(read)
    BY <1>6, KeepsRings
  <2> QED
    BY <1>5, <1>6, <2>1 DEF KeepsTable
<1>8. SetsStarted(read, new, p)
  BY <1>7, StartStep
<1> HIDE DEF new
<1>9. KeepsTable(table, read, p)
  BY <1>2, <1>4, <1>6, KeepsTwice
<1>10. KeepsTable(table, new, p)
  BY <1>8, <1>9 DEF SetsStarted, KeepsTable
<1> HIDE DEF outlist, inlist
<1>11. cells = Written(table, p, e)
  <2>1. ASSUME NEW b \in Range(outlist)
        PROVE  Cell(ready[p].buffer[b], ready[p].buffer[b].write) = Cell(table[p].buffer[b], table[p].buffer[b].write)
    <3>1. b \in DOMAIN table[p].buffer
      BY DEF outlist
    <3>2. ready[p].buffer[b].base = table[p].buffer[b].base /\ ready[p].buffer[b].write = table[p].buffer[b].write
      BY <1>2, <3>1 DEF KeepsTable, Turns
    <3> QED
      BY <3>2 DEF Cell
  <2> QED
    BY <2>1 DEF Written, outlist
<1> HIDE DEF cells
<1>12. ASSUME NEW b \in DOMAIN table[p].buffer
       PROVE  LET buf == table[p].buffer[b] IN
              /\ new[p].buffer[b].write = (buf.write + Times(outlist, b)) % Wrap(buf.size)
              /\ Times(inlist, b) \in {0, 1} =>
                   new[p].buffer[b].read = (buf.read + Times(inlist, b)) % Wrap(buf.size)
  <2>1. /\ ready[p].buffer[b].write = table[p].buffer[b].write
        /\ Times(inlist, b) \in {0, 1} => ready[p].buffer[b].read = table[p].buffer[b].read
    BY <1>2 DEF inlist
  <2>2. b \in DOMAIN ready[p].buffer /\ ready[p].buffer[b].size = table[p].buffer[b].size
    BY <1>2 DEF KeepsTable, Turns
  <2>3. b \in DOMAIN written[p].buffer /\ written[p].buffer[b].size = table[p].buffer[b].size
    BY <1>3, <1>4, <2>2 DEF KeepsTable, Turns
  <2>4. /\ written[p].buffer[b].write = (ready[p].buffer[b].write + Times(outlist, b)) % Wrap(table[p].buffer[b].size)
        /\ written[p].buffer[b].read = ready[p].buffer[b].read
    BY <1>4, <2>2
  <2>5. /\ read[p].buffer[b].read = (written[p].buffer[b].read + Times(inlist, b)) % Wrap(table[p].buffer[b].size)
        /\ read[p].buffer[b].write = written[p].buffer[b].write
    BY <1>6, <2>3
  <2>6. new[p].buffer[b] = read[p].buffer[b]
    BY <1>7, <1>8 DEF SetsStarted
  <2> QED
    BY <2>1, <2>4, <2>5, <2>6
<1>13. ASSUME NEW q \in DOMAIN table, NEW c \in DOMAIN table[q].memory
       PROVE  IF <<q, c>> \in Written(table, p, e) THEN new[q].memory[c] = "now"
              ELSE \/ SilenceCell(table, p, e, <<q, c>>) /\ new[q].memory[c] = "head"
                   \/ new[q].memory[c] = table[q].memory[c]
  <2>1. new[q].memory = written[q].memory
    BY <1>5, <1>6, <1>7, <1>8 DEF SetsStarted
  <2>2. written[q].memory = Stored(ready, cells, "now", q)
    BY <1>3, <1>4
  <2>3. c \in DOMAIN ready[q].memory
    BY <1>2 DEF KeepsTable
  <2>4. written[q].memory[c] = IF <<q, c>> \in cells THEN "now" ELSE ready[q].memory[c]
    BY <2>2, <2>3 DEF Stored
  <2> QED
    BY <1>2, <1>11, <2>1, <2>4
<1> QED
  BY <1>1, <1>10, <1>12, <1>13 DEF RunsElement, inlist, outlist

-----------------------------------------------------------------------------
(* Configurations with the defaults filled in                              *)

LEMMA FunctionIsArray ==
  ASSUME NEW n \in Nat, NEW f, f = [k \in 1..n |-> f[k]]
  PROVE  IsArray(f) /\ DOMAIN f = 1..n
<1> DEFINE S == {f[k] : k \in 1..n}
<1>1. f \in [1..n -> S]
  OBVIOUS
<1>2. f \in Seq(S)
  BY <1>1, SeqDef
<1>3. Len(f) \in Nat /\ DOMAIN f = 1..Len(f)
  BY <1>2, LenProperties
<1> QED
  BY <1>1, <1>3 DEF IsArray

\* What the code relies on in a configuration.
Sound(cfg) ==
  /\ \E n \in Nat : DOMAIN cfg.element = 1..n
  /\ \A e \in DOMAIN cfg.element :
       /\ IsArray(cfg.element[e].input) /\ IsArray(cfg.element[e].output)
       /\ cfg.element[e].stage \in Nat /\ cfg.element[e].type \in ElementType
       /\ \A d \in 1..e : cfg.element[d].stage <= cfg.element[e].stage
  /\ IsTable(DOMAIN cfg.buffer) /\ IsTable(DOMAIN cfg.periods)
  /\ \A b \in DOMAIN cfg.buffer :
       /\ cfg.buffer[b].shared_id \in Nat
       /\ cfg.buffer[b].flags \in {"none", "shared", "shared_user"}
  /\ \A s \in DOMAIN cfg.periods : cfg.periods[s] \in Nat \ {0}

LEMMA NumberedIsArray ==
  ASSUME NEW list, IsArray(list)
  PROVE  IsArray(Numbered(list))
<1> DEFINE n == Numbered(list)
<1>1. DOMAIN n = 1..Len(list) /\ Len(list) \in Nat
  BY NumberedArray DEF IsArray
<1>2. n = [k \in 1..Len(list) |-> n[k]]
  BY NumberedArray DEF IsArray
<1> HIDE DEF n
<1> QED
  BY <1>1, <1>2, FunctionIsArray DEF n

LEMMA SetConfigSound ==
  ASSUME NEW c, WellFormed(c)
  PROVE  /\ Sound(SetConfig(c))
         /\ DOMAIN SetConfig(c).element = DOMAIN c.element
         /\ DOMAIN SetConfig(c).element = 1..Len(c.element) /\ Len(c.element) \in Nat
         /\ DOMAIN SetConfig(c).buffer = DOMAIN c.buffer
         /\ \A b \in DOMAIN c.buffer :
              /\ SetConfig(c).buffer[b].flags = c.buffer[b].flags
              /\ SetConfig(c).buffer[b].shared_id = c.buffer[b].shared_id
<1> DEFINE cfg == SetConfig(c)
           elements == [e \in DOMAIN c.element |->
                 [stage |-> c.element[e].stage, type |-> c.element[e].type,
                  input |-> Numbered(c.element[e].input), output |-> Numbered(c.element[e].output)]]
           buffers == [b \in DOMAIN c.buffer |->
                 [storage |-> SetStorage(c, b), flags |-> c.buffer[b].flags,
                  shared_id |-> c.buffer[b].shared_id]]
           periods == [s \in DOMAIN c.periods |->
                 IF c.periods[s] = 0 THEN STORAGE_DEFAULT_PERIODS ELSE c.periods[s]]
<1>1. cfg.element = elements /\ cfg.buffer = buffers /\ cfg.periods = periods
  BY DEF SetConfig
<1> HIDE DEF cfg
<1>2. DOMAIN c.element = 1..Len(c.element) /\ Len(c.element) \in Nat
  BY DEF WellFormed, IsArray
<1>3. ASSUME NEW e \in DOMAIN c.element
      PROVE  /\ IsArray(cfg.element[e].input) /\ IsArray(cfg.element[e].output)
             /\ cfg.element[e].stage = c.element[e].stage /\ cfg.element[e].type = c.element[e].type
  <2>1. IsArray(c.element[e].input) /\ IsArray(c.element[e].output)
    BY DEF WellFormed
  <2>2. IsArray(Numbered(c.element[e].input)) /\ IsArray(Numbered(c.element[e].output))
    BY <2>1, NumberedIsArray
  <2> QED
    BY <1>1, <2>2
<1>4. ASSUME NEW e \in DOMAIN c.element
      PROVE  /\ cfg.element[e].stage \in Nat /\ cfg.element[e].type \in ElementType
             /\ \A d \in 1..e : cfg.element[d].stage <= cfg.element[e].stage
  <2>1. \A d \in 1..e : d \in DOMAIN c.element
    BY <1>2
  <2>2. /\ c.element[e].stage \in Nat /\ c.element[e].type \in ElementType
        /\ \A d \in 1..e : c.element[d].stage <= c.element[e].stage
    BY DEF WellFormed
  <2> QED
    BY <1>3, <2>1, <2>2
<1>5. /\ DOMAIN cfg.buffer = DOMAIN c.buffer
      /\ \A b \in DOMAIN c.buffer :
           /\ cfg.buffer[b].flags = c.buffer[b].flags
           /\ cfg.buffer[b].shared_id = c.buffer[b].shared_id
  BY <1>1
<1>6. /\ IsTable(DOMAIN c.buffer) /\ IsTable(DOMAIN c.periods)
      /\ \A b \in DOMAIN c.buffer :
           /\ c.buffer[b].shared_id \in Nat
           /\ c.buffer[b].flags \in {"none", "shared", "shared_user"}
      /\ \A s \in DOMAIN c.periods : c.periods[s] \in Nat
  BY DEF WellFormed
<1>7. DOMAIN cfg.periods = DOMAIN c.periods /\ \A s \in DOMAIN c.periods : cfg.periods[s] \in Nat \ {0}
  BY <1>1, <1>6 DEF STORAGE_DEFAULT_PERIODS
<1>8. DOMAIN cfg.element = DOMAIN c.element
  BY <1>1
<1>9. Sound(cfg)
  BY <1>2, <1>3, <1>4, <1>5, <1>6, <1>7, <1>8 DEF Sound
<1> QED
  BY <1>2, <1>5, <1>8, <1>9 DEF cfg

\* Buffer b is passed from element o to element i, once, and to no other.
Carried(cfg, b, o, i) ==
  /\ o \in DOMAIN cfg.element /\ i \in DOMAIN cfg.element /\ o < i
  /\ \A e \in DOMAIN cfg.element :
       /\ Times(cfg.element[e].output, b) = IF e = o THEN 1 ELSE 0
       /\ Times(cfg.element[e].input, b) = IF e = i THEN 1 ELSE 0

LEMMA Referenced ==
  ASSUME NEW cfg, NEW b, Sound(cfg)
  PROVE  /\ \A r : r \in InputRefs(cfg, b) <=>
              \E e \in DOMAIN cfg.element : \E k \in DOMAIN cfg.element[e].input :
                r = <<e, k>> /\ cfg.element[e].input[k] = b
         /\ \A stage \in Nat : \A r : r \in OutputRefs(cfg, stage, b) <=>
              \E e \in DOMAIN cfg.element : \E k \in DOMAIN cfg.element[e].output :
                r = <<e, k>> /\ cfg.element[e].output[k] = b /\ cfg.element[e].stage >= stage
<1>1. ASSUME NEW r
      PROVE  r \in InputRefs(cfg, b) <=>
              \E e \in DOMAIN cfg.element : \E k \in DOMAIN cfg.element[e].input :
                r = <<e, k>> /\ cfg.element[e].input[k] = b
  BY DEF InputRefs
<1>2. ASSUME NEW stage \in Nat, NEW r
      PROVE  r \in OutputRefs(cfg, stage, b) <=>
              \E e \in DOMAIN cfg.element : \E k \in DOMAIN cfg.element[e].output :
                r = <<e, k>> /\ cfg.element[e].output[k] = b /\ cfg.element[e].stage >= stage
  BY DEF OutputRefs
<1> QED
  BY <1>1, <1>2

\* A buffer that the check has nothing to say about is carried from an element to a
\* later one.
LEMMA CarriedOnce ==
  ASSUME NEW cfg, NEW b \in DOMAIN cfg.buffer, Sound(cfg), ConfigCheck(cfg),
         ~Several(InputRefs(cfg, b)), InputRefs(cfg, b) # {}, OutputRefs(cfg, 0, b) # {}
  PROVE  \E o, i : Carried(cfg, b, o, i)
<1>1. ~Several(OutputRefs(cfg, 0, b)) /\ NoLoop(cfg)
  BY DEF ConfigCheck
<1>2. PICK i \in DOMAIN cfg.element : \E k \in DOMAIN cfg.element[i].input :
        cfg.element[i].input[k] = b /\ <<i, k>> \in InputRefs(cfg, b)
  BY Referenced
<1>3. PICK k \in DOMAIN cfg.element[i].input :
        cfg.element[i].input[k] = b /\ <<i, k>> \in InputRefs(cfg, b)
  BY <1>2
<1>4. PICK o \in DOMAIN cfg.element : \E m \in DOMAIN cfg.element[o].output :
        cfg.element[o].output[m] = b /\ <<o, m>> \in OutputRefs(cfg, 0, b)
  BY Referenced
<1>5. PICK m \in DOMAIN cfg.element[o].output :
        cfg.element[o].output[m] = b /\ <<o, m>> \in OutputRefs(cfg, 0, b)
  BY <1>4
<1>6. ASSUME NEW e \in DOMAIN cfg.element, NEW j \in DOMAIN cfg.element[e].input, cfg.element[e].input[j] = b
      PROVE  e = i /\ j = k
  <2>1. <<e, j>> \in InputRefs(cfg, b)
    BY <1>6, Referenced
  <2> QED
    BY <1>3, <2>1 DEF Several
<1>7. ASSUME NEW e \in DOMAIN cfg.element, NEW j \in DOMAIN cfg.element[e].output, cfg.element[e].output[j] = b
      PROVE  e = o /\ j = m
  <2>1. cfg.element[e].stage \in Nat
    BY DEF Sound
  <2>2. cfg.element[e].stage >= 0
    BY <2>1
  <2>3. <<e, j>> \in OutputRefs(cfg, 0, b)
    BY <1>7, <2>2, Referenced
  <2> QED
    BY <1>1, <1>5, <2>3 DEF Several
<1>8. o < i
  <2>1. o \in Nat /\ i \in Nat /\ i >= 1 /\ o >= 1
    BY DEF Sound
  <2>2. SUFFICES ASSUME i <= o PROVE FALSE
    BY <2>1
  <2>3. cfg.element[i].stage \in Nat /\ cfg.element[o].stage >= cfg.element[i].stage
    BY <2>1, <2>2 DEF Sound
  <2>4. <<o, m>> \in OutputRefs(cfg, cfg.element[i].stage, b)
    BY <1>5, <2>3, Referenced
  <2>5. b \in Range(cfg.element[i].input)
    BY <1>3 DEF Range
  <2> QED
    BY <1>1, <2>4, <2>5 DEF NoLoop
<1>9. ASSUME NEW e \in DOMAIN cfg.element
      PROVE  /\ Times(cfg.element[e].output, b) = IF e = o THEN 1 ELSE 0
             /\ Times(cfg.element[e].input, b) = IF e = i THEN 1 ELSE 0
  <2>1. Times(cfg.element[i].input, b) = 1
    BY <1>3, <1>6, TimesNamed
  <2>2. Times(cfg.element[o].output, b) = 1
    BY <1>5, <1>7, TimesNamed
  <2>3. e # i => Times(cfg.element[e].input, b) = 0
    BY <1>6, TimesNamed
  <2>4. e # o => Times(cfg.element[e].output, b) = 0
    BY <1>7, TimesNamed
  <2> QED
    BY <2>1, <2>2, <2>3, <2>4
<1> QED
  BY <1>8, <1>9 DEF Carried

-----------------------------------------------------------------------------
(* The pipeline table                                                      *)

\* The pipeline of configuration cfg in slot q.
MadeOf(pipeline, q, cfg) ==
  /\ pipeline.cfg = cfg /\ Sound(cfg) /\ ConfigCheck(cfg)
  /\ DOMAIN pipeline = PipelineFields
  /\ DOMAIN pipeline.buffer = DOMAIN cfg.buffer
  /\ DOMAIN pipeline.memory = 0..StorageSize(cfg)-1
  /\ \A b \in DOMAIN cfg.buffer :
       LET buf == pipeline.buffer[b] IN
       /\ IsRing(buf)
       /\ buf.flags = cfg.buffer[b].flags
       /\ buf.silence = IF buf.flags = "shared" THEN 1 ELSE 0
       /\ buf.flags # "none" => buf.shared_id = cfg.buffer[b].shared_id
       /\ buf.flags # "shared_user" =>
            /\ buf.base = [slot |-> q, off |-> StorageOff(cfg, cfg.buffer[b].storage)]
            /\ buf.size = cfg.periods[cfg.buffer[b].storage]

\* A ring has the storage of the shared buffer with an id in an earlier slot.
OnSharedBuffer(table, q, buf) ==
  \E p \in DOMAIN table : \E o \in DOMAIN table[p].buffer :
    /\ p < q
    /\ table[p].buffer[o].flags = "shared"
    /\ table[p].buffer[o].shared_id = buf.shared_id
    /\ buf.base = table[p].buffer[o].base
    /\ buf.size = table[p].buffer[o].size

\* The search finds a shared buffer when there is one before the first empty slot.
LEMMA SharedBufferFound ==
  ASSUME NEW table, NEW id, NEW u \in Slot, 0..u \subseteq DOMAIN table,
         \A p \in Slot : p \in DOMAIN table => DOMAIN table[p].buffer \subseteq Nat,
         \E o \in DOMAIN table[u].buffer :
           table[u].buffer[o].flags = "shared" /\ table[u].buffer[o].shared_id = id
  PROVE  \E p \in DOMAIN table : \E o \in DOMAIN table[p].buffer :
           /\ SharedBufferFind(table, id) = table[p].buffer[o]
           /\ table[p].buffer[o].flags = "shared" /\ table[p].buffer[o].shared_id = id
<1> DEFINE Matches(p) == {b \in DOMAIN table[p].buffer :
                            /\ table[p].buffer[b].flags = "shared"
                            /\ table[p].buffer[b].shared_id = id}
           Searched == {p \in Slot : 0..p \subseteq DOMAIN table}
           Found == {p \in Searched : Matches(p) # {}}
<1>1. SharedBufferFind(table, id) =
        IF Found = {} THEN NULL ELSE table[Min(Found)].buffer[Min(Matches(Min(Found)))]
  BY DEF SharedBufferFind
<1>2. u \in Searched /\ Matches(u) # {}
  OBVIOUS
<1>3. Slot \subseteq Nat
  BY MaxPipelinesAssumption DEF Slot
<1>4. Found # {} /\ Found \in SUBSET Nat
  BY <1>2, <1>3
<1> DEFINE p == Min(Found)
<1>5. p \in Found
  <2> HIDE DEF Found
  <2> QED
    BY <1>4, LeastNatural
<1> HIDE DEF p
<1>6. p \in Slot /\ 0..p \subseteq DOMAIN table /\ Matches(p) # {}
  BY <1>5
<1>7. p \in DOMAIN table
  BY <1>3, <1>6
<1>8. Matches(p) \in SUBSET Nat
  BY <1>6, <1>7
<1> DEFINE o == Min(Matches(p))
<1>9. o \in Matches(p)
  <2> HIDE DEF Matches
  <2> QED
    BY <1>6, <1>8, LeastNatural
<1>10. SharedBufferFind(table, id) = table[p].buffer[o]
  <2> HIDE DEF Matches, Found
  <2> QED
    BY <1>1, <1>4 DEF p
<1> HIDE DEF o
<1> QED
  BY <1>7, <1>9, <1>10

FreshRing(buf) == buf.read = 0 /\ buf.write = buf.silence % Wrap(buf.size)

LEMMA ResetStep ==
  ASSUME NEW buf \in Ring
  PROVE  Turns(buf, Reset(buf)) /\ FreshRing(Reset(buf))
<1> DEFINE w == buf.silence % Wrap(buf.size)
           new == [buf EXCEPT !.read = 0, !.write = w]
<1>1. Reset(buf) = new
  BY DEF Reset
<1>2. Wrap(buf.size) \in Nat \ {0} /\ buf.silence \in Int
  BY WrapBounds DEF Ring
<1>3. w \in 0..Wrap(buf.size)-1
  BY <1>2, ModType
<1>4. w \in Nat /\ w < Wrap(buf.size) /\ 0 < Wrap(buf.size)
  BY <1>2, <1>3
<1> HIDE DEF w
<1>5. /\ new \in Ring /\ new.read = 0 /\ new.write = w /\ new.base = buf.base /\ new.size = buf.size
      /\ new.silence = buf.silence /\ new.flags = buf.flags /\ new.shared_id = buf.shared_id
  BY <1>4 DEF Ring
<1> HIDE DEF new
<1> QED
  BY <1>1, <1>4, <1>5 DEF Turns, IsRing, FreshRing, w

LEMMA BufInitStep ==
  ASSUME NEW base \in [slot : Slot, off : Nat], NEW size \in Nat, NEW silence \in {0, 1},
         NEW flags \in {"none", "shared", "shared_user"}, NEW id \in Nat
  PROVE  LET buf == BufInit(base, size, silence, flags, id) IN
         /\ IsRing(buf) /\ FreshRing(buf)
         /\ buf.base = base /\ buf.size = size /\ buf.silence = silence
         /\ buf.flags = flags /\ buf.shared_id = id
<1> DEFINE old == [base |-> base, size |-> size, silence |-> silence, flags |-> flags,
                   shared_id |-> id, read |-> 0, write |-> 0]
<1>1. old \in Ring /\ BufInit(base, size, silence, flags, id) = Reset(old)
  BY DEF Ring, BufInit
<1>2. /\ old.base = base /\ old.size = size /\ old.silence = silence
      /\ old.flags = flags /\ old.shared_id = id
  OBVIOUS
<1> HIDE DEF old
<1> QED
  BY <1>1, <1>2, ResetStep DEF Turns

\* A pipeline that is initialised: its rings are where the configuration has them, or
\* on the storage of their owners.
InitialisedIn(table, pipeline, q, cfg) ==
  /\ MadeOf(pipeline, q, cfg)
  /\ \A b \in DOMAIN cfg.buffer :
       /\ FreshRing(pipeline.buffer[b])
       /\ pipeline.buffer[b].flags = "shared" => pipeline.memory[pipeline.buffer[b].base.off] = "last"
       /\ pipeline.buffer[b].flags = "shared_user" =>
            \E p \in DOMAIN table : \E o \in DOMAIN table[p].buffer :
              /\ table[p].buffer[o].flags = "shared"
              /\ table[p].buffer[o].shared_id = pipeline.buffer[b].shared_id
              /\ pipeline.buffer[b].base = table[p].buffer[o].base
              /\ pipeline.buffer[b].size = table[p].buffer[o].size

LEMMA CreateStep ==
  ASSUME NEW table, Rings(table), NEW slot \in Slot, NEW cfg, Sound(cfg), ConfigCheck(cfg),
         \A b \in DOMAIN cfg.buffer : cfg.buffer[b].flags = "shared_user" =>
           \E p \in DOMAIN table : \E o \in DOMAIN table[p].buffer :
             /\ SharedBufferFind(table, cfg.buffer[b].shared_id) = table[p].buffer[o]
             /\ table[p].buffer[o].flags = "shared"
             /\ table[p].buffer[o].shared_id = cfg.buffer[b].shared_id
  PROVE  InitialisedIn(table, Create(table, slot, cfg), slot, cfg)
<1> DEFINE buffer == [b \in DOMAIN cfg.buffer |-> BufferInit(table, slot, cfg, b)]
           memory == [c \in 0..StorageSize(cfg)-1 |->
                       IF c \in Silences(buffer, DOMAIN buffer) THEN "last" ELSE "old"]
           started == [e \in DOMAIN cfg.element |-> FALSE]
           new == [cfg |-> cfg, buffer |-> buffer, memory |-> memory, started |-> started]
<1>1. Create(table, slot, cfg) = new
  BY DEF Create
<1>2. ASSUME NEW b \in DOMAIN cfg.buffer
      PROVE  LET buf == buffer[b] IN
             /\ IsRing(buf) /\ FreshRing(buf)
             /\ buf.flags = cfg.buffer[b].flags
             /\ buf.silence = IF buf.flags = "shared" THEN 1 ELSE 0
             /\ buf.flags # "none" => buf.shared_id = cfg.buffer[b].shared_id
             /\ buf.flags # "shared_user" =>
                  /\ buf.base = [slot |-> slot, off |-> StorageOff(cfg, cfg.buffer[b].storage)]
                  /\ buf.size = cfg.periods[cfg.buffer[b].storage]
             /\ buf.flags = "shared_user" =>
                  \E p \in DOMAIN table : \E o \in DOMAIN table[p].buffer :
                    /\ table[p].buffer[o].flags = "shared"
                    /\ table[p].buffer[o].shared_id = buf.shared_id
                    /\ buf.base = table[p].buffer[o].base
                    /\ buf.size = table[p].buffer[o].size
  <2> DEFINE c == cfg.buffer[b]
             owner == SharedBufferFind(table, c.shared_id)
             base == [slot |-> slot, off |-> StorageOff(cfg, c.storage)]
             size == cfg.periods[c.storage]
  <2>1. buffer[b] = BufferInit(table, slot, cfg, b)
    OBVIOUS
  <2> HIDE DEF buffer
  <2>2. c.shared_id \in Nat /\ c.flags \in {"none", "shared", "shared_user"}
    BY DEF Sound
  <2>3. ASSUME c.flags # "shared_user"
        PROVE  base \in [slot : Slot, off : Nat] /\ size \in Nat
    <3>1. c.storage \in DOMAIN cfg.periods
      BY <2>3 DEF ConfigCheck
    <3>2. size \in Nat /\ IsTable(DOMAIN cfg.periods) /\ \A s \in DOMAIN cfg.periods : cfg.periods[s] \in Nat
      BY <3>1 DEF Sound
    <3>3. StorageOff(cfg, c.storage) \in Nat
      BY <3>1, <3>2, StoragesFollow
    <3> HIDE DEF size
    <3> QED
      BY <3>2, <3>3
  <2>4. CASE c.flags = "none"
    <3>1. buffer[b] = BufInit(base, size, 0, "none", 0)
      BY <2>1, <2>4 DEF BufferInit
    <3>2. base \in [slot : Slot, off : Nat] /\ size \in Nat
      BY <2>3, <2>4
    <3> HIDE DEF base, size
    <3>3. /\ IsRing(buffer[b]) /\ FreshRing(buffer[b])
          /\ buffer[b].base = base /\ buffer[b].size = size /\ buffer[b].silence = 0
          /\ buffer[b].flags = "none" /\ buffer[b].shared_id = 0
      BY <3>1, <3>2, BufInitStep
    <3> QED
      BY <2>4, <3>3 DEF base, size
  <2>5. CASE c.flags = "shared"
    <3>1. buffer[b] = BufInit(base, size, 1, "shared", c.shared_id)
      BY <2>1, <2>5 DEF BufferInit
    <3>2. base \in [slot : Slot, off : Nat] /\ size \in Nat
      BY <2>3, <2>5
    <3> HIDE DEF base, size
    <3>3. /\ IsRing(buffer[b]) /\ FreshRing(buffer[b])
          /\ buffer[b].base = base /\ buffer[b].size = size /\ buffer[b].silence = 1
          /\ buffer[b].flags = "shared" /\ buffer[b].shared_id = c.shared_id
      BY <2>2, <3>1, <3>2, BufInitStep
    <3> QED
      BY <2>5, <3>3 DEF base, size
  <2>6. CASE c.flags = "shared_user"
    <3>1. buffer[b] = BufInit(owner.base, owner.size, 0, "shared_user", c.shared_id)
      BY <2>1, <2>6 DEF BufferInit
    <3>2. PICK p \in DOMAIN table : \E o \in DOMAIN table[p].buffer :
            /\ owner = table[p].buffer[o]
            /\ table[p].buffer[o].flags = "shared"
            /\ table[p].buffer[o].shared_id = c.shared_id
      BY <2>6
    <3>3. PICK o \in DOMAIN table[p].buffer :
            /\ owner = table[p].buffer[o]
            /\ table[p].buffer[o].flags = "shared"
            /\ table[p].buffer[o].shared_id = c.shared_id
      BY <3>2
    <3>4. owner \in Ring
      BY <3>3 DEF Rings, IsRing
    <3>5. owner.base \in [slot : Slot, off : Nat] /\ owner.size \in Nat
      BY <3>4 DEF Ring
    <3> HIDE DEF owner
    <3>6. /\ IsRing(buffer[b]) /\ FreshRing(buffer[b])
          /\ buffer[b].base = owner.base /\ buffer[b].size = owner.size /\ buffer[b].silence = 0
          /\ buffer[b].flags = "shared_user" /\ buffer[b].shared_id = c.shared_id
      BY <2>2, <3>1, <3>5, BufInitStep
    <3> QED
      BY <2>6, <3>3, <3>6
  <2> QED
    BY <2>2, <2>4, <2>5, <2>6
<1>3. DOMAIN buffer = DOMAIN cfg.buffer /\ DOMAIN memory = 0..StorageSize(cfg)-1
  OBVIOUS
<1>6. ASSUME NEW b \in DOMAIN cfg.buffer, buffer[b].flags = "shared"
      PROVE  memory[buffer[b].base.off] = "last"
  <2> DEFINE s == cfg.buffer[b].storage
  <2>1. /\ buffer[b].silence = 1
        /\ buffer[b].base = [slot |-> slot, off |-> StorageOff(cfg, s)]
        /\ cfg.buffer[b].flags = "shared"
    BY <1>2, <1>6
  <2>2. s \in DOMAIN cfg.periods
    BY <2>1 DEF ConfigCheck
  <2>3. IsTable(DOMAIN cfg.periods) /\ \A u \in DOMAIN cfg.periods : cfg.periods[u] \in Nat \ {0}
    BY DEF Sound
  <2> HIDE DEF s, buffer
  <2>4. /\ StorageOff(cfg, s) \in Nat /\ StorageSize(cfg) \in Nat
        /\ StorageOff(cfg, s) + cfg.periods[s] <= StorageSize(cfg)
    BY <2>2, <2>3, StoragesFollow
  <2>5. buffer[b].base.off = StorageOff(cfg, s) /\ cfg.periods[s] \in Nat \ {0}
    BY <2>1, <2>2, <2>3
  <2>6. buffer[b].base.off \in 0..StorageSize(cfg)-1
    BY <2>4, <2>5
  <2>7. buffer[b].silence > 0
    BY <2>1
  <2>8. buffer[b].base.off \in Silences(buffer, DOMAIN buffer)
    BY <1>3, <2>7 DEF Silences
  <2> QED
    BY <2>6, <2>8
<1> HIDE DEF buffer, memory, started
<1>4. /\ DOMAIN new = PipelineFields
      /\ new.cfg = cfg /\ new.buffer = buffer /\ new.memory = memory
  BY DEF PipelineFields
<1> HIDE DEF new
<1>5. MadeOf(new, slot, cfg)
  BY <1>2, <1>3, <1>4 DEF MadeOf
<1> QED
  BY <1>1, <1>2, <1>4, <1>5, <1>6 DEF InitialisedIn

-----------------------------------------------------------------------------
(* The table in the course of the commands                                 *)

\* The threads that have a pipeline.
Live(t) ==
  \/ cpc = "init" /\ t < ci
  \/ cpc \in {"setup", "running"}
  \/ cpc = "exit" /\ t >= ci

\* The table holds l pipelines that failed RUN commands left, and after them those
\* of the threads, in their order.
Layout(l) ==
  /\ l \in Nat /\ (failures = 0 => l = 0)
  /\ \A q \in DOMAIN pipeline_table : q \in Slot
  /\ \A q \in Slot :
       q \in DOMAIN pipeline_table <=> q < l \/ \E t \in Thread : Live(t) /\ q = l + t - 1
  /\ \A t \in Thread : Live(t) =>
       /\ l + t - 1 \in Slot /\ handle[t] = l + t - 1
       /\ pipeline_table[l + t - 1].cfg = SetConfig(config[t])

\* Readers of shared buffers have found them.
Shares(l) ==
  \A q \in DOMAIN pipeline_table : cpc # "exit" \/ q < l =>
    \A b \in DOMAIN pipeline_table[q].buffer :
      pipeline_table[q].buffer[b].flags = "shared_user" =>
        OnSharedBuffer(pipeline_table, q, pipeline_table[q].buffer[b])

CommandTyped ==
  /\ config \in Configs /\ DOMAIN handle = Thread
  /\ cpc \in {"idle", "init", "setup", "running", "exit"}
  /\ ci \in Thread /\ failures \in Nat

AllMade ==
  \A q \in DOMAIN pipeline_table : MadeOf(pipeline_table[q], q, pipeline_table[q].cfg)

TableShape(l) == CommandTyped /\ AllMade /\ Layout(l) /\ Shares(l)

TableInv == \E l \in Nat : TableShape(l)

LEMMA ThreadRange ==
  ASSUME config \in Configs
  PROVE  /\ Len(config) \in Nat /\ Len(config) > 0 /\ Thread = 1..Len(config)
         /\ \A t \in Thread : WellFormed(config[t])
         /\ OwnersFirst(config)
BY ConfigsAssumption DEF Thread, IsArray

\* The pipelines of the table stay what they are while their rings turn.
KeepsAll(table, new) ==
  /\ DOMAIN new = DOMAIN table
  /\ \A q \in DOMAIN table :
       /\ DOMAIN new[q] = PipelineFields
       /\ new[q].cfg = table[q].cfg
       /\ DOMAIN new[q].memory = DOMAIN table[q].memory
       /\ DOMAIN new[q].buffer = DOMAIN table[q].buffer
       /\ \A b \in DOMAIN table[q].buffer : Turns(table[q].buffer[b], new[q].buffer[b])

LEMMA KeepsShape ==
  ASSUME NEW l, TableShape(l), KeepsAll(pipeline_table, pipeline_table'),
         UNCHANGED <<config, handle, cpc, ci, failures>>
  PROVE  TableShape(l)'
<1>1. AllMade'
  <2> SUFFICES ASSUME NEW q \in DOMAIN pipeline_table'
               PROVE  MadeOf(pipeline_table'[q], q, pipeline_table'[q].cfg)
    BY DEF AllMade
  <2> DEFINE old == pipeline_table[q]
             new == pipeline_table'[q]
  <2>1. /\ MadeOf(old, q, old.cfg)
        /\ DOMAIN new = PipelineFields
        /\ new.cfg = old.cfg
        /\ DOMAIN new.memory = DOMAIN old.memory
        /\ DOMAIN new.buffer = DOMAIN old.buffer
        /\ \A b \in DOMAIN old.buffer : Turns(old.buffer[b], new.buffer[b])
    BY DEF TableShape, AllMade, KeepsAll
  <2> HIDE DEF old, new
  <2>2. MadeOf(new, q, new.cfg)
    BY <2>1 DEF MadeOf, Turns
  <2> QED
    BY <2>2 DEF new
<1>2. Layout(l)'
  BY DEF TableShape, Layout, Live, Thread, KeepsAll
<1>3. CommandTyped'
  BY DEF TableShape, CommandTyped, Thread
<1>4. Shares(l)'
  <2> SUFFICES ASSUME NEW q \in DOMAIN pipeline_table', cpc' # "exit" \/ q < l,
                      NEW b \in DOMAIN pipeline_table'[q].buffer,
                      pipeline_table'[q].buffer[b].flags = "shared_user"
               PROVE  OnSharedBuffer(pipeline_table', q, pipeline_table'[q].buffer[b])
    BY DEF Shares
  <2> DEFINE old == pipeline_table[q].buffer[b]
             buf == pipeline_table'[q].buffer[b]
  <2>1. q \in DOMAIN pipeline_table /\ b \in DOMAIN pipeline_table[q].buffer /\ Turns(old, buf)
    BY DEF KeepsAll
  <2>2. old.flags = "shared_user"
    BY <2>1 DEF Turns
  <2>3. OnSharedBuffer(pipeline_table, q, old)
    BY <2>1, <2>2 DEF TableShape, Shares
  <2> HIDE DEF old, buf
  <2>4. OnSharedBuffer(pipeline_table', q, buf)
    BY <2>1, <2>3 DEF OnSharedBuffer, Turns, KeepsAll
  <2> QED
    BY <2>4 DEF buf
<1> QED
  BY <1>1, <1>2, <1>3, <1>4 DEF TableShape

LEMMA TableInit == Init => TableShape(0)
<1> SUFFICES ASSUME Init PROVE TableShape(0)
  OBVIOUS
<1>1. DOMAIN pipeline_table = {}
  BY DEF Init
<1>2. CommandTyped
  BY ThreadRange DEF Init, CommandTyped
<1>3. Layout(0)
  <2>1. \A q \in Slot : q \in Nat
    BY MaxPipelinesAssumption DEF Slot
  <2>2. \A t \in Thread : ~Live(t)
    BY DEF Init, Live
  <2>3. \A q \in Slot : ~(q < 0)
    BY <2>1
  <2> QED
    BY <1>1, <2>2, <2>3 DEF Layout
<1> QED
  BY <1>1, <1>2, <1>3 DEF TableShape, AllMade, Shares

LEMMA TableCommand ==
  ASSUME NEW l, TableShape(l), CommandRun \/ SaiSetup \/ CommandStop
  PROVE  TableShape(l)'
<1>1. config \in Configs /\ UNCHANGED <<config, pipeline_table, handle, failures>>
  BY DEF TableShape, CommandTyped, CommandRun, SaiSetup, CommandStop
<1>2. /\ Len(config) \in Nat /\ Len(config) > 0 /\ Thread = 1..Len(config)
  BY <1>1, ThreadRange
<1>3. CommandTyped'
  BY <1>1, <1>2 DEF TableShape, CommandTyped, CommandRun, SaiSetup, CommandStop, Thread
<1>4. \A t \in Thread : Live(t)' <=> Live(t)
  BY <1>2 DEF CommandRun, SaiSetup, CommandStop, Live
<1>5. Layout(l)'
  BY <1>1, <1>4 DEF TableShape, Layout, Thread
<1>6. Shares(l)'
  BY <1>1 DEF TableShape, Shares, CommandRun, SaiSetup, CommandStop
<1>7. AllMade'
  BY <1>1 DEF TableShape, AllMade
<1> QED
  BY <1>3, <1>5, <1>6, <1>7 DEF TableShape

\* What a failed RUN leaves in the table.
LEMMA TableFail ==
  ASSUME NEW l, TableShape(l), InitPipelineFails \/ SaiSetupFails
  PROVE  \E k \in Nat : TableShape(k)'
<1> DEFINE made == IF cpc = "init" THEN ci - 1 ELSE Len(config)
<1>1. config \in Configs /\ UNCHANGED <<config, pipeline_table>> /\ Fail
  BY DEF TableShape, CommandTyped, InitPipelineFails, SaiSetupFails, Fail
<1>2. /\ Len(config) \in Nat /\ Len(config) > 0 /\ Thread = 1..Len(config)
  BY <1>1, ThreadRange
<1>3. l \in Nat /\ ci \in Thread /\ failures \in Nat /\ cpc \in {"init", "setup"}
  BY DEF TableShape, CommandTyped, Layout, InitPipelineFails, SaiSetupFails
<1>0. made \in 0..Len(config) /\ l + made \in Nat
  BY <1>2, <1>3
<1>4. PICK k \in Nat : k = l + made
  BY <1>0
<1>5. \A t \in Thread : Live(t) <=> t <= made
  BY <1>2, <1>3 DEF Live
<1> HIDE DEF made
<1>6. \A q \in Slot : q < k <=> (q < l \/ \E t \in Thread : Live(t) /\ q = l + t - 1)
  <2> SUFFICES ASSUME NEW q \in Slot
               PROVE  q < k <=> (q < l \/ \E t \in Thread : Live(t) /\ q = l + t - 1)
    OBVIOUS
  <2>1. q \in Nat
    BY MaxPipelinesAssumption DEF Slot
  <2>2. ASSUME q < k, ~(q < l) PROVE q - l + 1 \in Thread /\ Live(q - l + 1) /\ q = l + (q - l + 1) - 1
    <3>1. q - l + 1 \in 1..made
      BY <1>0, <1>3, <1>4, <2>1, <2>2
    <3> QED
      BY <1>0, <1>2, <1>3, <1>4, <1>5, <2>1, <3>1
  <2>3. ASSUME q < l PROVE q < k
    BY <1>0, <1>3, <1>4, <2>1, <2>3
  <2>4. ASSUME NEW t \in Thread, Live(t), q = l + t - 1 PROVE q < k
    BY <1>0, <1>2, <1>3, <1>4, <1>5, <2>4
  <2> QED
    BY <2>2, <2>3, <2>4
<1>7. cpc' = "idle" /\ ci' = 1 /\ failures' \in Nat /\ failures' # 0
  <2>1. failures' = Min({failures + 1, MaxFailures}) /\ cpc' = "idle" /\ ci' = 1
    BY <1>1 DEF Fail
  <2>2. {failures + 1, MaxFailures} \in SUBSET (Nat \ {0}) /\ {failures + 1, MaxFailures} # {}
    BY <1>3, MaxFailuresAssumption
  <2>3. Min({failures + 1, MaxFailures}) \in {failures + 1, MaxFailures}
    BY <2>2, LeastNatural
  <2> QED
    BY <2>1, <2>2, <2>3
<1>8. DOMAIN handle' = Thread
  BY DEF InitPipelineFails, SaiSetupFails, TableShape, CommandTyped
<1>9. CommandTyped'
  BY <1>1, <1>2, <1>7, <1>8 DEF CommandTyped, Thread
<1>10. \A q \in DOMAIN pipeline_table : q \in Slot
  BY DEF TableShape, Layout
<1>11. \A q \in Slot : q \in DOMAIN pipeline_table <=> q < k
  BY <1>6 DEF TableShape, Layout
<1>12. \A t \in Thread : ~Live(t)'
  BY <1>7 DEF Live
<1>13. Layout(k)'
  BY <1>1, <1>4, <1>7, <1>10, <1>11, <1>12 DEF Layout, Thread
<1>14. Shares(k)'
  BY <1>1, <1>3 DEF TableShape, Shares
<1>15. AllMade'
  BY <1>1 DEF TableShape, AllMade
<1> QED
  BY <1>4, <1>9, <1>13, <1>14, <1>15 DEF TableShape

LEMMA TableExit ==
  ASSUME NEW l, TableShape(l), ExitPipeline
  PROVE  TableShape(l)'
<1>1. config \in Configs /\ UNCHANGED <<config, handle, failures>> /\ cpc = "exit"
  BY DEF TableShape, CommandTyped, ExitPipeline
<1>2. Len(config) \in Nat /\ Len(config) > 0 /\ Thread = 1..Len(config) /\ ci \in Thread
  BY <1>1, ThreadRange DEF TableShape, CommandTyped
<1>3. l \in Nat /\ Live(ci) /\ handle[ci] = l + ci - 1
  BY <1>1, <1>2 DEF TableShape, Layout, Live
<1>4. \A t \in Thread : Live(t)' <=> Live(t) /\ t # ci
  BY <1>2 DEF ExitPipeline, Live
<1>5. /\ DOMAIN pipeline_table' = DOMAIN pipeline_table \ {l + ci - 1}
      /\ \A q \in DOMAIN pipeline_table' : pipeline_table'[q] = pipeline_table[q]
  BY <1>3 DEF ExitPipeline, Restrict
<1>6. CommandTyped'
  BY <1>1, <1>2 DEF TableShape, CommandTyped, ExitPipeline, Thread
<1>7. AllMade'
  BY <1>5 DEF TableShape, AllMade
<1>8. Layout(l)'
  <2>1. \A q \in Slot : q \in DOMAIN pipeline_table' <=>
           q < l \/ \E t \in Thread : Live(t)' /\ q = l + t - 1
    <3> SUFFICES ASSUME NEW q \in Slot
                 PROVE  q \in DOMAIN pipeline_table' <=>
                          q < l \/ \E t \in Thread : Live(t)' /\ q = l + t - 1
      OBVIOUS
    <3>1. q \in Nat
      BY MaxPipelinesAssumption DEF Slot
    <3>2. q \in DOMAIN pipeline_table <=> q < l \/ \E t \in Thread : Live(t) /\ q = l + t - 1
      BY DEF TableShape, Layout
    <3>3. ~(l + ci - 1 < l) /\ \A t \in Thread : l + t - 1 = l + ci - 1 <=> t = ci
      BY <1>2, <1>3
    <3> QED
      BY <1>4, <1>5, <3>2, <3>3
  <2>2. \A t \in Thread : Live(t)' =>
          /\ l + t - 1 \in Slot /\ handle'[t] = l + t - 1
          /\ pipeline_table'[l + t - 1].cfg = SetConfig(config'[t])
    <3> SUFFICES ASSUME NEW t \in Thread, Live(t)'
                 PROVE  /\ l + t - 1 \in Slot /\ handle'[t] = l + t - 1
                        /\ pipeline_table'[l + t - 1].cfg = SetConfig(config'[t])
      OBVIOUS
    <3>1. Live(t)
      BY <1>4
    <3>2. /\ l + t - 1 \in Slot /\ handle[t] = l + t - 1
          /\ pipeline_table[l + t - 1].cfg = SetConfig(config[t])
      BY <3>1 DEF TableShape, Layout
    <3>3. l + t - 1 \in DOMAIN pipeline_table'
      BY <2>1, <3>2
    <3> QED
      BY <1>1, <1>5, <3>2, <3>3
  <2>3. /\ l \in Nat /\ (failures' = 0 => l = 0)
        /\ \A q \in DOMAIN pipeline_table' : q \in Slot
    BY <1>1, <1>5 DEF TableShape, Layout
  <2> QED
    BY <1>1, <2>1, <2>2, <2>3 DEF Layout, Thread
<1>9. Shares(l)'
  <2> SUFFICES ASSUME NEW q \in DOMAIN pipeline_table', cpc' # "exit" \/ q < l,
                      NEW b \in DOMAIN pipeline_table'[q].buffer,
                      pipeline_table'[q].buffer[b].flags = "shared_user"
               PROVE  OnSharedBuffer(pipeline_table', q, pipeline_table'[q].buffer[b])
    BY DEF Shares
  <2>1. q \in Slot
    BY <1>5 DEF TableShape, Layout
  <2>2. q \in Nat
    BY <2>1, MaxPipelinesAssumption DEF Slot
  <2>3. q < l
    <3>1. CASE cpc' # "exit"
      <4>1. \A t \in Thread : ~Live(t)'
        BY <1>1, <3>1 DEF ExitPipeline, Live
      <4> QED
        BY <1>1, <1>8, <2>1, <4>1 DEF Layout, Thread
    <3> QED
      BY <3>1
  <2>4. OnSharedBuffer(pipeline_table, q, pipeline_table[q].buffer[b])
    BY <1>5, <2>3 DEF TableShape, Shares
  <2>5. \A p \in DOMAIN pipeline_table : p < q => p \in DOMAIN pipeline_table'
    <3> SUFFICES ASSUME NEW p \in DOMAIN pipeline_table, p < q PROVE p # l + ci - 1
      BY <1>5
    <3>1. p \in Slot
      BY DEF TableShape, Layout
    <3>2. p \in Nat
      BY <3>1, MaxPipelinesAssumption DEF Slot
    <3> QED
      BY <1>2, <1>3, <2>2, <2>3, <3>2
  <2> QED
    BY <1>5, <2>4, <2>5 DEF OnSharedBuffer
<1> QED
  BY <1>6, <1>7, <1>8, <1>9 DEF TableShape

\* A RUN command puts the next pipeline behind the others.
LEMMA NextSlot ==
  ASSUME NEW l, TableShape(l), cpc = "init", FreeSlots # {}
  PROVE  Min(FreeSlots) = l + ci - 1 /\ l + ci - 1 \in FreeSlots
<1>1. config \in Configs /\ ci \in Thread /\ l \in Nat
  BY DEF TableShape, CommandTyped, Layout
<1>2. Len(config) \in Nat /\ Thread = 1..Len(config)
  BY <1>1, ThreadRange
<1>3. \A q \in Slot : q \in FreeSlots <=> ~(q < l) /\ \A t \in Thread : t < ci => q # l + t - 1
  BY DEF TableShape, Layout, Live, FreeSlots
<1>4. Slot \subseteq Nat /\ \A q \in Slot : \A p \in Nat : p <= q => p \in Slot
  BY MaxPipelinesAssumption DEF Slot
<1>5. FreeSlots \in SUBSET Nat /\ FreeSlots \subseteq Slot
  BY <1>4 DEF FreeSlots
<1> DEFINE s == Min(FreeSlots)
<1>6. s \in FreeSlots /\ \A q \in FreeSlots : s <= q
  BY <1>5, LeastNatural
<1> HIDE DEF s
<1>7. s \in Slot /\ s \in Nat
  BY <1>5, <1>6
<1>8. ~(s < l + ci - 1)
  <2> SUFFICES ASSUME s < l + ci - 1 PROVE FALSE
    OBVIOUS
  <2>1. ~(s < l)
    BY <1>3, <1>6, <1>7
  <2> DEFINE t == s - l + 1
  <2>2. t \in Thread /\ t < ci /\ s = l + t - 1
    BY <1>1, <1>2, <1>7, <2>1
  <2> HIDE DEF t
  <2> QED
    BY <1>3, <1>6, <1>7, <2>2
<1>9. l + ci - 1 \in Nat /\ l + ci - 1 <= s
  BY <1>1, <1>2, <1>7, <1>8
<1>10. l + ci - 1 \in FreeSlots
  <2>1. l + ci - 1 \in Slot
    BY <1>4, <1>7, <1>9
  <2>2. ~(l + ci - 1 < l) /\ \A t \in Thread : t < ci => l + ci - 1 # l + t - 1
    BY <1>1, <1>2
  <2> QED
    BY <1>3, <2>1, <2>2
<1>11. s <= l + ci - 1
  BY <1>6, <1>10
<1> QED
  BY <1>7, <1>9, <1>10, <1>11 DEF s

\* The readers of the next pipeline find their owners.
LEMMA OwnersFound ==
  ASSUME NEW l, TableShape(l), cpc = "init", NEW b \in DOMAIN SetConfig(config[ci]).buffer,
         SetConfig(config[ci]).buffer[b].flags = "shared_user"
  PROVE  \E p \in DOMAIN pipeline_table : \E o \in DOMAIN pipeline_table[p].buffer :
           LET found == SharedBufferFind(pipeline_table, SetConfig(config[ci]).buffer[b].shared_id) IN
           /\ found = pipeline_table[p].buffer[o]
           /\ pipeline_table[p].buffer[o].flags = "shared"
           /\ pipeline_table[p].buffer[o].shared_id = SetConfig(config[ci]).buffer[b].shared_id
<1> DEFINE id == SetConfig(config[ci]).buffer[b].shared_id
<1>1. config \in Configs /\ ci \in Thread /\ l \in Nat
  BY DEF TableShape, CommandTyped, Layout
<1>2. /\ Len(config) \in Nat /\ Thread = 1..Len(config)
      /\ \A t \in Thread : WellFormed(config[t])
      /\ OwnersFirst(config)
  BY <1>1, ThreadRange
<1>3. /\ b \in DOMAIN config[ci].buffer /\ config[ci].buffer[b].flags = "shared_user"
      /\ id = config[ci].buffer[b].shared_id
  BY <1>1, <1>2, SetConfigSound
<1> HIDE DEF id
<1>4. PICK u \in 1..ci-1 : \E o \in DOMAIN config[u].buffer :
        config[u].buffer[o].flags = "shared" /\ config[u].buffer[o].shared_id = id
  BY <1>1, <1>3, <1>2 DEF OwnersFirst, Thread
<1>5. u \in Thread /\ Live(u)
  BY <1>1, <1>2 DEF Live
<1> DEFINE p == l + u - 1
<1>6. p \in Slot /\ pipeline_table[p].cfg = SetConfig(config[u]) /\ p \in DOMAIN pipeline_table
  BY <1>5 DEF TableShape, Layout
<1>7. p \in Nat
  BY <1>6, MaxPipelinesAssumption DEF Slot
<1>8. 0..p \subseteq DOMAIN pipeline_table
  <2> SUFFICES ASSUME NEW q \in 0..p PROVE q \in DOMAIN pipeline_table
    OBVIOUS
  <2>1. q \in Slot
    BY <1>6, <1>7, MaxPipelinesAssumption DEF Slot
  <2>2. CASE q < l
    BY <2>1, <2>2 DEF TableShape, Layout
  <2>3. CASE ~(q < l)
    <3> DEFINE t == q - l + 1
    <3>1. t \in Thread /\ t < ci /\ q = l + t - 1
      BY <1>1, <1>2, <1>7, <2>3
    <3> HIDE DEF t
    <3>2. Live(t)
      BY <3>1 DEF Live
    <3> QED
      BY <2>1, <3>1, <3>2 DEF TableShape, Layout
  <2> QED
    BY <2>2, <2>3
<1>9. \A q \in DOMAIN pipeline_table : DOMAIN pipeline_table[q].buffer \subseteq Nat
  <2> SUFFICES ASSUME NEW q \in DOMAIN pipeline_table
               PROVE  DOMAIN pipeline_table[q].buffer \subseteq Nat
    OBVIOUS
  <2>1. MadeOf(pipeline_table[q], q, pipeline_table[q].cfg)
    BY DEF TableShape, AllMade
  <2>2. IsTable(DOMAIN pipeline_table[q].cfg.buffer) /\ DOMAIN pipeline_table[q].buffer = DOMAIN pipeline_table[q].cfg.buffer
    BY <2>1 DEF MadeOf, Sound
  <2> QED
    BY <2>2 DEF IsTable
<1>10. \E o \in DOMAIN pipeline_table[p].buffer :
         pipeline_table[p].buffer[o].flags = "shared" /\ pipeline_table[p].buffer[o].shared_id = id
  <2>1. PICK o \in DOMAIN config[u].buffer :
          config[u].buffer[o].flags = "shared" /\ config[u].buffer[o].shared_id = id
    BY <1>4
  <2>2. /\ o \in DOMAIN SetConfig(config[u]).buffer
        /\ SetConfig(config[u]).buffer[o].flags = "shared"
        /\ SetConfig(config[u]).buffer[o].shared_id = id
    BY <1>2, <1>5, <2>1, SetConfigSound
  <2>3. MadeOf(pipeline_table[p], p, SetConfig(config[u]))
    BY <1>6 DEF TableShape, AllMade
  <2> QED
    BY <2>2, <2>3 DEF MadeOf
<1> HIDE DEF p
<1>11. \E q \in DOMAIN pipeline_table : \E o \in DOMAIN pipeline_table[q].buffer :
           /\ SharedBufferFind(pipeline_table, id) = pipeline_table[q].buffer[o]
           /\ pipeline_table[q].buffer[o].flags = "shared" /\ pipeline_table[q].buffer[o].shared_id = id
  BY <1>6, <1>8, <1>9, <1>10, SharedBufferFound
<1> QED
  BY <1>11 DEF id

LEMMA MadeRings ==
  ASSUME NEW l, TableShape(l)
  PROVE  Rings(pipeline_table)
BY DEF TableShape, AllMade, MadeOf, Rings

\* The new pipeline.
LEMMA PipelineInitialised ==
  ASSUME NEW l, TableShape(l), InitPipeline
  PROVE  /\ l + ci - 1 \in Slot /\ l + ci - 1 \notin DOMAIN pipeline_table
         /\ DOMAIN pipeline_table' = DOMAIN pipeline_table \cup {l + ci - 1}
         /\ \A q \in DOMAIN pipeline_table : pipeline_table'[q] = pipeline_table[q]
         /\ InitialisedIn(pipeline_table, pipeline_table'[l + ci - 1], l + ci - 1, SetConfig(config[ci]))
         /\ handle' = [handle EXCEPT ![ci] = l + ci - 1]
<1> DEFINE cfg == SetConfig(config[ci])
           slot == Min(FreeSlots)
<1>1. /\ cpc = "init" /\ ConfigCheck(cfg) /\ FreeSlots # {}
      /\ pipeline_table' = [p \in DOMAIN pipeline_table \cup {slot} |->
           IF p = slot THEN Create(pipeline_table, slot, cfg) ELSE pipeline_table[p]]
      /\ handle' = [handle EXCEPT ![ci] = slot]
  BY DEF InitPipeline
<1>2. slot = l + ci - 1 /\ slot \in FreeSlots
  BY <1>1, NextSlot
<1>3. config \in Configs /\ ci \in Thread
  BY DEF TableShape, CommandTyped
<1>4. Sound(cfg)
  BY <1>3, ThreadRange, SetConfigSound
<1>5. \A b \in DOMAIN cfg.buffer : cfg.buffer[b].flags = "shared_user" =>
           \E p \in DOMAIN pipeline_table : \E o \in DOMAIN pipeline_table[p].buffer :
             /\ SharedBufferFind(pipeline_table, cfg.buffer[b].shared_id) = pipeline_table[p].buffer[o]
             /\ pipeline_table[p].buffer[o].flags = "shared"
             /\ pipeline_table[p].buffer[o].shared_id = cfg.buffer[b].shared_id
  BY <1>1, OwnersFound
<1> HIDE DEF slot, cfg
<1>6. slot \in Slot /\ slot \notin DOMAIN pipeline_table
  BY <1>2 DEF FreeSlots
<1>7. InitialisedIn(pipeline_table, Create(pipeline_table, slot, cfg), slot, cfg)
  BY <1>1, <1>4, <1>5, <1>6, MadeRings, CreateStep
<1>8. /\ DOMAIN pipeline_table' = DOMAIN pipeline_table \cup {slot}
      /\ \A q \in DOMAIN pipeline_table : pipeline_table'[q] = pipeline_table[q]
      /\ pipeline_table'[slot] = Create(pipeline_table, slot, cfg)
  BY <1>1, <1>6
<1>9. InitialisedIn(pipeline_table, pipeline_table'[slot], slot, cfg)
  BY <1>7, <1>8
<1> QED
  BY <1>1, <1>2, <1>6, <1>8, <1>9 DEF cfg

LEMMA TableInitPipeline ==
  ASSUME NEW l, TableShape(l), InitPipeline
  PROVE  TableShape(l)'
<1>1. config \in Configs /\ UNCHANGED <<config, failures>> /\ cpc = "init"
  BY DEF TableShape, CommandTyped, InitPipeline
<1>2. Len(config) \in Nat /\ Len(config) > 0 /\ Thread = 1..Len(config) /\ ci \in Thread /\ l \in Nat
  BY <1>1, ThreadRange DEF TableShape, CommandTyped, Layout
<1>3. PICK s \in Slot : s = l + ci - 1
  BY PipelineInitialised
<1>4. /\ s \notin DOMAIN pipeline_table
      /\ DOMAIN pipeline_table' = DOMAIN pipeline_table \cup {s}
      /\ \A q \in DOMAIN pipeline_table : pipeline_table'[q] = pipeline_table[q]
      /\ InitialisedIn(pipeline_table, pipeline_table'[s], s, SetConfig(config[ci]))
      /\ handle' = [handle EXCEPT ![ci] = s]
  BY <1>3, PipelineInitialised
<1>5. \A t \in Thread : Live(t)' <=> Live(t) \/ t = ci
  BY <1>2 DEF InitPipeline, Live
<1>6. CommandTyped'
  BY <1>1, <1>2, <1>4 DEF TableShape, CommandTyped, InitPipeline, Thread
<1>7. pipeline_table'[s].cfg = SetConfig(config[ci]) /\ MadeOf(pipeline_table'[s], s, pipeline_table'[s].cfg)
  <2> DEFINE cfg == SetConfig(config[ci])
  <2>1. MadeOf(pipeline_table'[s], s, cfg)
    BY <1>4 DEF InitialisedIn
  <2> HIDE DEF cfg
  <2>2. pipeline_table'[s].cfg = cfg
    BY <2>1 DEF MadeOf
  <2> QED
    BY <2>1, <2>2 DEF cfg
<1>8. AllMade'
  BY <1>4, <1>7 DEF TableShape, AllMade
<1>9. s \in Nat /\ \A q \in DOMAIN pipeline_table : q \in Nat
  BY MaxPipelinesAssumption DEF TableShape, Layout, Slot
<1>10. Layout(l)'
  <2>1. \A q \in Slot : q \in DOMAIN pipeline_table' <=>
           q < l \/ \E t \in Thread : Live(t)' /\ q = l + t - 1
    <3> SUFFICES ASSUME NEW q \in Slot
                 PROVE  q \in DOMAIN pipeline_table' <=>
                          q < l \/ \E t \in Thread : Live(t)' /\ q = l + t - 1
      OBVIOUS
    <3>1. q \in DOMAIN pipeline_table <=> q < l \/ \E t \in Thread : Live(t) /\ q = l + t - 1
      BY DEF TableShape, Layout
    <3> QED
      BY <1>2, <1>3, <1>4, <1>5, <3>1
  <2>2. \A t \in Thread : Live(t)' =>
          /\ l + t - 1 \in Slot /\ handle'[t] = l + t - 1
          /\ pipeline_table'[l + t - 1].cfg = SetConfig(config'[t])
    <3> SUFFICES ASSUME NEW t \in Thread, Live(t)'
                 PROVE  /\ l + t - 1 \in Slot /\ handle'[t] = l + t - 1
                        /\ pipeline_table'[l + t - 1].cfg = SetConfig(config'[t])
      OBVIOUS
    <3>0. DOMAIN handle = Thread
      BY DEF TableShape, CommandTyped
    <3>1. CASE t = ci
      BY <1>1, <1>3, <1>4, <1>7, <3>0, <3>1
    <3>2. CASE t # ci
      <4>1. Live(t)
        BY <1>5, <3>2
      <4>2. /\ l + t - 1 \in Slot /\ handle[t] = l + t - 1
            /\ pipeline_table[l + t - 1].cfg = SetConfig(config[t])
            /\ l + t - 1 \in DOMAIN pipeline_table
        BY <4>1 DEF TableShape, Layout
      <4> QED
        BY <1>1, <1>4, <3>0, <3>2, <4>2
    <3> QED
      BY <3>1, <3>2
  <2>3. /\ l \in Nat /\ (failures' = 0 => l = 0)
        /\ \A q \in DOMAIN pipeline_table' : q \in Slot
    BY <1>1, <1>4 DEF TableShape, Layout
  <2> QED
    BY <1>1, <2>1, <2>2, <2>3 DEF Layout, Thread
<1>11. \A q \in DOMAIN pipeline_table : q < s
  <2> SUFFICES ASSUME NEW q \in DOMAIN pipeline_table PROVE q < s
    OBVIOUS
  <2>1. q \in Slot /\ (q < l \/ \E t \in Thread : Live(t) /\ q = l + t - 1)
    BY DEF TableShape, Layout
  <2>2. \A t \in Thread : Live(t) => t < ci
    BY <1>1 DEF Live
  <2> QED
    BY <1>2, <1>3, <1>9, <2>1, <2>2
<1>12. Shares(l)'
  <2> SUFFICES ASSUME NEW q \in DOMAIN pipeline_table',
                      NEW b \in DOMAIN pipeline_table'[q].buffer,
                      pipeline_table'[q].buffer[b].flags = "shared_user"
               PROVE  OnSharedBuffer(pipeline_table', q, pipeline_table'[q].buffer[b])
    BY DEF Shares
  <2>1. CASE q = s
    <3>1. b \in DOMAIN SetConfig(config[ci]).buffer
      BY <1>4, <2>1 DEF InitialisedIn, MadeOf
    <3> DEFINE buf == pipeline_table'[s].buffer[b]
    <3>2. \E p \in DOMAIN pipeline_table : \E o \in DOMAIN pipeline_table[p].buffer :
              /\ pipeline_table[p].buffer[o].flags = "shared"
              /\ pipeline_table[p].buffer[o].shared_id = buf.shared_id
              /\ buf.base = pipeline_table[p].buffer[o].base
              /\ buf.size = pipeline_table[p].buffer[o].size
      BY <1>4, <2>1, <3>1 DEF InitialisedIn
    <3> HIDE DEF buf
    <3>3. OnSharedBuffer(pipeline_table', s, buf)
      BY <1>4, <1>11, <3>2 DEF OnSharedBuffer
    <3> QED
      BY <2>1, <3>3 DEF buf
  <2>2. CASE q # s
    <3>1. q \in DOMAIN pipeline_table /\ pipeline_table'[q] = pipeline_table[q]
      BY <1>4, <2>2
    <3>2. OnSharedBuffer(pipeline_table, q, pipeline_table[q].buffer[b])
      BY <1>1, <3>1 DEF TableShape, Shares
    <3> QED
      BY <1>4, <3>1, <3>2 DEF OnSharedBuffer
  <2> QED
    BY <2>1, <2>2
<1> QED
  BY <1>6, <1>8, <1>10, <1>12 DEF TableShape

-----------------------------------------------------------------------------
(* The data threads                                                        *)

NextTyped == next_element \in [Thread -> Nat \ {0}]

LEMMA NextTypedInit == Init => NextTyped
BY DEF Init, NextTyped, Thread

LEMMA NextTypedStep ==
  ASSUME NEW l, TableShape(l), NextTyped, [Next]_vars
  PROVE  NextTyped'
<1>1. config \in Configs
  BY DEF TableShape, CommandTyped
<1>2. CASE CommandRun \/ InitPipeline \/ InitPipelineFails \/ SaiSetupFails \/ CommandStop \/ ExitPipeline
  BY <1>2 DEF CommandRun, InitPipeline, InitPipelineFails, SaiSetupFails, CommandStop, ExitPipeline,
     Fail, NextTyped, Thread
<1>3. CASE SaiSetup \/ NextPeriod \/ ResetPipelines
  <2>1. next_element' = [t \in Thread |-> 1] /\ Thread' = Thread
    BY <1>3 DEF SaiSetup, NextPeriod, ResetPipelines, Thread
  <2> QED
    BY <2>1 DEF NextTyped
<1>4. ASSUME NEW t \in Thread, RunElement(t)
      PROVE  NextTyped'
  BY <1>4 DEF RunElement, NextTyped, Thread
<1>5. ASSUME NEW t \in Thread, RunElementFails(t)
      PROVE  NextTyped'
  <2>1. Elements(t) + 1 \in Nat \ {0}
    BY <1>1, ThreadRange, SetConfigSound DEF Elements
  <2> QED
    BY <1>5, <2>1 DEF RunElementFails, NextTyped, Thread
<1>6. CASE UNCHANGED vars
  BY <1>6 DEF vars, NextTyped, Thread
<1> QED
  BY <1>2, <1>3, <1>4, <1>5, <1>6 DEF Next

\* The pipeline of a running thread.
LEMMA RunningPipeline ==
  ASSUME NEW l, TableShape(l), NEW t \in Thread, Live(t)
  PROVE  /\ handle[t] \in DOMAIN pipeline_table /\ handle[t] = l + t - 1 /\ l \in Nat
         /\ MadeOf(Pipeline(t), handle[t], SetConfig(config[t]))
         /\ DOMAIN SetConfig(config[t]).element = 1..Elements(t) /\ Elements(t) \in Nat
<1>1. /\ l + t - 1 \in Slot /\ handle[t] = l + t - 1
      /\ pipeline_table[l + t - 1].cfg = SetConfig(config[t])
      /\ l + t - 1 \in DOMAIN pipeline_table /\ l \in Nat
  BY DEF TableShape, Layout
<1>2. MadeOf(pipeline_table[l + t - 1], l + t - 1, SetConfig(config[t]))
  BY <1>1 DEF TableShape, AllMade
<1>3. WellFormed(config[t])
  BY ThreadRange DEF TableShape, CommandTyped
<1> QED
  BY <1>1, <1>2, <1>3, SetConfigSound DEF Pipeline, Elements

LEMMA RunElementStep ==
  ASSUME NEW l, TableShape(l), NextTyped, NEW t \in Thread, RunElement(t)
  PROVE  /\ next_element[t] \in DOMAIN SetConfig(config[t]).element
         /\ RunsElement(pipeline_table, pipeline_table', handle[t], next_element[t])
<1> DEFINE p == handle[t]
           e == next_element[t]
<1>1. /\ cpc = "running" /\ ~Done(t) /\ pipeline_table' = ElementRun(pipeline_table, p, e)
  BY DEF RunElement
<1>2. /\ p \in DOMAIN pipeline_table
      /\ MadeOf(pipeline_table[p], p, SetConfig(config[t]))
      /\ DOMAIN SetConfig(config[t]).element = 1..Elements(t) /\ Elements(t) \in Nat
  BY <1>1, RunningPipeline DEF Live, Pipeline
<1>3. e \in DOMAIN SetConfig(config[t]).element
  BY <1>1, <1>2 DEF Done, NextTyped
<1> HIDE DEF p, e
<1>4. /\ pipeline_table[p].cfg = SetConfig(config[t])
      /\ Sound(pipeline_table[p].cfg) /\ ConfigCheck(pipeline_table[p].cfg)
      /\ DOMAIN pipeline_table[p].buffer = DOMAIN pipeline_table[p].cfg.buffer
  BY <1>2 DEF MadeOf
<1>5. /\ IsArray(pipeline_table[p].cfg.element[e].input)
      /\ IsArray(pipeline_table[p].cfg.element[e].output)
      /\ Range(pipeline_table[p].cfg.element[e].input) \subseteq DOMAIN pipeline_table[p].buffer
      /\ Range(pipeline_table[p].cfg.element[e].output) \subseteq DOMAIN pipeline_table[p].buffer
  BY <1>3, <1>4 DEF Sound, ConfigCheck
<1>6. RunsElement(pipeline_table, ElementRun(pipeline_table, p, e), p, e)
  BY <1>2, <1>5, MadeRings, ElementRunStep
<1> QED
  BY <1>1, <1>3, <1>6 DEF p, e

LEMMA AgedStep ==
  ASSUME NEW pipeline, DOMAIN pipeline = PipelineFields
  PROVE  /\ DOMAIN Aged(pipeline) = PipelineFields
         /\ Aged(pipeline).cfg = pipeline.cfg /\ Aged(pipeline).buffer = pipeline.buffer
         /\ DOMAIN Aged(pipeline).memory = DOMAIN pipeline.memory
         /\ \A c \in DOMAIN pipeline.memory : Aged(pipeline).memory[c] = Age(pipeline.memory[c])
<1> DEFINE m == [c \in DOMAIN pipeline.memory |-> Age(pipeline.memory[c])]
<1>1. Aged(pipeline) = [pipeline EXCEPT !.memory = m]
  BY DEF Aged
<1>2. DOMAIN m = DOMAIN pipeline.memory /\ \A c \in DOMAIN pipeline.memory : m[c] = Age(pipeline.memory[c])
  OBVIOUS
<1> HIDE DEF m
<1> QED
  BY <1>1, <1>2 DEF PipelineFields

\* The writers' rings are as after their initialisation, the others stay.
LEMMA PipelineResetStep ==
  ASSUME NEW pipeline
  PROVE  LET new == PipelineReset(pipeline) IN
         /\ DOMAIN new = PipelineFields
         /\ new.cfg = pipeline.cfg
         /\ DOMAIN new.buffer = DOMAIN pipeline.buffer
         /\ DOMAIN new.memory = DOMAIN pipeline.memory
         /\ \A b \in DOMAIN pipeline.buffer :
              new.buffer[b] = IF b \in ResetBuffers(pipeline.cfg) THEN Reset(pipeline.buffer[b])
                              ELSE pipeline.buffer[b]
         /\ \A c \in DOMAIN pipeline.memory :
              new.memory[c] = IF c \in Silences(pipeline.buffer, ResetBuffers(pipeline.cfg)) THEN "last"
                              ELSE pipeline.memory[c]
<1> DEFINE reset == ResetBuffers(pipeline.cfg)
           buffer == [b \in DOMAIN pipeline.buffer |->
                 IF b \in reset THEN Reset(pipeline.buffer[b]) ELSE pipeline.buffer[b]]
           memory == [c \in DOMAIN pipeline.memory |->
                 IF c \in Silences(pipeline.buffer, reset) THEN "last" ELSE pipeline.memory[c]]
           started == [e \in DOMAIN pipeline.started |-> FALSE]
           new == [cfg |-> pipeline.cfg, buffer |-> buffer, memory |-> memory, started |-> started]
<1>1. PipelineReset(pipeline) = new
  BY DEF PipelineReset
<1>2. /\ DOMAIN buffer = DOMAIN pipeline.buffer /\ DOMAIN memory = DOMAIN pipeline.memory
      /\ \A b \in DOMAIN pipeline.buffer :
           buffer[b] = IF b \in reset THEN Reset(pipeline.buffer[b]) ELSE pipeline.buffer[b]
      /\ \A c \in DOMAIN pipeline.memory :
           memory[c] = IF c \in Silences(pipeline.buffer, reset) THEN "last" ELSE pipeline.memory[c]
  OBVIOUS
<1> HIDE DEF buffer, memory, started, reset
<1>3. DOMAIN new = PipelineFields /\ new.cfg = pipeline.cfg /\ new.buffer = buffer /\ new.memory = memory
  BY DEF PipelineFields
<1> HIDE DEF new
<1> QED
  BY <1>1, <1>2, <1>3 DEF reset

LEMMA TablePeriod ==
  ASSUME NEW l, TableShape(l), NextPeriod \/ ResetPipelines
  PROVE  KeepsAll(pipeline_table, pipeline_table')
<1>1. /\ DOMAIN pipeline_table' = DOMAIN pipeline_table
      /\ \A q \in DOMAIN pipeline_table :
           \/ pipeline_table'[q] = Aged(pipeline_table[q])
           \/ pipeline_table'[q] = PipelineReset(Aged(pipeline_table[q]))
  BY DEF NextPeriod, ResetPipelines
<1> SUFFICES ASSUME NEW q \in DOMAIN pipeline_table
             PROVE  LET old == pipeline_table[q]  new == pipeline_table'[q] IN
                    /\ DOMAIN new = PipelineFields
                    /\ new.cfg = old.cfg
                    /\ DOMAIN new.memory = DOMAIN old.memory
                    /\ DOMAIN new.buffer = DOMAIN old.buffer
                    /\ \A b \in DOMAIN old.buffer : Turns(old.buffer[b], new.buffer[b])
  BY <1>1 DEF KeepsAll
<1> DEFINE old == pipeline_table[q]
           aged == Aged(old)
           new == pipeline_table'[q]
<1>2. DOMAIN old = PipelineFields /\ \A b \in DOMAIN old.buffer : IsRing(old.buffer[b])
  BY MadeRings DEF Rings
<1> HIDE DEF old
<1>3. /\ DOMAIN aged = PipelineFields /\ aged.cfg = old.cfg /\ aged.buffer = old.buffer
      /\ DOMAIN aged.memory = DOMAIN old.memory
  BY <1>2, AgedStep
<1> HIDE DEF aged
<1>4. new = aged \/ new = PipelineReset(aged)
  BY <1>1 DEF aged, old
<1> HIDE DEF new
<1>5. CASE new = aged
  BY <1>2, <1>3, <1>5 DEF old, new, Turns
<1>6. CASE new = PipelineReset(aged)
  <2>1. /\ DOMAIN new = PipelineFields
        /\ new.cfg = aged.cfg
        /\ DOMAIN new.buffer = DOMAIN aged.buffer
        /\ DOMAIN new.memory = DOMAIN aged.memory
        /\ \A b \in DOMAIN aged.buffer : new.buffer[b] = Reset(aged.buffer[b]) \/ new.buffer[b] = aged.buffer[b]
    BY <1>6, PipelineResetStep
  <2>2. \A b \in DOMAIN old.buffer : Turns(old.buffer[b], Reset(old.buffer[b])) /\ Turns(old.buffer[b], old.buffer[b])
    BY <1>2, ResetStep DEF IsRing, Turns
  <2> QED
    BY <1>3, <2>1, <2>2 DEF old, new
<1> QED
  BY <1>4, <1>5, <1>6

LEMMA TableStep ==
  ASSUME NEW l, TableShape(l), NextTyped, [Next]_vars
  PROVE  \E k \in Nat : TableShape(k)'
<1>1. l \in Nat
  BY DEF TableShape, Layout
<1>2. CASE CommandRun \/ SaiSetup \/ CommandStop
  BY <1>1, <1>2, TableCommand
<1>3. CASE InitPipeline
  BY <1>1, <1>3, TableInitPipeline
<1>4. CASE InitPipelineFails \/ SaiSetupFails
  BY <1>4, TableFail
<1>5. CASE ExitPipeline
  BY <1>1, <1>5, TableExit
<1>6. ASSUME NEW t \in Thread, RunElement(t)
      PROVE  \E k \in Nat : TableShape(k)'
  <2>1. KeepsAll(pipeline_table, pipeline_table')
    BY <1>6, RunElementStep DEF RunsElement, KeepsTable, KeepsAll
  <2> QED
    BY <1>1, <1>6, <2>1, KeepsShape DEF RunElement
<1>7. CASE NextPeriod \/ ResetPipelines
  BY <1>1, <1>7, TablePeriod, KeepsShape DEF NextPeriod, ResetPipelines
<1>8. ASSUME UNCHANGED <<config, pipeline_table, handle, cpc, ci, failures>>
      PROVE  \E k \in Nat : TableShape(k)'
  <2>1. KeepsAll(pipeline_table, pipeline_table')
    BY <1>8, MadeRings DEF KeepsAll, Rings, Turns
  <2> QED
    BY <1>1, <1>8, <2>1, KeepsShape
<1>9. ASSUME NEW t \in Thread, RunElementFails(t)
      PROVE  \E k \in Nat : TableShape(k)'
  BY <1>8, <1>9 DEF RunElementFails
<1>10. CASE UNCHANGED vars
  BY <1>8, <1>10 DEF vars
<1> QED
  BY <1>2, <1>3, <1>4, <1>5, <1>6, <1>7, <1>9, <1>10 DEF Next

\* The table has the pipelines of the threads behind what failed RUN commands left,
\* and every ring lies where the configuration puts it.
THEOREM PipelinesInOrder == Spec => [](TableInv /\ NextTyped)
<1>1. Init => TableInv /\ NextTyped
  BY TableInit, NextTypedInit DEF TableInv
<1>2. TableInv /\ NextTyped /\ [Next]_vars => TableInv' /\ NextTyped'
  <2> SUFFICES ASSUME TableInv, NextTyped, [Next]_vars
               PROVE  TableInv' /\ NextTyped'
    OBVIOUS
  <2>1. PICK l \in Nat : TableShape(l)
    BY DEF TableInv
  <2>2. \E k \in Nat : TableShape(k)'
    BY <2>1, TableStep
  <2>3. NextTyped'
    BY <2>1, NextTypedStep
  <2> QED
    BY <2>2, <2>3 DEF TableInv
<1> QED
  BY <1>1, <1>2, PTL DEF Spec

\* Readers of shared buffers read those of the running configuration, whatever was
\* configured before, as long as no RUN command has failed.
THEOREM ReadersShareWithOwners == Spec => []SharesWithItsOwner
<1>1. TableInv => SharesWithItsOwner
  <2> SUFFICES ASSUME TableInv, cpc = "running", failures = 0,
                      NEW t \in Thread, NEW b \in SharedReaders(Pipeline(t))
               PROVE  \E u \in Thread : \E o \in DOMAIN config[u].buffer :
                        /\ config[u].buffer[o].flags = "shared"
                        /\ config[u].buffer[o].shared_id = config[t].buffer[b].shared_id
                        /\ Pipeline(t).buffer[b].base = Pipeline(u).buffer[o].base
                        /\ Pipeline(t).buffer[b].size = Pipeline(u).buffer[o].size
    BY DEF SharesWithItsOwner
  <2>1. TableShape(0)
    <3>1. PICK l \in Nat : TableShape(l)
      BY DEF TableInv
    <3>2. l = 0
      BY <3>1 DEF TableShape, Layout
    <3> QED
      BY <3>1, <3>2
  <2>2. \A u \in Thread : Live(u) /\ WellFormed(config[u])
    BY <2>1, ThreadRange DEF Live, TableShape, CommandTyped
  <2> DEFINE buf == Pipeline(t).buffer[b]
  <2>3. /\ handle[t] \in DOMAIN pipeline_table
        /\ MadeOf(Pipeline(t), handle[t], SetConfig(config[t]))
    BY <2>1, <2>2, RunningPipeline
  <2>4. b \in DOMAIN Pipeline(t).buffer /\ buf.flags = "shared_user"
    BY DEF SharedReaders
  <2>5. b \in DOMAIN config[t].buffer /\ buf.shared_id = config[t].buffer[b].shared_id
    <3>1. /\ DOMAIN SetConfig(config[t]).buffer = DOMAIN config[t].buffer
          /\ \A c \in DOMAIN config[t].buffer :
               SetConfig(config[t]).buffer[c].shared_id = config[t].buffer[c].shared_id
      BY <2>2, SetConfigSound
    <3>2. /\ b \in DOMAIN SetConfig(config[t]).buffer
          /\ buf.shared_id = SetConfig(config[t]).buffer[b].shared_id
      BY <2>3, <2>4 DEF MadeOf
    <3> QED
      BY <3>1, <3>2
  <2>6. OnSharedBuffer(pipeline_table, handle[t], buf)
    BY <2>1, <2>3, <2>4 DEF TableShape, Shares, Pipeline
  <2> HIDE DEF buf
  <2>7. PICK p \in DOMAIN pipeline_table : \E o \in DOMAIN pipeline_table[p].buffer :
          /\ pipeline_table[p].buffer[o].flags = "shared"
          /\ pipeline_table[p].buffer[o].shared_id = buf.shared_id
          /\ buf.base = pipeline_table[p].buffer[o].base
          /\ buf.size = pipeline_table[p].buffer[o].size
    BY <2>6 DEF OnSharedBuffer
  <2>8. PICK o \in DOMAIN pipeline_table[p].buffer :
          /\ pipeline_table[p].buffer[o].flags = "shared"
          /\ pipeline_table[p].buffer[o].shared_id = buf.shared_id
          /\ buf.base = pipeline_table[p].buffer[o].base
          /\ buf.size = pipeline_table[p].buffer[o].size
    BY <2>7
  <2>9. PICK u \in Thread : p = 0 + u - 1
    <3>1. p \in Slot /\ ~(p < 0)
      <4>1. p \in Slot
        BY <2>1 DEF TableShape, Layout
      <4> QED
        BY <4>1, MaxPipelinesAssumption DEF Slot
    <3> QED
      BY <2>1, <3>1 DEF TableShape, Layout
  <2>10. handle[u] = p
    BY <2>1, <2>2, <2>9, RunningPipeline
  <2>11. MadeOf(Pipeline(u), p, SetConfig(config[u])) /\ Pipeline(u) = pipeline_table[p]
    BY <2>1, <2>2, <2>10, RunningPipeline DEF Pipeline
  <2>12. /\ o \in DOMAIN config[u].buffer
         /\ config[u].buffer[o].flags = "shared"
         /\ config[u].buffer[o].shared_id = Pipeline(u).buffer[o].shared_id
    <3>1. /\ DOMAIN SetConfig(config[u]).buffer = DOMAIN config[u].buffer
          /\ \A c \in DOMAIN config[u].buffer :
               /\ SetConfig(config[u]).buffer[c].flags = config[u].buffer[c].flags
               /\ SetConfig(config[u]).buffer[c].shared_id = config[u].buffer[c].shared_id
      BY <2>2, SetConfigSound
    <3>2. /\ o \in DOMAIN SetConfig(config[u]).buffer
          /\ SetConfig(config[u]).buffer[o].flags = "shared"
          /\ SetConfig(config[u]).buffer[o].shared_id = Pipeline(u).buffer[o].shared_id
      BY <2>8, <2>11 DEF MadeOf
    <3> QED
      BY <3>1, <3>2
  <2> QED
    BY <2>5, <2>8, <2>11, <2>12 DEF buf
<1> QED
  BY <1>1, PipelinesInOrder, PTL

-----------------------------------------------------------------------------
(* Writers and readers in phase                                            *)

\* A ring whose writer is n periods ahead of its reader.
Ahead(buf, n) ==
  LET w == Wrap(buf.size) IN
  /\ n = 0 => buf.write = buf.read
  /\ n = 1 => buf.write = After(buf.read, w)
  /\ n = 2 => buf.write = After(After(buf.read, w), w)

LEMMA RingWrap ==
  ASSUME NEW buf, IsRing(buf)
  PROVE  /\ Wrap(buf.size) \in Nat \ {0}
         /\ buf.read \in 0..Wrap(buf.size)-1 /\ buf.write \in 0..Wrap(buf.size)-1
         /\ buf.silence \in {0, 1}
<1>1. Wrap(buf.size) \in Nat \ {0} /\ buf.read \in Nat /\ buf.write \in Nat /\ buf.silence \in {0, 1}
  BY WrapBounds DEF IsRing, Ring
<1>2. buf.read < Wrap(buf.size) /\ buf.write < Wrap(buf.size)
  BY DEF IsRing
<1> QED
  BY <1>1, <1>2

LEMMA FreshAhead ==
  ASSUME NEW buf, IsRing(buf), FreshRing(buf)
  PROVE  Ahead(buf, buf.silence)
<1> DEFINE w == Wrap(buf.size)
<1>1. w \in Nat \ {0} /\ buf.silence \in {0, 1} /\ buf.read = 0 /\ buf.write = buf.silence % w
  BY RingWrap DEF FreshRing
<1> HIDE DEF w
<1>2. 0 \in 0..w-1
  BY <1>1
<1>3. 0 % w = 0 /\ (0 + 1) % w = After(0, w)
  BY <1>1, <1>2, ModOnce
<1>4. 0 + 1 = 1
  OBVIOUS
<1>5. /\ buf.silence = 0 => buf.write = 0
      /\ buf.silence = 1 => buf.write = After(0, w)
  BY <1>1, <1>3, <1>4
<1>6. buf.silence # 2
  BY <1>1
<1> QED
  BY <1>1, <1>5, <1>6 DEF Ahead, w

LEMMA WriteAhead ==
  ASSUME NEW buf, IsRing(buf), NEW new, new.size = buf.size,
         new.read = buf.read, new.write = (buf.write + 1) % Wrap(buf.size),
         NEW n \in {0, 1}, Ahead(buf, n)
  PROVE  Ahead(new, n + 1)
<1>1. (buf.write + 1) % Wrap(buf.size) = After(buf.write, Wrap(buf.size))
  BY RingWrap, ModOnce
<1> QED
  BY <1>1 DEF Ahead

LEMMA ReadAhead ==
  ASSUME NEW buf, IsRing(buf), NEW new, new.size = buf.size,
         new.write = buf.write, new.read = (buf.read + 1) % Wrap(buf.size),
         NEW n \in {0, 1}, Ahead(buf, n + 1)
  PROVE  Ahead(new, n)
<1>1. (buf.read + 1) % Wrap(buf.size) = After(buf.read, Wrap(buf.size))
  BY RingWrap, ModOnce
<1> QED
  BY <1>1 DEF Ahead

\* One if thread t has gone past element e in this period.
Past(t, e) == IF next_element[t] > e THEN 1 ELSE 0

Configured(t) == SetConfig(config[t])
BufferOf(t, b) == pipeline_table[handle[t]].buffer[b]

\* The silence, and the period in between, are all that is in a ring.
InPhase(t) ==
  \A b \in DOMAIN Configured(t).buffer : \A o, i \in DOMAIN Configured(t).element :
    Carried(Configured(t), b, o, i) /\ BufferOf(t, b).flags # "shared_user"
      => Ahead(BufferOf(t, b), BufferOf(t, b).silence + Past(t, o) - Past(t, i))

FreshRings(t) == \A b \in DOMAIN Configured(t).buffer : FreshRing(BufferOf(t, b))

\* A thread whose run failed waits for the reset.
PhaseInv(t) ==
  /\ Live(t) /\ cpc \in {"init", "setup"} => FreshRings(t)
  /\ cpc = "running" /\ ~(resetting /\ Done(t)) => InPhase(t)

LEMMA PhaseCommand ==
  ASSUME NEW l, TableShape(l), NextTyped, NEW t \in Thread, PhaseInv(t),
         \/ CommandRun \/ InitPipeline \/ InitPipelineFails \/ SaiSetup \/ SaiSetupFails
         \/ CommandStop \/ ExitPipeline
  PROVE  PhaseInv(t)'
<1>1. /\ config \in Configs /\ config' = config
      /\ Len(config) \in Nat /\ Len(config) > 0 /\ Thread = 1..Len(config) /\ ci \in Thread
  BY ThreadRange DEF TableShape, CommandTyped, CommandRun, InitPipeline, InitPipelineFails, SaiSetup,
     SaiSetupFails, CommandStop, ExitPipeline, Fail
<1>2. CASE CommandRun
  BY <1>1, <1>2 DEF CommandRun, PhaseInv, Live
<1>3. CASE InitPipelineFails \/ SaiSetupFails
  BY <1>1, <1>3 DEF InitPipelineFails, SaiSetupFails, Fail, PhaseInv, Live
<1>4. CASE CommandStop \/ ExitPipeline
  BY <1>1, <1>4 DEF CommandStop, ExitPipeline, PhaseInv, Live
<1>5. CASE SaiSetup
  <2>1. /\ Live(t) /\ cpc = "setup" /\ cpc' = "running" /\ next_element' = [u \in Thread |-> 1]
        /\ UNCHANGED <<config, pipeline_table, handle>>
    BY <1>5 DEF SaiSetup, Live
  <2>2. FreshRings(t)
    BY <2>1 DEF PhaseInv
  <2>3. MadeOf(Pipeline(t), handle[t], Configured(t)) /\ DOMAIN Configured(t).element = 1..Elements(t)
        /\ Elements(t) \in Nat
    BY <2>1, RunningPipeline DEF Configured
  <2>4. ASSUME NEW b \in DOMAIN Configured(t).buffer, NEW o \in DOMAIN Configured(t).element,
               NEW i \in DOMAIN Configured(t).element
        PROVE  Ahead(BufferOf(t, b), BufferOf(t, b).silence + Past(t, o)' - Past(t, i)')
    <3>1. IsRing(BufferOf(t, b)) /\ FreshRing(BufferOf(t, b))
      BY <2>2, <2>3 DEF MadeOf, FreshRings, BufferOf, Pipeline
    <3>2. Past(t, o)' = 0 /\ Past(t, i)' = 0
      <4>1. next_element'[t] = 1
        BY <2>1
      <4> QED
        BY <2>3, <4>1 DEF Past
    <3>3. BufferOf(t, b).silence + 0 - 0 = BufferOf(t, b).silence
      BY <3>1, RingWrap
    <3> QED
      BY <3>1, <3>2, <3>3, FreshAhead
  <2>5. InPhase(t)'
    BY <2>1, <2>4 DEF InPhase, Configured, BufferOf
  <2> QED
    BY <2>1, <2>5 DEF PhaseInv
<1>6. CASE InitPipeline
  <2>1. cpc = "init" /\ cpc' \in {"init", "setup"} /\ (Live(t)' => Live(t) \/ t = ci)
    BY <1>1, <1>6 DEF InitPipeline, Live
  <2>2. /\ l + ci - 1 \notin DOMAIN pipeline_table
        /\ \A q \in DOMAIN pipeline_table : pipeline_table'[q] = pipeline_table[q]
        /\ InitialisedIn(pipeline_table, pipeline_table'[l + ci - 1], l + ci - 1, SetConfig(config[ci]))
        /\ handle' = [handle EXCEPT ![ci] = l + ci - 1]
    BY <1>6, PipelineInitialised
  <2>3. DOMAIN handle = Thread
    BY DEF TableShape, CommandTyped
  <2>4. CASE t = ci
    <3>1. handle'[t] = l + ci - 1
      BY <2>2, <2>3, <2>4
    <3>2. FreshRings(t)'
      BY <1>1, <2>2, <2>4, <3>1 DEF FreshRings, Configured, BufferOf, InitialisedIn
    <3> QED
      BY <2>1, <3>2 DEF PhaseInv
  <2>5. CASE t # ci /\ Live(t)
    <3>1. handle'[t] = handle[t] /\ pipeline_table'[handle[t]] = pipeline_table[handle[t]]
      BY <2>2, <2>3, <2>5, RunningPipeline
    <3>2. FreshRings(t)
      BY <2>1, <2>5 DEF PhaseInv
    <3>3. FreshRings(t)'
      BY <1>1, <3>1, <3>2 DEF FreshRings, Configured, BufferOf
    <3> QED
      BY <2>1, <3>3 DEF PhaseInv
  <2>6. CASE t # ci /\ ~Live(t)
    BY <2>1, <2>6 DEF PhaseInv
  <2> QED
    BY <2>4, <2>5, <2>6
<1> QED
  BY <1>2, <1>3, <1>4, <1>5, <1>6

\* The elements that do not name a ring leave it alone, the writer moves it ahead and
\* the reader catches up.
LEMMA PhaseRun ==
  ASSUME NEW l, TableShape(l), NextTyped, NEW t \in Thread, PhaseInv(t), RunElement(t)
  PROVE  PhaseInv(t)'
<1> DEFINE p == handle[t]
           e == next_element[t]
           cfg == Configured(t)
<1>1. /\ cpc = "running" /\ ~Done(t) /\ UNCHANGED <<config, handle, cpc>>
      /\ next_element' = [next_element EXCEPT ![t] = @ + 1]
  BY DEF RunElement
<1>2. /\ p \in DOMAIN pipeline_table /\ MadeOf(pipeline_table[p], p, cfg)
      /\ DOMAIN cfg.element = 1..Elements(t) /\ Elements(t) \in Nat
  BY <1>1, RunningPipeline DEF Live, Pipeline, Configured
<1>3. e \in DOMAIN cfg.element /\ RunsElement(pipeline_table, pipeline_table', p, e)
  BY RunElementStep DEF Configured
<1>4. InPhase(t)
  BY <1>1 DEF PhaseInv
<1>5. e \in Nat /\ next_element'[t] = e + 1
  BY <1>1 DEF NextTyped
<1>6. Configured(t)' = cfg
  BY <1>1 DEF Configured
<1>7. \A b \in DOMAIN cfg.buffer : BufferOf(t, b) = pipeline_table[p].buffer[b]
  BY DEF BufferOf
<1>8. \A b \in DOMAIN cfg.buffer : BufferOf(t, b)' = pipeline_table'[p].buffer[b]
  BY <1>1 DEF BufferOf
<1> HIDE DEF p, e, cfg
<1>9. ASSUME NEW b \in DOMAIN cfg.buffer, NEW o \in DOMAIN cfg.element, NEW i \in DOMAIN cfg.element,
             Carried(cfg, b, o, i), BufferOf(t, b)'.flags # "shared_user"
      PROVE  Ahead(BufferOf(t, b)', BufferOf(t, b)'.silence + Past(t, o)' - Past(t, i)')
  <2> DEFINE old == pipeline_table[p].buffer[b]
             new == pipeline_table'[p].buffer[b]
             w   == Wrap(old.size)
  <2>1. IsRing(old) /\ b \in DOMAIN pipeline_table[p].buffer /\ pipeline_table[p].cfg = cfg
    BY <1>2 DEF MadeOf
  <2>2. Turns(old, new)
    BY <1>2, <1>3, <2>1 DEF RunsElement, KeepsTable
  <2>3. /\ new.write = (old.write + Times(cfg.element[e].output, b)) % w
        /\ Times(cfg.element[e].input, b) \in {0, 1} =>
             new.read = (old.read + Times(cfg.element[e].input, b)) % w
    BY <1>3, <2>1 DEF RunsElement
  <2>4. /\ Times(cfg.element[e].output, b) = (IF e = o THEN 1 ELSE 0)
        /\ Times(cfg.element[e].input, b) = (IF e = i THEN 1 ELSE 0)
        /\ o < i
    BY <1>3, <1>9 DEF Carried
  <2> HIDE DEF old, new, w
  <2>5. w \in Nat \ {0} /\ old.read \in 0..w-1 /\ old.write \in 0..w-1 /\ old.silence \in {0, 1}
    BY <2>1, RingWrap DEF w
  <2>6. /\ new.write = IF e = o THEN (old.write + 1) % w ELSE old.write
        /\ new.read = IF e = i THEN (old.read + 1) % w ELSE old.read
    <3>1. /\ new.write = (old.write + (IF e = o THEN 1 ELSE 0)) % w
          /\ new.read = (old.read + (IF e = i THEN 1 ELSE 0)) % w
      BY <2>3, <2>4
    <3>2. (old.write + 0) % w = old.write /\ (old.read + 0) % w = old.read
      <4>1. old.write % w = old.write /\ old.read % w = old.read
        BY <2>5, ModOnce
      <4>2. old.write + 0 = old.write /\ old.read + 0 = old.read
        BY <2>5
      <4> QED
        BY <4>1, <4>2
    <3> QED
      BY <3>1, <3>2
  <2>7. new.flags = old.flags /\ new.silence = old.silence /\ new.size = old.size
    BY <2>2 DEF Turns
  <2>8. Ahead(old, old.silence + Past(t, o) - Past(t, i))
    BY <1>4, <1>7, <1>8, <1>9, <2>7 DEF InPhase, cfg, old, new
  <2>9. /\ Past(t, o) = (IF e > o THEN 1 ELSE 0) /\ Past(t, i) = (IF e > i THEN 1 ELSE 0)
        /\ Past(t, o)' = (IF e + 1 > o THEN 1 ELSE 0) /\ Past(t, i)' = (IF e + 1 > i THEN 1 ELSE 0)
    BY <1>5 DEF Past, e
  <2>10. o \in Nat /\ i \in Nat /\ e \in Nat
    BY <1>2, <1>5
  <2>11. Ahead(new, new.silence + Past(t, o)' - Past(t, i)')
    <3>1. CASE e = o
      <4>1. /\ old.silence + Past(t, o) - Past(t, i) = old.silence
            /\ new.silence + Past(t, o)' - Past(t, i)' = old.silence + 1
        BY <2>4, <2>5, <2>7, <2>9, <2>10, <3>1
      <4>2. e # i
        BY <2>4, <2>10, <3>1
      <4>3. new.read = old.read /\ new.write = (old.write + 1) % Wrap(old.size)
        BY <2>6, <3>1, <4>2 DEF w
      <4> QED
        BY <2>1, <2>5, <2>7, <2>8, <4>1, <4>3, WriteAhead DEF old
    <3>2. CASE e = i
      <4>1. /\ old.silence + Past(t, o) - Past(t, i) = old.silence + 1
            /\ new.silence + Past(t, o)' - Past(t, i)' = old.silence
        BY <2>4, <2>5, <2>7, <2>9, <2>10, <3>2
      <4>2. e # o
        BY <2>4, <2>10, <3>2
      <4>3. new.write = old.write /\ new.read = (old.read + 1) % Wrap(old.size)
        BY <2>6, <3>2, <4>2 DEF w
      <4> QED
        BY <2>1, <2>5, <2>7, <2>8, <4>1, <4>3, ReadAhead DEF old
    <3>3. CASE e # o /\ e # i
      <4>1. Past(t, o)' = Past(t, o) /\ Past(t, i)' = Past(t, i)
        BY <2>9, <2>10, <3>3
      <4>2. new.read = old.read /\ new.write = old.write
        BY <2>6, <3>3
      <4> QED
        BY <2>7, <2>8, <4>1, <4>2 DEF Ahead
    <3> QED
      BY <3>1, <3>2, <3>3
  <2> QED
    BY <1>8, <2>11 DEF new
<1>10. InPhase(t)'
  BY <1>6, <1>9 DEF InPhase
<1> QED
  BY <1>1, <1>10 DEF PhaseInv

LEMMA PhaseKept ==
  ASSUME NEW l, TableShape(l), NextTyped, NEW t \in Thread, PhaseInv(t), cpc = "running",
         UNCHANGED <<config, handle, cpc>>, next_element'[t] = next_element[t],
         resetting => resetting', \A b \in DOMAIN Configured(t).buffer : BufferOf(t, b)' = BufferOf(t, b)
  PROVE  PhaseInv(t)'
<1>1. Elements(t)' = Elements(t) /\ Configured(t)' = Configured(t)
  BY DEF Elements, Configured
<1>2. Done(t)' <=> Done(t)
  BY <1>1 DEF Done
<1>3. \A e : Past(t, e)' = Past(t, e)
  BY DEF Past
<1>4. InPhase(t) => InPhase(t)'
  BY <1>1, <1>3 DEF InPhase
<1> QED
  BY <1>2, <1>4 DEF PhaseInv

\* A thread leaves the rings of the other pipelines alone.
LEMMA PhaseOthers ==
  ASSUME NEW l, TableShape(l), NextTyped, NEW t \in Thread, PhaseInv(t),
         NEW u \in Thread, u # t, RunElement(u) \/ RunElementFails(u)
  PROVE  PhaseInv(t)'
<1>1. /\ cpc = "running" /\ UNCHANGED <<config, handle, cpc>> /\ (resetting => resetting')
      /\ DOMAIN next_element = Thread
  BY DEF RunElement, RunElementFails, NextTyped
<1>2. next_element'[t] = next_element[t]
  BY <1>1 DEF RunElement, RunElementFails
<1>3. /\ handle[t] = l + t - 1 /\ handle[u] = l + u - 1 /\ l \in Nat
      /\ handle[t] \in DOMAIN pipeline_table
      /\ MadeOf(pipeline_table[handle[t]], handle[t], Configured(t))
  BY <1>1, RunningPipeline DEF Live, Pipeline, Configured
<1>4. handle[t] # handle[u]
  <2>1. t \in Int /\ u \in Int
    BY ThreadRange DEF TableShape, CommandTyped
  <2> QED
    BY <1>3, <2>1
<1>5. pipeline_table'[handle[t]].buffer = pipeline_table[handle[t]].buffer
  <2>1. CASE RunElement(u)
    BY <1>3, <1>4, <2>1, RunElementStep DEF RunsElement, KeepsTable
  <2>2. CASE RunElementFails(u)
    BY <2>2 DEF RunElementFails
  <2> QED
    BY <2>1, <2>2
<1> QED
  BY <1>1, <1>2, <1>5, PhaseKept DEF BufferOf

\* The thread whose run fails waits for the reset.
LEMMA PhaseFails ==
  ASSUME NEW l, TableShape(l), NextTyped, NEW t \in Thread, RunElementFails(t)
  PROVE  PhaseInv(t)'
<1>1. cpc' = "running" /\ resetting' /\ next_element'[t] = Elements(t) + 1 /\ Elements(t)' = Elements(t)
  BY DEF RunElementFails, NextTyped, Elements
<1>2. Elements(t) \in Nat
  BY RunningPipeline DEF Live, RunElementFails
<1> QED
  BY <1>1, <1>2 DEF PhaseInv, Done

\* Nothing has been executed yet in a period.
LEMMA PhaseBegins ==
  ASSUME NEW l, TableShape(l), NEW t \in Thread, cpc = "running",
         UNCHANGED <<config, handle, cpc>>, next_element'[t] = 1,
         \A b \in DOMAIN Configured(t).buffer : \A o, i \in DOMAIN Configured(t).element :
           Carried(Configured(t), b, o, i) /\ BufferOf(t, b)'.flags # "shared_user"
             => Ahead(BufferOf(t, b)', BufferOf(t, b)'.silence) /\ BufferOf(t, b)'.silence \in {0, 1}
  PROVE  PhaseInv(t)'
<1>1. Configured(t)' = Configured(t)
  BY DEF Configured
<1>2. DOMAIN Configured(t).element = 1..Elements(t) /\ Elements(t) \in Nat
  BY RunningPipeline DEF Live, Configured
<1>3. \A e \in DOMAIN Configured(t).element : Past(t, e)' = 0
  BY <1>2 DEF Past
<1>4. \A n \in {0, 1} : n + 0 - 0 = n
  OBVIOUS
<1>5. InPhase(t)'
  <2> SUFFICES ASSUME NEW b \in DOMAIN Configured(t).buffer,
                      NEW o \in DOMAIN Configured(t).element, NEW i \in DOMAIN Configured(t).element,
                      Carried(Configured(t), b, o, i), BufferOf(t, b)'.flags # "shared_user"
               PROVE  Ahead(BufferOf(t, b)', BufferOf(t, b)'.silence + Past(t, o)' - Past(t, i)')
    BY <1>1 DEF InPhase
  <2>1. Past(t, o)' = 0 /\ Past(t, i)' = 0
    BY <1>3
  <2>2. Ahead(BufferOf(t, b)', BufferOf(t, b)'.silence) /\ BufferOf(t, b)'.silence \in {0, 1}
    OBVIOUS
  <2> QED
    BY <1>4, <2>1, <2>2
<1> QED
  BY <1>5 DEF PhaseInv

\* When all elements have run the silence is all that is left in a ring.
LEMMA PhaseEnds ==
  ASSUME NEW l, TableShape(l), NextTyped, NEW t \in Thread, PhaseInv(t), AllDone, ~resetting,
         NEW b \in DOMAIN Configured(t).buffer,
         NEW o \in DOMAIN Configured(t).element, NEW i \in DOMAIN Configured(t).element,
         Carried(Configured(t), b, o, i), BufferOf(t, b).flags # "shared_user"
  PROVE  /\ IsRing(BufferOf(t, b))
         /\ Ahead(BufferOf(t, b), BufferOf(t, b).silence) /\ BufferOf(t, b).silence \in {0, 1}
<1>1. cpc = "running" /\ Done(t)
  BY DEF AllDone
<1>2. /\ DOMAIN Configured(t).element = 1..Elements(t) /\ Elements(t) \in Nat
      /\ MadeOf(Pipeline(t), handle[t], Configured(t))
  BY <1>1, RunningPipeline DEF Live, Configured
<1>3. IsRing(BufferOf(t, b))
  BY <1>2 DEF MadeOf, BufferOf, Pipeline
<1>4. next_element[t] \in Nat /\ next_element[t] > Elements(t)
  BY <1>1 DEF NextTyped, Done
<1>5. Past(t, o) = 1 /\ Past(t, i) = 1
  BY <1>2, <1>4 DEF Past
<1>6. Ahead(BufferOf(t, b), BufferOf(t, b).silence + Past(t, o) - Past(t, i))
  BY <1>1 DEF PhaseInv, InPhase
<1>7. BufferOf(t, b).silence \in {0, 1} /\ \A n \in {0, 1} : n + 1 - 1 = n
  BY <1>3, RingWrap
<1> QED
  BY <1>3, <1>5, <1>6, <1>7

LEMMA PhaseNextPeriod ==
  ASSUME NEW l, TableShape(l), NextTyped, NEW t \in Thread, PhaseInv(t), NextPeriod
  PROVE  PhaseInv(t)'
<1>1. /\ cpc = "running" /\ AllDone /\ ~resetting /\ UNCHANGED <<config, handle, cpc>>
      /\ next_element'[t] = 1
      /\ \A q \in DOMAIN pipeline_table : pipeline_table'[q] = Aged(pipeline_table[q])
  BY DEF NextPeriod, AllDone
<1>2. handle[t] \in DOMAIN pipeline_table /\ MadeOf(pipeline_table[handle[t]], handle[t], Configured(t))
  BY <1>1, RunningPipeline DEF Live, Pipeline, Configured
<1>3. pipeline_table'[handle[t]].buffer = pipeline_table[handle[t]].buffer
  BY <1>1, <1>2, AgedStep DEF MadeOf
<1>4. \A b : BufferOf(t, b)' = BufferOf(t, b)
  BY <1>1, <1>3 DEF BufferOf
<1>5. \A b \in DOMAIN Configured(t).buffer : \A o, i \in DOMAIN Configured(t).element :
        Carried(Configured(t), b, o, i) /\ BufferOf(t, b)'.flags # "shared_user"
          => Ahead(BufferOf(t, b)', BufferOf(t, b)'.silence) /\ BufferOf(t, b)'.silence \in {0, 1}
  BY <1>1, <1>4, PhaseEnds
<1> QED
  BY <1>1, <1>5, PhaseBegins

\* A ring that an element writes is reset.
LEMMA WrittenReset ==
  ASSUME NEW cfg, ConfigCheck(cfg), NEW o \in DOMAIN cfg.element, NEW b \in Range(cfg.element[o].output)
  PROVE  b \in ResetBuffers(cfg)
<1>1. cfg.element[o].type # "AVTP_SINK"
  <2> SUFFICES ASSUME cfg.element[o].type = "AVTP_SINK" PROVE FALSE
    OBVIOUS
  <2>1. ElementCheck(cfg.element[o])
    BY DEF ConfigCheck
  <2>2. cfg.element[o].output = <<>>
    BY <2>1 DEF ElementCheck
  <2> QED
    BY <2>2 DEF Range
<1> QED
  BY <1>1 DEF ResetBuffers

LEMMA PhaseReset ==
  ASSUME NEW l, TableShape(l), NextTyped, NEW t \in Thread, ResetPipelines
  PROVE  PhaseInv(t)'
<1> DEFINE p == handle[t]
           cfg == Configured(t)
           aged == Aged(pipeline_table[p])
<1>1. /\ cpc = "running" /\ UNCHANGED <<config, handle, cpc>> /\ next_element'[t] = 1
      /\ DOMAIN handle = Thread
  BY DEF ResetPipelines, AllDone, TableShape, CommandTyped
<1>2. p \in DOMAIN pipeline_table /\ MadeOf(pipeline_table[p], p, cfg)
  BY <1>1, RunningPipeline DEF Live, Pipeline, Configured
<1>3. p \in Range(handle)
  BY <1>1 DEF Range
<1>4. pipeline_table'[p] = PipelineReset(aged)
  BY <1>2, <1>3 DEF ResetPipelines
<1>5. \A b : BufferOf(t, b)' = pipeline_table'[p].buffer[b]
  BY <1>1 DEF BufferOf
<1> HIDE DEF p, cfg, aged
<1>6. aged.cfg = cfg /\ aged.buffer = pipeline_table[p].buffer
  BY <1>2, AgedStep DEF aged, MadeOf
<1>7. ASSUME NEW b \in DOMAIN cfg.buffer, NEW o \in DOMAIN cfg.element, NEW i \in DOMAIN cfg.element,
             Carried(cfg, b, o, i)
      PROVE  Ahead(BufferOf(t, b)', BufferOf(t, b)'.silence) /\ BufferOf(t, b)'.silence \in {0, 1}
  <2>1. b \in ResetBuffers(cfg) /\ b \in DOMAIN pipeline_table[p].buffer /\ IsRing(pipeline_table[p].buffer[b])
    <3>1. o \in DOMAIN cfg.element /\ b \in Range(cfg.element[o].output)
      BY <1>7, NamedOnce DEF Carried, Range
    <3> QED
      BY <1>2, <3>1, WrittenReset DEF MadeOf
  <2>2. pipeline_table'[p].buffer[b] = Reset(pipeline_table[p].buffer[b])
    BY <1>4, <1>6, <2>1, PipelineResetStep
  <2>3. IsRing(Reset(pipeline_table[p].buffer[b])) /\ FreshRing(Reset(pipeline_table[p].buffer[b]))
    BY <2>1, ResetStep DEF IsRing, Turns
  <2> QED
    BY <1>5, <2>2, <2>3, FreshAhead, RingWrap
<1> QED
  BY <1>1, <1>7, PhaseBegins DEF cfg

LEMMA PhaseStep ==
  ASSUME NEW l, TableShape(l), NextTyped, NEW t \in Thread, PhaseInv(t), [Next]_vars
  PROVE  PhaseInv(t)'
<1>1. CASE CommandRun \/ InitPipeline \/ InitPipelineFails \/ SaiSetup \/ SaiSetupFails
           \/ CommandStop \/ ExitPipeline
  BY <1>1, PhaseCommand
<1>2. ASSUME NEW u \in Thread, RunElement(u) \/ RunElementFails(u)
      PROVE  PhaseInv(t)'
  <2>1. CASE u # t
    BY <1>2, <2>1, PhaseOthers
  <2>2. CASE u = t
    BY <1>2, <2>2, PhaseRun, PhaseFails
  <2> QED
    BY <2>1, <2>2
<1>3. CASE NextPeriod \/ ResetPipelines
  BY <1>3, PhaseNextPeriod, PhaseReset
<1>4. CASE UNCHANGED vars
  BY <1>4 DEF vars, PhaseInv, Live, FreshRings, Configured, BufferOf, Done, Elements, InPhase, Past
<1> QED
  BY <1>1, <1>2, <1>3, <1>4 DEF Next

PhaseSafe == TableInv /\ NextTyped /\ \A t \in Thread : PhaseInv(t)

LEMMA PhaseSafeInit == Init => PhaseSafe
<1>1. Init => \A t \in Thread : PhaseInv(t)
  BY DEF Init, PhaseInv, Live
<1> QED
  BY <1>1, TableInit, NextTypedInit DEF TableInv, PhaseSafe

LEMMA PhaseSafeStep ==
  ASSUME PhaseSafe, [Next]_vars
  PROVE  PhaseSafe' /\ Thread' = Thread
<1>1. NextTyped /\ \A t \in Thread : PhaseInv(t)
  BY DEF PhaseSafe
<1>2. PICK l \in Nat : TableShape(l)
  BY DEF TableInv, PhaseSafe
<1>3. \E k \in Nat : TableShape(k)'
  BY <1>1, <1>2, TableStep
<1>4. NextTyped'
  BY <1>1, <1>2, NextTypedStep
<1>5. Thread' = Thread
  BY DEF Next, CommandRun, InitPipeline, InitPipelineFails, SaiSetup, SaiSetupFails, CommandStop,
     ExitPipeline, Fail, RunElement, RunElementFails, NextPeriod, ResetPipelines, vars, Thread
<1>6. \A t \in Thread : PhaseInv(t)'
  BY <1>1, <1>2, PhaseStep
<1> QED
  BY <1>3, <1>4, <1>5, <1>6 DEF PhaseSafe, TableInv

\* Whatever runs fail, between two steps the writer of a ring is ahead of its reader
\* by the silence and the period that is on its way.
THEOREM WritersInPhase == Spec => []PhaseSafe
<1>1. Init => PhaseSafe
  BY PhaseSafeInit
<1>2. PhaseSafe /\ [Next]_vars => PhaseSafe'
  BY PhaseSafeStep
<1> QED
  BY <1>1, <1>2, PTL DEF Spec

\* No ring fills up or runs dry however long the pipelines run and whatever fails.
THEOREM RingsAreDrained == Spec => []RingsDrained
<1>1. PhaseSafe => RingsDrained
  <2> SUFFICES ASSUME PhaseSafe, AllDone, ~resetting,
                      NEW t \in Thread, NEW b \in DOMAIN Pipeline(t).buffer,
                      ~Warned(Pipeline(t).cfg), InputRefs(Pipeline(t).cfg, b) # {},
                      OutputRefs(Pipeline(t).cfg, 0, b) # {},
                      Pipeline(t).buffer[b].size = Wrap(Pipeline(t).buffer[b].size),
                      Pipeline(t).buffer[b].size > 1, Pipeline(t).buffer[b].flags # "shared_user"
               PROVE  Avail(Pipeline(t).buffer[b]) = Pipeline(t).buffer[b].silence
    BY DEF RingsDrained
  <2>1. NextTyped /\ PhaseInv(t)
    BY DEF PhaseSafe
  <2>2. PICK l \in Nat : TableShape(l)
    BY DEF TableInv, PhaseSafe
  <2>3. MadeOf(Pipeline(t), handle[t], Configured(t))
    BY <2>2, RunningPipeline DEF Live, AllDone, Configured
  <2> DEFINE cfg == Configured(t)
             buf == Pipeline(t).buffer[b]
  <2>4. b \in DOMAIN cfg.buffer /\ Sound(cfg) /\ ConfigCheck(cfg) /\ Pipeline(t).cfg = cfg
    BY <2>3 DEF MadeOf
  <2>5. ~Several(InputRefs(cfg, b))
    BY <2>4 DEF Warned
  <2>6. PICK o, i : Carried(cfg, b, o, i)
    BY <2>4, <2>5, CarriedOnce
  <2>7. o \in DOMAIN cfg.element /\ i \in DOMAIN cfg.element
    BY <2>6 DEF Carried
  <2>8. IsRing(buf) /\ Ahead(buf, buf.silence) /\ buf.silence \in {0, 1}
    BY <2>1, <2>2, <2>4, <2>6, <2>7, PhaseEnds DEF BufferOf, Pipeline
  <2> HIDE DEF cfg, buf
  <2>9. buf.read \in 0..buf.size-1 /\ buf.size \in Nat /\ buf.size > 1
    BY <2>8, RingWrap DEF buf
  <2>10. CASE buf.silence = 0
    <3>1. buf.write = buf.read
      BY <2>8, <2>10 DEF Ahead
    <3> QED
      BY <2>9, <2>10, <3>1 DEF Avail, buf
  <2>11. CASE buf.silence = 1
    <3>1. buf.write = After(buf.read, buf.size)
      BY <2>8, <2>11 DEF Ahead, buf
    <3> QED
      BY <2>9, <2>11, <3>1 DEF Avail, After, buf
  <2> QED
    BY <2>8, <2>10, <2>11
<1> QED
  BY <1>1, WritersInPhase, PTL

-----------------------------------------------------------------------------
(* What the elements are handed                                            *)

\* The cell of the next read of buffer b.
ReadCell(t, b) == BufferOf(t, b).base.off + BufferOf(t, b).read

LEMMA BaseOf ==
  ASSUME NEW pipeline, NEW q, NEW cfg, MadeOf(pipeline, q, cfg),
         NEW b \in DOMAIN cfg.buffer, pipeline.buffer[b].flags # "shared_user"
  PROVE  pipeline.buffer[b].base.slot = q
<1>1. pipeline.buffer[b].base = [slot |-> q, off |-> StorageOff(cfg, cfg.buffer[b].storage)]
  BY DEF MadeOf
<1> QED
  BY <1>1

\* Rings over storages that differ have no cell in common.
LEMMA CellsApart ==
  ASSUME NEW pipeline, NEW q, NEW cfg, MadeOf(pipeline, q, cfg),
         NEW b \in DOMAIN cfg.buffer, pipeline.buffer[b].flags # "shared_user",
         NEW j \in 0..Wrap(pipeline.buffer[b].size)-1
  PROVE  /\ pipeline.buffer[b].base.off + j \in DOMAIN pipeline.memory
         /\ \A c \in DOMAIN cfg.buffer : \A k \in 0..Wrap(pipeline.buffer[c].size)-1 :
              /\ pipeline.buffer[c].flags # "shared_user"
              /\ pipeline.buffer[b].base.off + j = pipeline.buffer[c].base.off + k
              => cfg.buffer[b].storage = cfg.buffer[c].storage
<1> DEFINE Off(c) == StorageOff(cfg, cfg.buffer[c].storage)
           End(c) == Off(c) + cfg.periods[cfg.buffer[c].storage]
<1>1. /\ IsTable(DOMAIN cfg.periods) /\ \A s \in DOMAIN cfg.periods : cfg.periods[s] \in Nat \ {0}
      /\ DOMAIN cfg.periods \subseteq Int
  BY DEF MadeOf, Sound, IsTable
<1>2. ASSUME NEW c \in DOMAIN cfg.buffer, pipeline.buffer[c].flags # "shared_user",
             NEW k \in 0..Wrap(pipeline.buffer[c].size)-1
      PROVE  /\ cfg.buffer[c].storage \in DOMAIN cfg.periods
             /\ pipeline.buffer[c].base.off = Off(c) /\ Off(c) \in Nat
             /\ Off(c) + k < End(c) /\ End(c) <= StorageSize(cfg)
             /\ k \in Nat /\ StorageSize(cfg) \in Nat /\ End(c) \in Nat
  <2> DEFINE s == cfg.buffer[c].storage
  <2>1. /\ pipeline.buffer[c].base = [slot |-> q, off |-> StorageOff(cfg, s)]
        /\ pipeline.buffer[c].size = cfg.periods[s]
        /\ s \in DOMAIN cfg.periods
    BY <1>2 DEF MadeOf, ConfigCheck
  <2>2. cfg.periods[s] \in Nat \ {0}
    BY <1>1, <2>1
  <2> HIDE DEF s
  <2>3. Wrap(cfg.periods[s]) \in Nat /\ Wrap(cfg.periods[s]) <= cfg.periods[s]
    BY <2>2, WrapBounds
  <2>4. k \in Nat /\ k < cfg.periods[s]
    BY <1>2, <2>1, <2>2, <2>3
  <2>5. /\ StorageOff(cfg, s) \in Nat /\ StorageSize(cfg) \in Nat
        /\ StorageOff(cfg, s) + cfg.periods[s] <= StorageSize(cfg)
    BY <1>1, <2>1, StoragesFollow
  <2>6. pipeline.buffer[c].base.off = StorageOff(cfg, s)
    BY <2>1
  <2>7. StorageOff(cfg, s) + k < StorageOff(cfg, s) + cfg.periods[s]
    BY <2>2, <2>4, <2>5
  <2> QED
    BY <2>1, <2>2, <2>4, <2>5, <2>6, <2>7 DEF s
<1>3. pipeline.buffer[b].base.off + j \in DOMAIN pipeline.memory
  <2>1. DOMAIN pipeline.memory = 0..StorageSize(cfg)-1
    BY DEF MadeOf
  <2> HIDE DEF Off, End
  <2> QED
    BY <1>2, <2>1
<1>4. ASSUME NEW c \in DOMAIN cfg.buffer, NEW k \in 0..Wrap(pipeline.buffer[c].size)-1,
             pipeline.buffer[c].flags # "shared_user",
             pipeline.buffer[b].base.off + j = pipeline.buffer[c].base.off + k
      PROVE  cfg.buffer[b].storage = cfg.buffer[c].storage
  <2> DEFINE s == cfg.buffer[b].storage
             u == cfg.buffer[c].storage
  <2>1. /\ s \in DOMAIN cfg.periods /\ u \in DOMAIN cfg.periods
        /\ Off(b) + j = Off(c) + k
        /\ Off(b) + j < End(b) /\ Off(c) + k < End(c)
        /\ j \in Nat /\ k \in Nat /\ Off(b) \in Nat /\ Off(c) \in Nat /\ End(b) \in Nat /\ End(c) \in Nat
    BY <1>2, <1>4
  <2>2. /\ s < u => End(b) <= Off(c)
        /\ u < s => End(c) <= Off(b)
    BY <1>1, <2>1, StoragesFollow
  <2>3. s \in Int /\ u \in Int
    BY <1>1, <2>1
  <2> HIDE DEF Off, End, s, u
  <2>4. ~(s < u) /\ ~(u < s)
    BY <2>1, <2>2
  <2> QED
    BY <2>3, <2>4 DEF s, u
<1> QED
  BY <1>3, <1>4

\* A starting SAI sink of any pipeline writes its silence elsewhere.
LEMMA SilenceElsewhere ==
  ASSUME NEW l, TableShape(l), cpc = "running", NEW t \in Thread, NEW u \in Thread,
         NEW b \in DOMAIN Configured(t).buffer, BufferOf(t, b).flags = "none",
         SilenceApart(Configured(t), b),
         NEW e \in DOMAIN Configured(u).element, NEW i \in DOMAIN Configured(t).element,
         b \in Range(Configured(t).element[i].input), u = t => e < i
  PROVE  ~SilenceCell(pipeline_table, handle[u], e, <<handle[t], ReadCell(t, b)>>)
<1> DEFINE p == handle[t]
           r == handle[u]
           cfg == Configured(t)
           buf == BufferOf(t, b)
<1>1. /\ p \in DOMAIN pipeline_table /\ MadeOf(pipeline_table[p], p, cfg)
      /\ r \in DOMAIN pipeline_table /\ MadeOf(pipeline_table[r], r, Configured(u))
      /\ p = r => u = t
  <2>1. t \in Int /\ u \in Int
    BY ThreadRange DEF TableShape, CommandTyped
  <2> QED
    BY <2>1, RunningPipeline DEF Live, Pipeline, Configured
<1> SUFFICES ASSUME NEW c \in Range(Configured(u).element[e].input),
                    NEW k \in 0..Wrap(pipeline_table[r].buffer[c].size)-1,
                    <<p, ReadCell(t, b)>> = Cell(pipeline_table[r].buffer[c], k),
                    Configured(u).element[e].type = "SAI_SINK"
             PROVE  FALSE
  BY <1>1 DEF SilenceCell, MadeOf
<1>2. buf = pipeline_table[p].buffer[b]
  BY DEF BufferOf
<1> DEFINE sink == pipeline_table[r].buffer[c]
<1>3. c \in DOMAIN Configured(u).buffer
  BY <1>1 DEF MadeOf, ConfigCheck
<1>4. sink.base.slot = p /\ buf.base.off + buf.read = sink.base.off + k
  BY DEF Cell, ReadCell
<1> HIDE DEF p, r, cfg, buf, sink
<1>5. buf.read \in 0..Wrap(buf.size)-1
  <2>1. IsRing(buf)
    BY <1>1, <1>2 DEF MadeOf, cfg
  <2> QED
    BY <2>1, RingWrap
<1>6. buf.flags = "none" /\ b \in DOMAIN cfg.buffer
  BY DEF buf, cfg
<1>7. ASSUME NEW d \in DOMAIN cfg.buffer, pipeline_table[p].buffer[d].flags # "shared_user",
             NEW j \in 0..Wrap(pipeline_table[p].buffer[d].size)-1,
             buf.base.off + buf.read = pipeline_table[p].buffer[d].base.off + j
      PROVE  cfg.buffer[d].storage = cfg.buffer[b].storage
  BY <1>1, <1>2, <1>5, <1>6, <1>7, CellsApart
<1>8. CASE sink.flags # "shared_user"
  <2>1. sink.base.slot = r
    BY <1>1, <1>3, <1>8, BaseOf DEF sink
  <2>2. p = r /\ u = t
    BY <1>1, <1>4, <2>1
  <2>3. /\ c \in DOMAIN cfg.buffer /\ pipeline_table[p].buffer[c] = sink
        /\ c \in Range(cfg.element[e].input) /\ cfg.element[e].type = "SAI_SINK"
        /\ e \in DOMAIN cfg.element /\ e < i
    BY <1>3, <2>2 DEF cfg, sink
  <2>4. cfg.buffer[c].storage = cfg.buffer[b].storage
    BY <1>4, <1>7, <1>8, <2>2, <2>3 DEF sink
  <2>5. cfg.buffer[c].flags \in {"none", "shared"}
    <3>1. cfg.buffer[c].flags = sink.flags /\ cfg.buffer[c].flags \in {"none", "shared", "shared_user"}
      BY <1>1, <2>3 DEF MadeOf, Sound
    <3> QED
      BY <1>8, <3>1
  <2> QED
    BY <2>3, <2>4, <2>5 DEF SilenceApart, cfg
<1>9. CASE sink.flags = "shared_user"
  <2>1. OnSharedBuffer(pipeline_table, r, sink)
    <3>1. c \in DOMAIN pipeline_table[r].buffer
      BY <1>1, <1>3 DEF MadeOf
    <3> QED
      BY <1>1, <1>9, <3>1 DEF TableShape, Shares, sink
  <2>2. PICK q \in DOMAIN pipeline_table : \E d \in DOMAIN pipeline_table[q].buffer :
          /\ pipeline_table[q].buffer[d].flags = "shared"
          /\ sink.base = pipeline_table[q].buffer[d].base
          /\ sink.size = pipeline_table[q].buffer[d].size
    BY <2>1 DEF OnSharedBuffer
  <2>3. PICK d \in DOMAIN pipeline_table[q].buffer :
          /\ pipeline_table[q].buffer[d].flags = "shared"
          /\ sink.base = pipeline_table[q].buffer[d].base
          /\ sink.size = pipeline_table[q].buffer[d].size
    BY <2>2
  <2>4. MadeOf(pipeline_table[q], q, pipeline_table[q].cfg)
    BY DEF TableShape, AllMade
  <2>5. sink.base.slot = q
    <3>1. d \in DOMAIN pipeline_table[q].cfg.buffer
      BY <2>4 DEF MadeOf
    <3> QED
      BY <2>3, <2>4, <3>1, BaseOf
  <2>6. q = p
    BY <1>4, <2>5
  <2>7. d \in DOMAIN cfg.buffer /\ pipeline_table[p].buffer[d].flags = "shared" /\ cfg.buffer[d].flags = "shared"
    BY <1>1, <2>3, <2>6 DEF MadeOf
  <2>8. k \in 0..Wrap(pipeline_table[p].buffer[d].size)-1
    BY <2>3, <2>6 DEF sink
  <2>9. cfg.buffer[d].storage = cfg.buffer[b].storage
    BY <1>4, <1>7, <2>3, <2>6, <2>7, <2>8
  <2> QED
    BY <2>7, <2>9 DEF SilenceApart, cfg
<1> QED
  BY <1>8, <1>9

\* The samples that are on their way through a ring.
Handed(t) ==
  cpc = "running" =>
    \A b \in DOMAIN Configured(t).buffer : \A o, i \in DOMAIN Configured(t).element :
      /\ Carried(Configured(t), b, o, i)
      /\ BufferOf(t, b).flags = "none" /\ SilenceApart(Configured(t), b)
      /\ o < next_element[t] /\ next_element[t] <= i
      => pipeline_table[handle[t]].memory[ReadCell(t, b)] = "now"

LEMMA HandedRun ==
  ASSUME NEW l, TableShape(l), NextTyped, NEW t \in Thread, PhaseInv(t), Handed(t),
         NEW u \in Thread, RunElement(u)
  PROVE  Handed(t)'
<1> DEFINE p == handle[t]
           e == next_element[u]
           cfg == Configured(t)
<1>1. /\ cpc = "running" /\ ~Done(u) /\ UNCHANGED <<config, handle, cpc>>
      /\ next_element' = [next_element EXCEPT ![u] = @ + 1]
      /\ next_element[t] \in Nat /\ e \in Nat /\ DOMAIN next_element = Thread
  BY DEF RunElement, NextTyped
<1>2. /\ p \in DOMAIN pipeline_table /\ MadeOf(pipeline_table[p], p, cfg)
      /\ DOMAIN cfg.element = 1..Elements(t) /\ Elements(t) \in Nat
      /\ p = handle[u] => u = t
  <2>1. t \in Int /\ u \in Int
    BY ThreadRange DEF TableShape, CommandTyped
  <2> QED
    BY <1>1, <2>1, RunningPipeline DEF Live, Pipeline, Configured
<1>3. e \in DOMAIN Configured(u).element /\ RunsElement(pipeline_table, pipeline_table', handle[u], e)
  BY RunElementStep DEF Configured
<1>4. Configured(t)' = cfg /\ p' = p
  BY <1>1 DEF Configured
<1>5. SUFFICES ASSUME NEW b \in DOMAIN cfg.buffer,
                      NEW o \in DOMAIN cfg.element, NEW i \in DOMAIN cfg.element,
                      Carried(cfg, b, o, i), BufferOf(t, b)'.flags = "none", SilenceApart(cfg, b),
                      o < next_element'[t], next_element'[t] <= i
               PROVE  pipeline_table'[p].memory[ReadCell(t, b)'] = "now"
  BY <1>4 DEF Handed
<1> DEFINE old == BufferOf(t, b)
           new == BufferOf(t, b)'
           cell == ReadCell(t, b)
<1>6. /\ old = pipeline_table[p].buffer[b] /\ new = pipeline_table'[p].buffer[b]
      /\ IsRing(old) /\ b \in DOMAIN pipeline_table[p].buffer /\ Turns(old, new)
      /\ pipeline_table[p].cfg = cfg
  <2>1. old = pipeline_table[p].buffer[b] /\ new = pipeline_table'[p].buffer[b]
    BY <1>4 DEF BufferOf
  <2>2. b \in DOMAIN pipeline_table[p].buffer
    BY <1>2 DEF MadeOf
  <2> QED
    BY <1>2, <1>3, <2>1, <2>2 DEF RunsElement, KeepsTable, MadeOf
<1>7. old.flags = "none" /\ new.base = old.base
  BY <1>5, <1>6 DEF Turns
<1>8. o \in Nat /\ i \in Nat /\ o < i /\ e \in Nat
  BY <1>1, <1>2, <1>5 DEF Carried
<1>9. /\ u = t => next_element'[t] = e + 1 /\ e # i /\ e < i
      /\ u # t => next_element'[t] = next_element[t]
  BY <1>1, <1>5, <1>8
<1>10. new.read = old.read
  <2>1. CASE u = t
    <3>1. Times(cfg.element[e].input, b) = 0
      BY <1>3, <1>5, <1>9, <2>1 DEF Carried
    <3>2. new.read = (old.read + 0) % Wrap(old.size)
      BY <1>3, <1>6, <2>1, <3>1 DEF RunsElement
    <3>3. Wrap(old.size) \in Nat \ {0} /\ old.read \in 0..Wrap(old.size)-1
      BY <1>6, RingWrap
    <3> HIDE DEF old, new
    <3>4. old.read + 0 = old.read /\ old.read % Wrap(old.size) = old.read
      BY <3>3, ModOnce
    <3> QED
      BY <3>2, <3>4
  <2>2. CASE u # t
    BY <1>2, <1>3, <1>6, <2>2 DEF RunsElement, KeepsTable
  <2> QED
    BY <2>1, <2>2
<1>11. ReadCell(t, b)' = cell
  BY <1>7, <1>10 DEF ReadCell
<1>12. cell \in DOMAIN pipeline_table[p].memory
  <2>1. old.read \in 0..Wrap(old.size)-1
    BY <1>6, RingWrap
  <2> QED
    BY <1>2, <1>6, <1>7, <2>1, CellsApart DEF ReadCell
<1>13. IF <<p, cell>> \in Written(pipeline_table, handle[u], e)
       THEN pipeline_table'[p].memory[cell] = "now"
       ELSE \/ SilenceCell(pipeline_table, handle[u], e, <<p, cell>>)
            \/ pipeline_table'[p].memory[cell] = pipeline_table[p].memory[cell]
  BY <1>2, <1>3, <1>12 DEF RunsElement
<1>14. CASE u = t /\ e = o
  <2>1. PICK k \in DOMAIN cfg.element[e].output : cfg.element[e].output[k] = b
    BY <1>3, <1>5, <1>14, NamedOnce DEF Carried
  <2>2. Cell(old, old.write) \in Written(pipeline_table, p, e)
    BY <1>6, <2>1 DEF Written, Range
  <2>3. old.write = old.read
    <3>1. InPhase(t)
      BY <1>1, <1>14 DEF PhaseInv
    <3>2. Past(t, o) = 0 /\ Past(t, i) = 0
      BY <1>1, <1>8, <1>14 DEF Past
    <3>3. old.silence = 0
      BY <1>2, <1>6, <1>7 DEF MadeOf
    <3>4. Ahead(old, old.silence + Past(t, o) - Past(t, i))
      BY <1>5, <1>7, <3>1 DEF InPhase
    <3>5. old.silence + Past(t, o) - Past(t, i) = 0
      BY <3>2, <3>3
    <3> QED
      BY <3>4, <3>5 DEF Ahead
  <2>4. old.base.slot = p
    BY <1>2, <1>6, <1>7, BaseOf
  <2>5. <<p, cell>> = Cell(old, old.write)
    BY <2>3, <2>4 DEF Cell, ReadCell
  <2> QED
    BY <1>11, <1>13, <1>14, <2>2, <2>5
<1>15. CASE ~(u = t /\ e = o)
  <2>1. o < next_element[t] /\ next_element[t] <= i
    BY <1>1, <1>5, <1>8, <1>9, <1>15
  <2>2. pipeline_table[p].memory[cell] = "now"
    BY <1>1, <1>5, <1>7, <2>1 DEF Handed
  <2>3. b \in Range(cfg.element[i].input)
    <3>1. \E k \in DOMAIN cfg.element[i].input : cfg.element[i].input[k] = b
      BY <1>5, NamedOnce DEF Carried
    <3> QED
      BY <3>1 DEF Range
  <2>4. ~SilenceCell(pipeline_table, handle[u], e, <<p, cell>>)
    BY <1>1, <1>3, <1>5, <1>7, <1>9, <2>3, SilenceElsewhere
  <2> QED
    BY <1>11, <1>13, <2>2, <2>4
<1> QED
  BY <1>14, <1>15

LEMMA HandedStep ==
  ASSUME NEW l, TableShape(l), NextTyped, NEW t \in Thread, PhaseInv(t), Handed(t), [Next]_vars
  PROVE  Handed(t)'
<1>1. \A e \in DOMAIN Configured(t).element : e >= 1
  <2>1. WellFormed(config[t])
    BY ThreadRange DEF TableShape, CommandTyped
  <2>2. DOMAIN Configured(t).element = 1..Len(config[t].element) /\ Len(config[t].element) \in Nat
    BY <2>1, SetConfigSound DEF Configured
  <2> QED
    BY <2>2
<1>2. CASE CommandRun \/ InitPipeline \/ InitPipelineFails \/ SaiSetupFails \/ CommandStop \/ ExitPipeline
  <2>1. cpc' # "running"
    BY <1>2 DEF CommandRun, InitPipeline, InitPipelineFails, SaiSetupFails, CommandStop, ExitPipeline, Fail
  <2> QED
    BY <2>1 DEF Handed
<1>3. CASE SaiSetup \/ NextPeriod \/ ResetPipelines
  <2>1. config' = config /\ next_element'[t] = 1
    BY <1>3 DEF SaiSetup, NextPeriod, ResetPipelines
  <2>2. Configured(t)' = Configured(t) /\ DOMAIN Configured(t).element \subseteq Int
    <3>1. DOMAIN Configured(t).element \subseteq Int
      <4>1. WellFormed(config[t])
        BY ThreadRange DEF TableShape, CommandTyped
      <4>2. DOMAIN Configured(t).element = 1..Len(config[t].element) /\ Len(config[t].element) \in Nat
        BY <4>1, SetConfigSound DEF Configured
      <4> QED
        BY <4>2
    <3> QED
      BY <2>1, <3>1 DEF Configured
  <2>3. \A o \in DOMAIN Configured(t).element : ~(o < next_element'[t])
    BY <1>1, <2>1, <2>2
  <2> QED
    BY <2>2, <2>3 DEF Handed
<1>4. ASSUME NEW u \in Thread, RunElement(u)
      PROVE  Handed(t)'
  BY <1>4, HandedRun
<1>5. ASSUME NEW u \in Thread, RunElementFails(u)
      PROVE  Handed(t)'
  <2>1. /\ cpc = "running" /\ UNCHANGED <<config, pipeline_table, handle, cpc>>
        /\ next_element' = [next_element EXCEPT ![u] = Elements(u) + 1]
        /\ DOMAIN next_element = Thread
    BY <1>5 DEF RunElementFails, NextTyped
  <2>2. /\ Configured(t)' = Configured(t)
        /\ \A b : BufferOf(t, b)' = BufferOf(t, b)
        /\ \A b : ReadCell(t, b)' = ReadCell(t, b)
    BY <2>1 DEF Configured, BufferOf, ReadCell
  <2>3. CASE u = t
    <3>1. DOMAIN Configured(t).element = 1..Elements(t) /\ Elements(t) \in Nat
      BY <2>1, RunningPipeline DEF Live, Configured
    <3>2. \A i \in DOMAIN Configured(t).element : ~(next_element'[t] <= i)
      BY <2>1, <2>3, <3>1
    <3> QED
      BY <2>2, <3>2 DEF Handed
  <2>4. CASE u # t
    <3>1. next_element'[t] = next_element[t]
      BY <2>1, <2>4
    <3> QED
      BY <2>1, <2>2, <3>1 DEF Handed
  <2> QED
    BY <2>3, <2>4
<1>6. CASE UNCHANGED vars
  BY <1>6 DEF vars, Handed, Configured, BufferOf, ReadCell
<1> QED
  BY <1>2, <1>3, <1>4, <1>5, <1>6 DEF Next

HandedSafe == PhaseSafe /\ \A t \in Thread : Handed(t)

\* What an element reads is what an element before it has written in the same period:
\* no run that fails and no reset takes a reader out of step with its writer, and no
\* thread overwrites what another one's pipeline has in a ring of its own.
THEOREM NothingStale == Spec => []FreshInRun
<1>1. Init => HandedSafe
  BY PhaseSafeInit DEF Init, Handed, HandedSafe
<1>2. HandedSafe /\ [Next]_vars => HandedSafe'
  <2> SUFFICES ASSUME HandedSafe, [Next]_vars
               PROVE  HandedSafe'
    OBVIOUS
  <2>1. PhaseSafe /\ NextTyped /\ \A t \in Thread : PhaseInv(t) /\ Handed(t)
    BY DEF HandedSafe, PhaseSafe
  <2>2. PICK l \in Nat : TableShape(l)
    BY <2>1 DEF TableInv, PhaseSafe
  <2>3. PhaseSafe' /\ Thread' = Thread
    BY <2>1, PhaseSafeStep
  <2>4. \A t \in Thread : Handed(t)'
    BY <2>1, <2>2, HandedStep
  <2> QED
    BY <2>3, <2>4 DEF HandedSafe
<1>3. HandedSafe => FreshInRun
  <2> SUFFICES ASSUME HandedSafe, NEW t \in Thread, NEW b \in Reads(t),
                      Pipeline(t).buffer[b].flags = "none", ~Warned(Pipeline(t).cfg),
                      SilenceApart(Pipeline(t).cfg, b)
               PROVE  AgeRead(t, b) = "now"
    BY DEF FreshInRun
  <2> DEFINE cfg == Configured(t)
             e == next_element[t]
  <2>1. /\ cpc = "running" /\ ~Done(t) /\ b \in Range(Pipeline(t).cfg.element[e].input)
        /\ e \in Nat \ {0} /\ PhaseInv(t) /\ Handed(t)
    BY DEF Reads, HandedSafe, PhaseSafe, NextTyped
  <2>2. PICK l \in Nat : TableShape(l)
    BY DEF TableInv, PhaseSafe, HandedSafe
  <2>3. /\ MadeOf(Pipeline(t), handle[t], cfg)
        /\ DOMAIN cfg.element = 1..Elements(t) /\ Elements(t) \in Nat
    BY <2>1, <2>2, RunningPipeline DEF Live, Configured
  <2>4. e \in DOMAIN cfg.element
    BY <2>1, <2>3 DEF Done
  <2>5. Sound(cfg) /\ ConfigCheck(cfg) /\ Pipeline(t).cfg = cfg
    BY <2>3 DEF MadeOf
  <2>6. b \in DOMAIN cfg.buffer /\ cfg.buffer[b].flags = "none"
    <3>1. b \in DOMAIN cfg.buffer
      BY <2>1, <2>4, <2>5 DEF ConfigCheck
    <3> QED
      BY <2>3, <3>1 DEF MadeOf
  <2>7. ~Several(InputRefs(cfg, b)) /\ InputRefs(cfg, b) # {} /\ OutputRefs(cfg, 0, b) # {}
    BY <2>5, <2>6 DEF Warned
  <2>8. PICK o, i : Carried(cfg, b, o, i)
    BY <2>5, <2>6, <2>7, CarriedOnce
  <2>9. o \in DOMAIN cfg.element /\ i \in DOMAIN cfg.element /\ o < i
    BY <2>8 DEF Carried
  <2>10. e = i
    <3>1. PICK j \in DOMAIN cfg.element[i].input : cfg.element[i].input[j] = b
      BY <2>8, <2>9, NamedOnce DEF Carried
    <3>2. PICK k \in DOMAIN cfg.element[e].input : cfg.element[e].input[k] = b
      BY <2>1, <2>5 DEF Range
    <3>3. <<i, j>> \in InputRefs(cfg, b) /\ <<e, k>> \in InputRefs(cfg, b)
      BY <2>4, <2>5, <2>9, <3>1, <3>2, Referenced
    <3>4. <<i, j>> = <<e, k>>
      BY <2>7, <3>3 DEF Several
    <3> QED
      BY <3>4
  <2>11. Pipeline(t).memory[ReadCell(t, b)] = "now"
    <3>1. o < e /\ e <= i
      BY <2>1, <2>9, <2>10
    <3>2. BufferOf(t, b).flags = "none" /\ SilenceApart(cfg, b)
      BY <2>5 DEF BufferOf, Pipeline
    <3> QED
      BY <2>1, <2>6, <2>8, <2>9, <3>1, <3>2 DEF Handed, Pipeline
  <2>12. Pipeline(t).buffer[b].base.slot = handle[t]
    BY <2>3, <2>6, BaseOf
  <2> QED
    BY <2>11, <2>12 DEF AgeRead, ReadCell, BufferOf, Pipeline
<1> QED
  BY <1>1, <1>2, <1>3, PTL DEF Spec

-----------------------------------------------------------------------------
(* What the readers of shared buffers are handed                           *)

\* A thread that waits for the reset, or has come to the end of the period before it.
Failed(t) == resetting /\ Done(t)

SharedBuffers(t) == {b \in DOMAIN Configured(t).buffer : Configured(t).buffer[b].flags = "shared"}

\* Buffer b of thread t lies on shared buffer o of thread u, or is that buffer.
OfRing(u, o, t, b) ==
  \/ t = u /\ b = o
  \/ Configured(t).buffer[b].flags = "shared_user" /\ BufferOf(t, b).base = BufferOf(u, o).base

Late(w) == IF w > 2 THEN {"last"} ELSE {"last", "head"}

\* In this period everyone reads index k, and the owner writes the one after it.
RingAt(u, o, k) ==
  LET ring   == BufferOf(u, o)
      w      == Wrap(ring.size)
      memory == Pipeline(u).memory
  IN
  /\ memory[ring.base.off + k] \in Late(w)
  /\ ~Failed(u) => \A e \in DOMAIN Configured(u).element :
       Times(Configured(u).element[e].output, o) = 1 =>
         IF next_element[u] > e
         THEN /\ ring.write = After(After(k, w), w)
              /\ memory[ring.base.off + After(k, w)] \in {"now"} \cup IF w > 2 THEN {} ELSE {"head"}
         ELSE ring.write = After(k, w)
  /\ \A t \in Thread : ~Failed(t) =>
       \A b \in DOMAIN Configured(t).buffer : \A i \in DOMAIN Configured(t).element :
         OfRing(u, o, t, b) /\ Times(Configured(t).element[i].input, b) = 1 =>
           BufferOf(t, b).read = IF next_element[t] > i THEN After(k, w) ELSE k

LateInv(u, o) ==
  /\ Live(u) /\ cpc \in {"init", "setup"} => Pipeline(u).memory[BufferOf(u, o).base.off] = "last"
  /\ cpc = "running" /\ aligned /\ SharedOnce(config) =>
       \E k \in 0..Wrap(BufferOf(u, o).size)-1 : RingAt(u, o, k)

LEMMA Neighbours ==
  ASSUME NEW w \in Nat, w > 1, NEW k \in 0..w-1
  PROVE  /\ After(k, w) \in 0..w-1 /\ Before(k, w) \in 0..w-1
         /\ After(k, w) # k /\ Before(k, w) # k
         /\ w > 2 => Before(k, w) # After(k, w)
         /\ (k + 1) % w = After(k, w) /\ k % w = k
<1>1. (k + 1) % w = After(k, w) /\ k % w = k
  BY ModOnce
<1>2. After(k, w) \in 0..w-1 /\ After(k, w) # k
  BY DEF After
<1>3. Before(k, w) \in 0..w-1 /\ Before(k, w) # k
  BY DEF Before
<1>4. w > 2 => Before(k, w) # After(k, w)
  BY DEF Before, After
<1> QED
  BY <1>1, <1>2, <1>3, <1>4

LEMMA ReadOnce ==
  ASSUME NEW cfg, NEW b, Sound(cfg), ~Several(InputRefs(cfg, b)),
         NEW i \in DOMAIN cfg.element, b \in Range(cfg.element[i].input)
  PROVE  \A e \in DOMAIN cfg.element : Times(cfg.element[e].input, b) = IF e = i THEN 1 ELSE 0
<1>1. PICK k \in DOMAIN cfg.element[i].input : cfg.element[i].input[k] = b
  BY DEF Range
<1>2. <<i, k>> \in InputRefs(cfg, b)
  BY <1>1, Referenced
<1>3. ASSUME NEW e \in DOMAIN cfg.element, NEW j \in DOMAIN cfg.element[e].input, cfg.element[e].input[j] = b
      PROVE  e = i /\ j = k
  <2>1. <<e, j>> \in InputRefs(cfg, b)
    BY <1>3, Referenced
  <2> QED
    BY <1>2, <2>1 DEF Several
<1>4. Times(cfg.element[i].input, b) = 1
  BY <1>1, <1>3, TimesNamed
<1>5. \A e \in DOMAIN cfg.element : e # i => Times(cfg.element[e].input, b) = 0
  BY <1>3, TimesNamed
<1> QED
  BY <1>4, <1>5

LEMMA WrittenOnce ==
  ASSUME NEW cfg, NEW b, Sound(cfg), ~Several(OutputRefs(cfg, 0, b)),
         NEW o \in DOMAIN cfg.element, b \in Range(cfg.element[o].output)
  PROVE  \A e \in DOMAIN cfg.element : Times(cfg.element[e].output, b) = IF e = o THEN 1 ELSE 0
<1>0. \A e \in DOMAIN cfg.element : cfg.element[e].stage >= 0
  <2>1. \A e \in DOMAIN cfg.element : cfg.element[e].stage \in Nat
    BY DEF Sound
  <2> QED
    BY <2>1
<1>1. PICK k \in DOMAIN cfg.element[o].output : cfg.element[o].output[k] = b
  BY DEF Range
<1>2. <<o, k>> \in OutputRefs(cfg, 0, b)
  BY <1>0, <1>1, Referenced
<1>3. ASSUME NEW e \in DOMAIN cfg.element, NEW j \in DOMAIN cfg.element[e].output, cfg.element[e].output[j] = b
      PROVE  e = o /\ j = k
  <2>1. <<e, j>> \in OutputRefs(cfg, 0, b)
    BY <1>0, <1>3, Referenced
  <2> QED
    BY <1>2, <2>1 DEF Several
<1>4. Times(cfg.element[o].output, b) = 1
  BY <1>1, <1>3, TimesNamed
<1>5. \A e \in DOMAIN cfg.element : e # o => Times(cfg.element[e].output, b) = 0
  BY <1>3, TimesNamed
<1> QED
  BY <1>4, <1>5

\* The premise, for the buffers of one thread.
LEMMA SharedOnceOf ==
  ASSUME SharedOnce(config), NEW t \in Thread, Sound(Configured(t)), ConfigCheck(Configured(t)),
         NEW b \in DOMAIN Configured(t).buffer, Configured(t).buffer[b].flags # "none"
  PROVE  LET cfg == Configured(t) IN
         /\ \A i \in DOMAIN cfg.element : b \in Range(cfg.element[i].input) =>
              \A e \in DOMAIN cfg.element : Times(cfg.element[e].input, b) = IF e = i THEN 1 ELSE 0
         /\ \A o \in DOMAIN cfg.element : b \in Range(cfg.element[o].output) =>
              \A e \in DOMAIN cfg.element : Times(cfg.element[e].output, b) = IF e = o THEN 1 ELSE 0
         /\ cfg.buffer[b].flags = "shared" =>
              /\ cfg.periods[cfg.buffer[b].storage] > 1
              /\ \A a \in DOMAIN cfg.buffer :
                   cfg.buffer[a].storage = cfg.buffer[b].storage
                     => a = b \/ cfg.buffer[a].flags = "shared_user"
              /\ \E o \in DOMAIN cfg.element : b \in Range(cfg.element[o].output)
         /\ cfg.buffer[b].flags # "shared" =>
              \A o \in DOMAIN cfg.element : b \notin Range(cfg.element[o].output)
<1> DEFINE cfg == Configured(t)
<1>1. /\ ~Several(InputRefs(cfg, b))
      /\ OutputRefs(cfg, 0, b) # {} <=> cfg.buffer[b].flags = "shared"
      /\ cfg.buffer[b].flags = "shared" =>
           /\ cfg.periods[cfg.buffer[b].storage] > 1
           /\ \A a \in DOMAIN cfg.buffer :
                cfg.buffer[a].storage = cfg.buffer[b].storage
                  => a = b \/ cfg.buffer[a].flags = "shared_user"
  BY DEF SharedOnce, Configured, Thread
<1>2. ~Several(OutputRefs(cfg, 0, b))
  BY DEF ConfigCheck
<1>3. Sound(cfg)
  OBVIOUS
<1> HIDE DEF cfg
<1>4. \A i \in DOMAIN cfg.element : b \in Range(cfg.element[i].input) =>
        \A e \in DOMAIN cfg.element : Times(cfg.element[e].input, b) = IF e = i THEN 1 ELSE 0
  BY <1>1, <1>3, ReadOnce
<1>5. \A o \in DOMAIN cfg.element : b \in Range(cfg.element[o].output) =>
        \A e \in DOMAIN cfg.element : Times(cfg.element[e].output, b) = IF e = o THEN 1 ELSE 0
  BY <1>2, <1>3, WrittenOnce
<1>6. OutputRefs(cfg, 0, b) # {} <=> \E o \in DOMAIN cfg.element : b \in Range(cfg.element[o].output)
  <2>1. \A e \in DOMAIN cfg.element : cfg.element[e].stage >= 0
    <3>1. \A e \in DOMAIN cfg.element : cfg.element[e].stage \in Nat
      BY <1>3 DEF Sound
    <3> QED
      BY <3>1
  <2>2. ASSUME NEW o \in DOMAIN cfg.element, b \in Range(cfg.element[o].output)
        PROVE  OutputRefs(cfg, 0, b) # {}
    <3>1. PICK k \in DOMAIN cfg.element[o].output : cfg.element[o].output[k] = b
      BY <2>2 DEF Range
    <3>2. <<o, k>> \in OutputRefs(cfg, 0, b)
      BY <1>3, <2>1, <3>1, Referenced
    <3> QED
      BY <3>2
  <2>3. ASSUME OutputRefs(cfg, 0, b) # {}
        PROVE  \E o \in DOMAIN cfg.element : b \in Range(cfg.element[o].output)
    <3>1. PICK r : r \in OutputRefs(cfg, 0, b)
      BY <2>3
    <3>2. \A x : x \in OutputRefs(cfg, 0, b) <=>
            \E e \in DOMAIN cfg.element : \E k \in DOMAIN cfg.element[e].output :
              x = <<e, k>> /\ cfg.element[e].output[k] = b /\ cfg.element[e].stage >= 0
      <4>1. 0 \in Nat
        OBVIOUS
      <4> QED
        BY <1>3, <4>1, Referenced
    <3>3. \E e \in DOMAIN cfg.element : \E k \in DOMAIN cfg.element[e].output : cfg.element[e].output[k] = b
      BY <3>1, <3>2
    <3> QED
      BY <3>3 DEF Range
  <2> QED
    BY <2>2, <2>3
<1> QED
  BY <1>1, <1>4, <1>5, <1>6 DEF cfg

\* An element that names a shared buffer is the only one, and does so once.
LEMMA SharedTimes ==
  ASSUME SharedOnce(config), NEW t \in Thread, Sound(Configured(t)), ConfigCheck(Configured(t)),
         NEW b \in DOMAIN Configured(t).buffer, Configured(t).buffer[b].flags # "none",
         NEW i \in DOMAIN Configured(t).element
  PROVE  /\ Times(Configured(t).element[i].input, b) = 1 =>
              \A e \in DOMAIN Configured(t).element :
                Times(Configured(t).element[e].input, b) = IF e = i THEN 1 ELSE 0
         /\ Times(Configured(t).element[i].output, b) = 1 =>
              \A e \in DOMAIN Configured(t).element :
                Times(Configured(t).element[e].output, b) = IF e = i THEN 1 ELSE 0
<1>1. \A list : Times(list, b) = 1 => b \in Range(list)
  BY NamedOnce DEF Range
<1>2. /\ b \in Range(Configured(t).element[i].input) =>
           \A e \in DOMAIN Configured(t).element :
             Times(Configured(t).element[e].input, b) = IF e = i THEN 1 ELSE 0
      /\ b \in Range(Configured(t).element[i].output) =>
           \A e \in DOMAIN Configured(t).element :
             Times(Configured(t).element[e].output, b) = IF e = i THEN 1 ELSE 0
  BY SharedOnceOf
<1> QED
  BY <1>1, <1>2

\* The pipeline of a thread, once more.
LEMMA ThreadPipeline ==
  ASSUME NEW l, TableShape(l), cpc = "running", NEW t \in Thread
  PROVE  /\ handle[t] \in DOMAIN pipeline_table
         /\ MadeOf(pipeline_table[handle[t]], handle[t], Configured(t))
         /\ Sound(Configured(t)) /\ ConfigCheck(Configured(t))
         /\ DOMAIN Configured(t).element = 1..Elements(t) /\ Elements(t) \in Nat
         /\ \A b \in DOMAIN Configured(t).buffer :
              /\ IsRing(BufferOf(t, b))
              /\ BufferOf(t, b).flags = Configured(t).buffer[b].flags
              /\ BufferOf(t, b).flags # "shared_user" =>
                   /\ BufferOf(t, b).base.slot = handle[t]
                   /\ BufferOf(t, b).size = Configured(t).periods[Configured(t).buffer[b].storage]
         /\ \A u \in Thread : handle[u] = handle[t] => u = t
<1>1. /\ handle[t] \in DOMAIN pipeline_table
      /\ MadeOf(pipeline_table[handle[t]], handle[t], Configured(t))
      /\ DOMAIN Configured(t).element = 1..Elements(t) /\ Elements(t) \in Nat
  BY RunningPipeline DEF Live, Pipeline, Configured
<1>2. \A u \in Thread : handle[u] = l + u - 1 /\ l \in Nat
  BY RunningPipeline DEF Live
<1>3. Thread \subseteq Int
  BY ThreadRange DEF TableShape, CommandTyped
<1>4. \A u \in Thread : handle[u] = handle[t] => u = t
  BY <1>2, <1>3
<1>5. ASSUME NEW b \in DOMAIN Configured(t).buffer
      PROVE  /\ IsRing(BufferOf(t, b))
             /\ BufferOf(t, b).flags = Configured(t).buffer[b].flags
             /\ BufferOf(t, b).flags # "shared_user" =>
                  /\ BufferOf(t, b).base.slot = handle[t]
                  /\ BufferOf(t, b).size = Configured(t).periods[Configured(t).buffer[b].storage]
  <2>1. BufferOf(t, b) = pipeline_table[handle[t]].buffer[b]
    BY DEF BufferOf
  <2>2. BufferOf(t, b).flags # "shared_user" => BufferOf(t, b).base.slot = handle[t]
    BY <1>1, <2>1, BaseOf
  <2> QED
    BY <1>1, <2>1, <2>2 DEF MadeOf
<1> QED
  BY <1>1, <1>4, <1>5 DEF MadeOf

\* A cell of a shared buffer's ring is of no ring but that of the buffer and of its
\* readers.
LEMMA RingOfCell ==
  ASSUME NEW l, TableShape(l), cpc = "running", SharedOnce(config),
         NEW u \in Thread, NEW o \in SharedBuffers(u),
         NEW v \in Thread, NEW b \in DOMAIN Configured(v).buffer,
         NEW j \in 0..Wrap(BufferOf(u, o).size)-1, NEW m \in 0..Wrap(BufferOf(v, b).size)-1,
         <<handle[u], BufferOf(u, o).base.off + j>> = Cell(BufferOf(v, b), m)
  PROVE  /\ OfRing(u, o, v, b) /\ j = m
         /\ BufferOf(v, b).size = BufferOf(u, o).size /\ BufferOf(v, b).base = BufferOf(u, o).base
         /\ Configured(v).buffer[b].flags # "none"
         /\ Configured(v).buffer[b].flags # "shared_user" => v = u /\ b = o
<1> DEFINE p == handle[u]
           r == handle[v]
           cfg == Configured(u)
           ring == BufferOf(u, o)
           buf == BufferOf(v, b)
<1>1. /\ p \in DOMAIN pipeline_table /\ MadeOf(pipeline_table[p], p, cfg)
      /\ Sound(cfg) /\ ConfigCheck(cfg)
      /\ r \in DOMAIN pipeline_table /\ MadeOf(pipeline_table[r], r, Configured(v))
      /\ r = p => v = u
  BY ThreadPipeline
<1>2. o \in DOMAIN cfg.buffer /\ cfg.buffer[o].flags = "shared" /\ b \in DOMAIN Configured(v).buffer
  BY DEF SharedBuffers
<1>3. ring = pipeline_table[p].buffer[o] /\ buf = pipeline_table[r].buffer[b]
  BY DEF BufferOf
<1>4. /\ IsRing(ring) /\ IsRing(buf) /\ ring.flags = "shared"
      /\ buf.flags = Configured(v).buffer[b].flags
      /\ Configured(v).buffer[b].flags \in {"none", "shared", "shared_user"}
  <2>1. IsRing(ring) /\ IsRing(buf) /\ ring.flags = "shared" /\ buf.flags = Configured(v).buffer[b].flags
    BY <1>2, ThreadPipeline
  <2>2. Sound(Configured(v))
    BY ThreadPipeline
  <2> QED
    BY <2>1, <2>2 DEF Sound
<1>5. /\ ring.base \in [slot : Slot, off : Nat] /\ buf.base \in [slot : Slot, off : Nat]
      /\ j \in Nat /\ m \in Nat
  <2>1. Wrap(ring.size) \in Nat /\ Wrap(buf.size) \in Nat
    BY <1>4, RingWrap
  <2> QED
    BY <1>4, <2>1 DEF IsRing, Ring
<1>6. ring.base.slot = p
  BY <1>1, <1>2, <1>3, <1>4, BaseOf
<1>7. buf.base.slot = p /\ ring.base.off + j = buf.base.off + m
  BY DEF Cell
<1>8. \A a \in DOMAIN cfg.buffer :
        cfg.buffer[a].storage = cfg.buffer[o].storage => a = o \/ cfg.buffer[a].flags = "shared_user"
  BY <1>1, <1>2, SharedOnceOf
<1>9. j \in 0..Wrap(ring.size)-1 /\ m \in 0..Wrap(buf.size)-1
  OBVIOUS
<1> HIDE DEF p, r, cfg, ring, buf
<1>10. ASSUME NEW d \in DOMAIN cfg.buffer, pipeline_table[p].buffer[d].flags # "shared_user",
              pipeline_table[p].buffer[d].base = buf.base, pipeline_table[p].buffer[d].size = buf.size
       PROVE  d = o
  <2>1. m \in 0..Wrap(pipeline_table[p].buffer[d].size)-1
    BY <1>9, <1>10
  <2>2. ring.base.off + j = pipeline_table[p].buffer[d].base.off + m
    BY <1>7, <1>10
  <2>3. cfg.buffer[o].storage = cfg.buffer[d].storage
    BY <1>1, <1>2, <1>3, <1>4, <1>9, <1>10, <2>1, <2>2, CellsApart
  <2>4. cfg.buffer[d].flags # "shared_user"
    BY <1>1, <1>10 DEF MadeOf
  <2> QED
    BY <1>8, <2>3, <2>4
<1>11. CASE buf.flags # "shared_user"
  <2>1. buf.base.slot = r
    BY <1>1, <1>2, <1>3, <1>11, BaseOf
  <2>2. v = u /\ r = p
    BY <1>1, <1>7, <2>1
  <2>3. b = o
    BY <1>2, <1>3, <1>10, <1>11, <2>2 DEF cfg
  <2>4. buf = ring
    BY <1>3, <2>2, <2>3
  <2>5. j = m
    BY <1>5, <1>7, <2>4
  <2>6. Configured(v).buffer[b].flags = "shared"
    BY <1>4, <2>4
  <2> QED
    BY <2>2, <2>3, <2>4, <2>5, <2>6 DEF OfRing, ring, buf
<1>12. CASE buf.flags = "shared_user"
  <2>1. OnSharedBuffer(pipeline_table, r, buf)
    <3>1. b \in DOMAIN pipeline_table[r].buffer
      BY <1>1, <1>2 DEF MadeOf
    <3> QED
      BY <1>1, <1>3, <1>12, <3>1 DEF TableShape, Shares
  <2>2. PICK q \in DOMAIN pipeline_table : \E d \in DOMAIN pipeline_table[q].buffer :
          /\ pipeline_table[q].buffer[d].flags = "shared"
          /\ buf.base = pipeline_table[q].buffer[d].base
          /\ buf.size = pipeline_table[q].buffer[d].size
    BY <2>1 DEF OnSharedBuffer
  <2>3. PICK d \in DOMAIN pipeline_table[q].buffer :
          /\ pipeline_table[q].buffer[d].flags = "shared"
          /\ buf.base = pipeline_table[q].buffer[d].base
          /\ buf.size = pipeline_table[q].buffer[d].size
    BY <2>2
  <2>4. MadeOf(pipeline_table[q], q, pipeline_table[q].cfg)
    BY DEF TableShape, AllMade
  <2>5. buf.base.slot = q
    <3>1. d \in DOMAIN pipeline_table[q].cfg.buffer
      BY <2>4 DEF MadeOf
    <3> QED
      BY <2>3, <2>4, <3>1, BaseOf
  <2>6. q = p
    BY <1>7, <2>5
  <2>7. d = o
    <3>1. d \in DOMAIN cfg.buffer
      BY <1>1, <2>3, <2>6 DEF MadeOf
    <3> QED
      BY <1>10, <2>3, <2>6, <3>1
  <2>8. buf.base = ring.base /\ buf.size = ring.size
    BY <1>3, <2>3, <2>6, <2>7
  <2>9. j = m
    BY <1>5, <1>7, <2>8
  <2> QED
    BY <1>4, <1>12, <2>8, <2>9 DEF OfRing, ring, buf
<1> QED
  BY <1>11, <1>12

\* The rings over a shared buffer are of one size.
LEMMA SameRing ==
  ASSUME NEW l, TableShape(l), cpc = "running", SharedOnce(config),
         NEW u \in Thread, NEW o \in SharedBuffers(u),
         NEW v \in Thread, NEW b \in DOMAIN Configured(v).buffer, OfRing(u, o, v, b)
  PROVE  /\ BufferOf(v, b).size = BufferOf(u, o).size /\ BufferOf(v, b).base = BufferOf(u, o).base
         /\ Configured(v).buffer[b].flags \in {"shared", "shared_user"}
         /\ Configured(v).buffer[b].flags = "shared" => v = u /\ b = o
<1>1. /\ IsRing(BufferOf(u, o)) /\ IsRing(BufferOf(v, b)) /\ BufferOf(u, o).flags = "shared"
      /\ BufferOf(u, o).base.slot = handle[u]
  BY ThreadPipeline DEF SharedBuffers
<1>2. BufferOf(v, b).base = BufferOf(u, o).base
  BY DEF OfRing
<1>3. /\ Wrap(BufferOf(u, o).size) \in Nat \ {0} /\ Wrap(BufferOf(v, b).size) \in Nat \ {0}
      /\ BufferOf(u, o).base \in [slot : Slot, off : Nat]
  BY <1>1, RingWrap DEF IsRing, Ring
<1>4. 0 \in 0..Wrap(BufferOf(u, o).size)-1 /\ 0 \in 0..Wrap(BufferOf(v, b).size)-1
  BY <1>3
<1>5. <<handle[u], BufferOf(u, o).base.off + 0>> = Cell(BufferOf(v, b), 0)
  BY <1>1, <1>2 DEF Cell
<1>6. /\ BufferOf(v, b).size = BufferOf(u, o).size
      /\ Configured(v).buffer[b].flags # "none"
      /\ Configured(v).buffer[b].flags # "shared_user" => v = u /\ b = o
  BY <1>4, <1>5, RingOfCell
<1>7. Sound(Configured(v))
  BY ThreadPipeline
<1> QED
  BY <1>2, <1>6, <1>7 DEF Sound

\* What an element that runs does to the ring of a shared buffer.
LEMMA LateCells ==
  ASSUME NEW l, TableShape(l), NextTyped, SharedOnce(config),
         NEW u \in Thread, NEW o \in SharedBuffers(u), NEW k \in 0..Wrap(BufferOf(u, o).size)-1,
         RingAt(u, o, k), NEW v \in Thread, RunElement(v),
         NEW j \in 0..Wrap(BufferOf(u, o).size)-1
  PROVE  LET cell == BufferOf(u, o).base.off + j
             writes == v = u /\ o \in Range(Configured(u).element[next_element[u]].output)
             old == Pipeline(u).memory
             new == pipeline_table'[handle[u]].memory
         IN
         IF writes /\ j = BufferOf(u, o).write THEN new[cell] = "now"
         ELSE \/ new[cell] = "head" /\ j = Before(k, Wrap(BufferOf(u, o).size))
              \/ new[cell] = old[cell]
<1> DEFINE p == handle[u]
           r == handle[v]
           e == next_element[v]
           ring == BufferOf(u, o)
           w == Wrap(ring.size)
           cell == ring.base.off + j
           writes == v = u /\ o \in Range(Configured(u).element[next_element[u]].output)
           old == Pipeline(u).memory
           new == pipeline_table'[handle[u]].memory
<1>1. cpc = "running" /\ ~Done(v) /\ e \in DOMAIN Configured(v).element
      /\ RunsElement(pipeline_table, pipeline_table', r, e)
  BY RunElementStep DEF RunElement, Configured
<1>2. /\ p \in DOMAIN pipeline_table /\ MadeOf(pipeline_table[p], p, Configured(u))
      /\ r \in DOMAIN pipeline_table /\ MadeOf(pipeline_table[r], r, Configured(v))
      /\ ConfigCheck(Configured(v)) /\ Sound(Configured(v))
      /\ o \in DOMAIN Configured(u).buffer /\ ring.flags = "shared" /\ ring.base.slot = p /\ IsRing(ring)
  BY <1>1, ThreadPipeline DEF SharedBuffers
<1>3. ring = pipeline_table[p].buffer[o]
  BY DEF BufferOf
<1>4. cell \in DOMAIN pipeline_table[p].memory
  BY <1>2, <1>3, CellsApart
<1>5. IF <<p, cell>> \in Written(pipeline_table, r, e) THEN new[cell] = "now"
      ELSE \/ SilenceCell(pipeline_table, r, e, <<p, cell>>) /\ new[cell] = "head"
           \/ new[cell] = old[cell]
  BY <1>1, <1>2, <1>4 DEF RunsElement, Pipeline
<1>6. pipeline_table[r].cfg = Configured(v)
  BY <1>2 DEF MadeOf
<1>7. \A b \in Range(Configured(v).element[e].input) \cup Range(Configured(v).element[e].output) :
        b \in DOMAIN Configured(v).buffer
  BY <1>1, <1>2 DEF ConfigCheck
<1>8. \A b : BufferOf(v, b) = pipeline_table[r].buffer[b]
  BY DEF BufferOf
<1>9. \A b \in DOMAIN Configured(v).buffer :
        /\ IsRing(BufferOf(v, b))
        /\ BufferOf(v, b).write \in 0..Wrap(BufferOf(v, b).size)-1
  BY <1>1, ThreadPipeline, RingWrap
<1>10. ASSUME <<p, cell>> \in Written(pipeline_table, r, e)
       PROVE  writes /\ j = ring.write
  <2>1. PICK b \in Range(Configured(v).element[e].output) :
          <<p, cell>> = Cell(BufferOf(v, b), BufferOf(v, b).write)
    BY <1>6, <1>8, <1>10 DEF Written
  <2>2. b \in DOMAIN Configured(v).buffer /\ BufferOf(v, b).write \in 0..Wrap(BufferOf(v, b).size)-1
    BY <1>7, <1>9
  <2>3. /\ j = BufferOf(v, b).write
        /\ Configured(v).buffer[b].flags # "none"
        /\ Configured(v).buffer[b].flags # "shared_user" => v = u /\ b = o
    BY <1>1, <2>1, <2>2, RingOfCell
  <2>4. Configured(v).buffer[b].flags = "shared"
    <3>1. Configured(v).buffer[b].flags # "shared" => b \notin Range(Configured(v).element[e].output)
      BY <1>1, <1>2, <2>2, <2>3, SharedOnceOf
    <3> QED
      BY <3>1
  <2> QED
    BY <2>3, <2>4
<1>11. ASSUME writes, j = ring.write
       PROVE  <<p, cell>> \in Written(pipeline_table, r, e)
  <2>1. Cell(pipeline_table[r].buffer[o], pipeline_table[r].buffer[o].write) \in Written(pipeline_table, r, e)
    BY <1>6, <1>11 DEF Written
  <2>2. Cell(pipeline_table[r].buffer[o], pipeline_table[r].buffer[o].write) = <<p, cell>>
    BY <1>2, <1>3, <1>11 DEF Cell
  <2> QED
    BY <2>1, <2>2
<1>12. ASSUME SilenceCell(pipeline_table, r, e, <<p, cell>>)
       PROVE  j = Before(k, w)
  <2>1. PICK b \in Range(Configured(v).element[e].input) :
          \E m \in 0..Wrap(BufferOf(v, b).size)-1 :
            /\ <<p, cell>> = Cell(BufferOf(v, b), m)
            /\ Times(Configured(v).element[e].input, b) = 1
                 => m = Before(BufferOf(v, b).read, Wrap(BufferOf(v, b).size))
    BY <1>6, <1>8, <1>12 DEF SilenceCell
  <2>2. PICK m \in 0..Wrap(BufferOf(v, b).size)-1 :
            /\ <<p, cell>> = Cell(BufferOf(v, b), m)
            /\ Times(Configured(v).element[e].input, b) = 1
                 => m = Before(BufferOf(v, b).read, Wrap(BufferOf(v, b).size))
    BY <2>1
  <2>3. b \in DOMAIN Configured(v).buffer
    BY <1>7
  <2>4. /\ OfRing(u, o, v, b) /\ j = m /\ BufferOf(v, b).size = ring.size
        /\ Configured(v).buffer[b].flags # "none"
    BY <1>1, <2>2, <2>3, RingOfCell
  <2>5. Times(Configured(v).element[e].input, b) = 1
    BY <1>1, <1>2, <2>3, <2>4, SharedOnceOf
  <2>6. BufferOf(v, b).read = k
    <3>1. ~Failed(v) /\ ~(next_element[v] > e)
      BY <1>1 DEF Failed, NextTyped
    <3> QED
      BY <1>1, <2>3, <2>4, <2>5, <3>1 DEF RingAt
  <2> QED
    BY <2>2, <2>4, <2>5, <2>6
<1> HIDE DEF p, r, e, ring, w, cell, writes, old, new
<1>13. IF writes /\ j = ring.write THEN new[cell] = "now"
       ELSE \/ new[cell] = "head" /\ j = Before(k, w)
            \/ new[cell] = old[cell]
  BY <1>5, <1>10, <1>11, <1>12
<1> QED
  BY <1>13 DEF p, ring, w, cell, writes, old, new

\* The size of a shared buffer's ring.
LEMMA RingOfSeveral ==
  ASSUME NEW l, TableShape(l), cpc = "running", SharedOnce(config),
         NEW u \in Thread, NEW o \in SharedBuffers(u)
  PROVE  Wrap(BufferOf(u, o).size) \in Nat /\ Wrap(BufferOf(u, o).size) > 1
<1>1. /\ o \in DOMAIN Configured(u).buffer /\ Configured(u).buffer[o].flags = "shared"
      /\ Sound(Configured(u)) /\ ConfigCheck(Configured(u))
      /\ IsRing(BufferOf(u, o))
      /\ BufferOf(u, o).size = Configured(u).periods[Configured(u).buffer[o].storage]
  BY ThreadPipeline DEF SharedBuffers
<1>2. Configured(u).periods[Configured(u).buffer[o].storage] > 1
  BY <1>1, SharedOnceOf
<1>3. BufferOf(u, o).size \in Nat /\ BufferOf(u, o).size > 1
  BY <1>1, <1>2 DEF IsRing, Ring
<1> QED
  BY <1>3, WrapBounds

\* An index that is moved by n, and one that stays.
LEMMA Moved ==
  ASSUME NEW w \in Nat \ {0}, NEW k \in 0..w-1, NEW n, NEW new, new = (k + n) % w
  PROVE  /\ n = 0 => new = k
         /\ n = 1 => new = After(k, w)
<1>1. (k + 1) % w = After(k, w) /\ k % w = k /\ k + 0 = k
  BY ModOnce
<1> QED
  BY <1>1

\* The readers' indices.
LEMMA LateReads ==
  ASSUME NEW l, TableShape(l), NextTyped, SharedOnce(config),
         NEW u \in Thread, NEW o \in SharedBuffers(u), NEW k \in 0..Wrap(BufferOf(u, o).size)-1,
         RingAt(u, o, k), NEW v \in Thread, RunElement(v),
         NEW t \in Thread, NEW b \in DOMAIN Configured(t).buffer, NEW i \in DOMAIN Configured(t).element,
         OfRing(u, o, t, b), Times(Configured(t).element[i].input, b) = 1, ~Failed(t)
  PROVE  BufferOf(t, b)'.read = IF next_element'[t] > i THEN After(k, Wrap(BufferOf(u, o).size)) ELSE k
<1> DEFINE e == next_element[v]
           w == Wrap(BufferOf(u, o).size)
           cfg == Configured(t)
           buf == BufferOf(t, b)
           new == BufferOf(t, b)'
<1>1. /\ cpc = "running" /\ ~Done(v) /\ UNCHANGED <<config, handle>>
      /\ next_element' = [next_element EXCEPT ![v] = @ + 1]
      /\ DOMAIN next_element = Thread /\ next_element[v] \in Nat
  BY DEF RunElement, NextTyped
<1>2. e \in DOMAIN Configured(v).element /\ RunsElement(pipeline_table, pipeline_table', handle[v], e)
  BY RunElementStep DEF Configured
<1>3. /\ handle[t] \in DOMAIN pipeline_table /\ MadeOf(pipeline_table[handle[t]], handle[t], cfg)
      /\ Sound(cfg) /\ ConfigCheck(cfg) /\ IsRing(buf) /\ DOMAIN cfg.element = 1..Elements(t)
      /\ handle[v] = handle[t] => v = t
  BY <1>1, ThreadPipeline
<1>4. buf.size = BufferOf(u, o).size /\ cfg.buffer[b].flags # "none"
  BY <1>1, SameRing
<1>5. buf.read = IF next_element[t] > i THEN After(k, w) ELSE k
  BY DEF RingAt
<1>6. w \in Nat \ {0} /\ buf.read \in 0..w-1
  BY <1>3, <1>4, RingWrap
<1>7. /\ new = pipeline_table'[handle[t]].buffer[b] /\ buf = pipeline_table[handle[t]].buffer[b]
      /\ b \in DOMAIN pipeline_table[handle[t]].buffer
      /\ pipeline_table[handle[t]].cfg = cfg
  BY <1>1, <1>3 DEF BufferOf, MadeOf
<1>8. CASE t # v
  <2>1. new = buf
    BY <1>2, <1>3, <1>7, <1>8 DEF RunsElement, KeepsTable
  <2>2. next_element'[t] = next_element[t]
    BY <1>1, <1>8
  <2> QED
    BY <1>5, <2>1, <2>2
<1>9. CASE t = v
  <2>1. Times(cfg.element[e].input, b) = IF e = i THEN 1 ELSE 0
    <3>1. \A x \in DOMAIN cfg.element : Times(cfg.element[x].input, b) = IF x = i THEN 1 ELSE 0
      BY <1>3, <1>4, SharedTimes
    <3> QED
      BY <1>2, <1>9, <3>1
  <2>2. new.read = (buf.read + Times(cfg.element[e].input, b)) % w
    <3>1. Times(cfg.element[e].input, b) \in {0, 1}
      BY <2>1
    <3> QED
      BY <1>2, <1>4, <1>7, <1>9, <3>1 DEF RunsElement
  <2>3. next_element'[t] = e + 1 /\ next_element[t] = e /\ e \in Nat /\ i \in Int
    BY <1>1, <1>3, <1>9
  <2> HIDE DEF e, w, cfg, buf, new
  <2>4. CASE e = i
    <3>1. new.read = After(k, w)
      <4>1. buf.read = k
        BY <1>5, <2>3, <2>4
      <4> QED
        BY <1>6, <2>1, <2>2, <2>4, <4>1, Moved
    <3> QED
      BY <2>3, <2>4, <3>1 DEF new, w
  <2>5. CASE e # i
    <3>1. new.read = buf.read
      BY <1>6, <2>1, <2>2, <2>5, Moved
    <3>2. e + 1 > i <=> e > i
      BY <2>3, <2>5
    <3> QED
      BY <1>5, <2>3, <3>1, <3>2 DEF new, w, buf
  <2> QED
    BY <2>4, <2>5
<1> QED
  BY <1>8, <1>9

\* The owner's index and what it has written.
LEMMA LateWrites ==
  ASSUME NEW l, TableShape(l), NextTyped, SharedOnce(config),
         NEW u \in Thread, NEW o \in SharedBuffers(u), NEW k \in 0..Wrap(BufferOf(u, o).size)-1,
         RingAt(u, o, k), NEW v \in Thread, RunElement(v), ~Failed(u),
         NEW e \in DOMAIN Configured(u).element, Times(Configured(u).element[e].output, o) = 1
  PROVE  LET ring == BufferOf(u, o)
             w == Wrap(ring.size)
             memory == pipeline_table'[handle[u]].memory
         IN
         IF next_element'[u] > e
         THEN /\ BufferOf(u, o)'.write = After(After(k, w), w)
              /\ memory[ring.base.off + After(k, w)] \in {"now"} \cup IF w > 2 THEN {} ELSE {"head"}
         ELSE BufferOf(u, o)'.write = After(k, w)
<1> DEFINE d == next_element[v]
           ring == BufferOf(u, o)
           w == Wrap(ring.size)
           cfg == Configured(u)
           cell == ring.base.off + After(k, w)
           old == Pipeline(u).memory
           memory == pipeline_table'[handle[u]].memory
           new == BufferOf(u, o)'
           writes == v = u /\ o \in Range(Configured(u).element[next_element[u]].output)
<1>1. /\ cpc = "running" /\ UNCHANGED <<config, handle>>
      /\ next_element' = [next_element EXCEPT ![v] = @ + 1]
      /\ DOMAIN next_element = Thread /\ next_element[v] \in Nat /\ next_element[u] \in Nat
  BY DEF RunElement, NextTyped
<1>2. d \in DOMAIN Configured(v).element /\ RunsElement(pipeline_table, pipeline_table', handle[v], d)
  BY RunElementStep DEF Configured
<1>3. /\ handle[u] \in DOMAIN pipeline_table /\ MadeOf(pipeline_table[handle[u]], handle[u], cfg)
      /\ Sound(cfg) /\ ConfigCheck(cfg) /\ IsRing(ring) /\ DOMAIN cfg.element = 1..Elements(u)
      /\ o \in DOMAIN cfg.buffer /\ cfg.buffer[o].flags = "shared"
      /\ handle[v] = handle[u] => v = u
  BY <1>1, ThreadPipeline DEF SharedBuffers
<1>4. cfg.buffer[o].flags # "none"
  BY <1>3
<1>5. \A x \in DOMAIN cfg.element : Times(cfg.element[x].output, o) = IF x = e THEN 1 ELSE 0
  BY <1>3, <1>4, SharedTimes
<1>6. w \in Nat /\ w > 1 /\ ring.write \in 0..w-1
  BY <1>1, <1>3, RingOfSeveral, RingWrap
<1>7. /\ new = pipeline_table'[handle[u]].buffer[o] /\ ring = pipeline_table[handle[u]].buffer[o]
      /\ o \in DOMAIN pipeline_table[handle[u]].buffer
      /\ pipeline_table[handle[u]].cfg = cfg
  BY <1>1, <1>3 DEF BufferOf, MadeOf
<1>8. IF next_element[u] > e
      THEN /\ ring.write = After(After(k, w), w)
           /\ old[cell] \in {"now"} \cup IF w > 2 THEN {} ELSE {"head"}
      ELSE ring.write = After(k, w)
  BY DEF RingAt
<1>9. /\ After(k, w) \in 0..w-1 /\ k \in 0..w-1
      /\ w > 2 => Before(k, w) # After(k, w)
  BY <1>6, Neighbours
<1>10. /\ writes /\ After(k, w) = ring.write => memory[cell] = "now"
       /\ \/ memory[cell] \in {"now", old[cell]}
          \/ memory[cell] = "head" /\ After(k, w) = Before(k, w)
  <2>1. IF writes /\ After(k, w) = ring.write THEN memory[cell] = "now"
        ELSE \/ memory[cell] = "head" /\ After(k, w) = Before(k, w)
             \/ memory[cell] = old[cell]
    BY <1>9, LateCells
  <2> HIDE DEF writes, memory, old, cell, ring, w
  <2> QED
    BY <2>1
<1>11. CASE v = u /\ d = e
  <2>1. ring.write = After(k, w) /\ next_element'[u] = e + 1 /\ e \in Int
    BY <1>1, <1>3, <1>8, <1>11
  <2>2. new.write = After(After(k, w), w)
    <3>1. new.write = (ring.write + 1) % w
      <4>1. RunsElement(pipeline_table, pipeline_table', handle[u], e) /\ e \in DOMAIN cfg.element
        BY <1>2, <1>11
      <4>2. Times(cfg.element[e].output, o) = 1
        BY <1>5, <4>1
      <4> HIDE DEF new, ring, cfg
      <4>3. new.write = (ring.write + Times(cfg.element[e].output, o)) % Wrap(ring.size)
        BY <4>1, <1>7 DEF RunsElement
      <4> QED
        BY <4>2, <4>3
    <3> HIDE DEF new, w, ring
    <3> QED
      BY <1>6, <2>1, <3>1, Moved
  <2>3. memory[cell] = "now"
    <3>1. o \in Range(cfg.element[e].output)
      <4>1. \E m \in DOMAIN cfg.element[e].output : cfg.element[e].output[m] = o
        BY NamedOnce
      <4> QED
        BY <4>1 DEF Range
    <3> QED
      BY <1>10, <1>11, <2>1, <3>1
  <2>4. next_element'[u] > e
    BY <2>1
  <2> QED
    BY <2>2, <2>3, <2>4
<1>12. CASE ~(v = u /\ d = e)
  <2>1. next_element'[u] > e <=> next_element[u] > e
    <3>1. next_element'[u] = IF v = u THEN d + 1 ELSE next_element[u]
      BY <1>1
    <3>2. d \in Nat /\ e \in Int /\ (v = u => next_element[u] = d)
      BY <1>1, <1>3
    <3> QED
      BY <1>12, <3>1, <3>2
  <2>2. new.write = ring.write
    <3>1. CASE v = u
      <4>1. Times(cfg.element[d].output, o) = 0
        BY <1>2, <1>5, <1>12, <3>1
      <4>2. new.write = (ring.write + 0) % w
        BY <1>2, <1>7, <3>1, <4>1 DEF RunsElement
      <4> HIDE DEF new, w, ring
      <4>3. w \in Nat \ {0}
        BY <1>6
      <4> QED
        BY <1>6, <4>2, <4>3, Moved
    <3>2. CASE v # u
      <4>1. new = ring
        BY <1>2, <1>3, <1>7, <3>2 DEF RunsElement, KeepsTable
      <4> QED
        BY <4>1
    <3> QED
      BY <3>1, <3>2
  <2> HIDE DEF new, w, ring, cell, old, memory, writes
  <2>3. w > 2 => memory[cell] \in {"now", old[cell]}
    BY <1>9, <1>10
  <2>4. memory[cell] \in {"now", "head", old[cell]}
    BY <1>10
  <2>5. next_element[u] > e => memory[cell] \in {"now"} \cup IF w > 2 THEN {} ELSE {"head"}
    BY <1>8, <2>3, <2>4
  <2> QED
    BY <1>8, <2>1, <2>2, <2>5 DEF new, w, ring, cell, memory
<1> QED
  BY <1>11, <1>12

LEMMA LateRun ==
  ASSUME NEW l, TableShape(l), NextTyped, NEW u \in Thread, NEW o \in SharedBuffers(u), LateInv(u, o),
         NEW v \in Thread, RunElement(v)
  PROVE  LateInv(u, o)'
<1>1. /\ cpc = "running" /\ UNCHANGED <<config, handle, cpc, aligned, resetting>>
      /\ next_element' = [next_element EXCEPT ![v] = @ + 1] /\ ~Done(v)
      /\ DOMAIN next_element = Thread
  BY DEF RunElement, NextTyped
<1> SUFFICES ASSUME aligned, SharedOnce(config)
             PROVE  \E k \in 0..Wrap(BufferOf(u, o)'.size)-1 : RingAt(u, o, k)'
  BY <1>1 DEF LateInv
<1>2. PICK k \in 0..Wrap(BufferOf(u, o).size)-1 : RingAt(u, o, k)
  BY <1>1 DEF LateInv
<1> DEFINE w == Wrap(BufferOf(u, o).size)
<1>3. \A t \in Thread : Configured(t)' = Configured(t)
  BY <1>1 DEF Configured
<1>4. ASSUME NEW t \in Thread, NEW b \in DOMAIN Configured(t).buffer
      PROVE  Turns(BufferOf(t, b), BufferOf(t, b)')
  <2>1. handle[t] \in DOMAIN pipeline_table /\ b \in DOMAIN pipeline_table[handle[t]].buffer
    BY <1>1, ThreadPipeline DEF MadeOf
  <2>2. RunsElement(pipeline_table, pipeline_table', handle[v], next_element[v])
    BY RunElementStep
  <2> QED
    BY <1>1, <2>1, <2>2 DEF RunsElement, KeepsTable, BufferOf
<1>5. o \in DOMAIN Configured(u).buffer
  BY DEF SharedBuffers
<1>6. BufferOf(u, o)'.size = BufferOf(u, o).size /\ BufferOf(u, o)'.base = BufferOf(u, o).base
  BY <1>4, <1>5 DEF Turns
<1>7. \A t \in Thread : Failed(t) => Failed(t)'
  BY <1>1 DEF Failed, Done, Elements
<1>8. \A t \in Thread : \A b \in DOMAIN Configured(t).buffer : OfRing(u, o, t, b)' <=> OfRing(u, o, t, b)
  BY <1>3, <1>4, <1>6 DEF OfRing, Turns
<1>9. pipeline_table'[handle[u]].memory[BufferOf(u, o).base.off + k] \in Late(w)
  <2>1. Wrap(BufferOf(u, o).size) \in Nat /\ Wrap(BufferOf(u, o).size) > 1
    BY <1>1, RingOfSeveral
  <2>2. /\ After(k, w) # k /\ Before(k, w) # k
    BY <2>1, Neighbours
  <2> DEFINE writes == v = u /\ o \in Range(Configured(u).element[next_element[u]].output)
  <2>3. ~(writes /\ k = BufferOf(u, o).write)
    <3> SUFFICES ASSUME writes PROVE k # BufferOf(u, o).write
      OBVIOUS
    <3> DEFINE e == next_element[u]
    <3>1. e \in DOMAIN Configured(u).element
      BY RunElementStep DEF Configured
    <3>2. Sound(Configured(u)) /\ ConfigCheck(Configured(u)) /\ Configured(u).buffer[o].flags # "none"
      BY <1>1, ThreadPipeline DEF SharedBuffers
    <3>3. \A x \in DOMAIN Configured(u).element : Times(Configured(u).element[x].output, o) = IF x = e THEN 1 ELSE 0
      BY <1>5, <3>1, <3>2, SharedOnceOf
    <3>4. Times(Configured(u).element[e].output, o) = 1
      BY <3>1, <3>3
    <3>5. ~Failed(u) /\ ~(next_element[u] > e)
      BY <1>1 DEF Failed, NextTyped
    <3>6. BufferOf(u, o).write = After(k, w)
      BY <1>2, <3>1, <3>4, <3>5 DEF RingAt
    <3> QED
      BY <2>2, <3>6
  <2>4. IF writes /\ k = BufferOf(u, o).write
        THEN pipeline_table'[handle[u]].memory[BufferOf(u, o).base.off + k] = "now"
        ELSE \/ /\ pipeline_table'[handle[u]].memory[BufferOf(u, o).base.off + k] = "head"
                /\ k = Before(k, w)
             \/ pipeline_table'[handle[u]].memory[BufferOf(u, o).base.off + k]
                  = Pipeline(u).memory[BufferOf(u, o).base.off + k]
    BY <1>2, LateCells
  <2> HIDE DEF writes
  <2>5. Pipeline(u).memory[BufferOf(u, o).base.off + k] \in Late(w)
    BY <1>2 DEF RingAt
  <2> QED
    BY <2>2, <2>3, <2>4, <2>5
<1>10. RingAt(u, o, k)'
  <2>1. ASSUME ~Failed(u)', NEW e \in DOMAIN Configured(u).element, Times(Configured(u).element[e].output, o) = 1
        PROVE  IF next_element'[u] > e
               THEN /\ BufferOf(u, o)'.write = After(After(k, w), w)
                    /\ pipeline_table'[handle[u]].memory[BufferOf(u, o).base.off + After(k, w)]
                         \in {"now"} \cup IF w > 2 THEN {} ELSE {"head"}
               ELSE BufferOf(u, o)'.write = After(k, w)
    BY <1>2, <1>7, <2>1, LateWrites
  <2>2. ASSUME NEW t \in Thread, ~Failed(t)',
               NEW b \in DOMAIN Configured(t).buffer, NEW i \in DOMAIN Configured(t).element,
               OfRing(u, o, t, b)', Times(Configured(t).element[i].input, b) = 1
        PROVE  BufferOf(t, b)'.read = IF next_element'[t] > i THEN After(k, w) ELSE k
    BY <1>2, <1>7, <1>8, <2>2, LateReads
  <2>3. Thread' = Thread /\ Pipeline(u)' = pipeline_table'[handle[u]]
    BY <1>1 DEF Thread, Pipeline
  <2> QED
    BY <1>3, <1>6, <1>9, <2>1, <2>2, <2>3 DEF RingAt
<1> QED
  BY <1>6, <1>10

LEMMA LateFails ==
  ASSUME NEW l, TableShape(l), NextTyped, NEW u \in Thread, NEW o \in SharedBuffers(u), LateInv(u, o),
         NEW v \in Thread, RunElementFails(v)
  PROVE  LateInv(u, o)'
<1>1. /\ cpc = "running" /\ UNCHANGED <<config, handle, cpc, aligned, pipeline_table>> /\ resetting'
      /\ next_element' = [next_element EXCEPT ![v] = Elements(v) + 1]
      /\ DOMAIN next_element = Thread
  BY DEF RunElementFails, NextTyped
<1> SUFFICES ASSUME aligned, SharedOnce(config)
             PROVE  \E k \in 0..Wrap(BufferOf(u, o)'.size)-1 : RingAt(u, o, k)'
  BY <1>1 DEF LateInv
<1>2. PICK k \in 0..Wrap(BufferOf(u, o).size)-1 : RingAt(u, o, k)
  BY <1>1 DEF LateInv
<1>3. /\ \A t \in Thread : Configured(t)' = Configured(t) /\ Pipeline(t)' = Pipeline(t)
      /\ \A t, b : BufferOf(t, b)' = BufferOf(t, b)
      /\ Thread' = Thread
  BY <1>1 DEF Configured, BufferOf, Thread, Pipeline
<1>4. \A t, b : OfRing(u, o, t, b)' <=> OfRing(u, o, t, b)
  BY <1>1 DEF OfRing, Configured, BufferOf
<1>5. Failed(v)'
  <2>1. Elements(v) \in Nat
    BY <1>1, ThreadPipeline
  <2>2. next_element'[v] = Elements(v) + 1 /\ Elements(v)' = Elements(v)
    BY <1>1 DEF Elements
  <2> QED
    BY <1>1, <2>1, <2>2 DEF Failed, Done
<1>6. \A t \in Thread : ~Failed(t)' => ~Failed(t) /\ next_element'[t] = next_element[t]
  <2> SUFFICES ASSUME NEW t \in Thread, t # v PROVE ~Failed(t)' => ~Failed(t) /\ next_element'[t] = next_element[t]
    BY <1>5
  <2>1. next_element'[t] = next_element[t] /\ Elements(t)' = Elements(t)
    BY <1>1 DEF Elements
  <2> QED
    BY <1>1, <2>1 DEF Failed, Done
<1>7. RingAt(u, o, k)'
  BY <1>2, <1>3, <1>4, <1>6 DEF RingAt
<1> QED
  BY <1>3, <1>7

\* A period begins with everyone at index k.
LEMMA LateBegins ==
  ASSUME NEW l, TableShape(l), cpc = "running" \/ cpc = "setup", UNCHANGED <<config, handle>>,
         next_element' = [t \in Thread |-> 1], NEW u \in Thread, NEW o,
         NEW k \in 0..Wrap(BufferOf(u, o)'.size)-1,
         pipeline_table'[handle[u]].memory[BufferOf(u, o)'.base.off + k] \in Late(Wrap(BufferOf(u, o)'.size)),
         BufferOf(u, o)'.write = After(k, Wrap(BufferOf(u, o)'.size)),
         \A t \in Thread : \A b \in DOMAIN Configured(t).buffer : \A i \in DOMAIN Configured(t).element :
           OfRing(u, o, t, b)' /\ Times(Configured(t).element[i].input, b) = 1
             => BufferOf(t, b)'.read = k
  PROVE  RingAt(u, o, k)'
<1>1. /\ \A t \in Thread : Configured(t)' = Configured(t)
      /\ Thread' = Thread /\ Pipeline(u)' = pipeline_table'[handle[u]]
  BY DEF Configured, Thread, Pipeline
<1>2. ASSUME NEW t \in Thread, NEW e \in DOMAIN Configured(t).element PROVE ~(next_element'[t] > e)
  <2>1. DOMAIN Configured(t).element = 1..Elements(t) /\ Elements(t) \in Nat
    BY RunningPipeline DEF Live, Configured
  <2> QED
    BY <2>1
<1> QED
  BY <1>1, <1>2 DEF RingAt

\* At the end of a period the readers have gone on, to what the owner has written.
LEMMA LateNextPeriod ==
  ASSUME NEW l, TableShape(l), NextTyped, NEW u \in Thread, NEW o \in SharedBuffers(u), LateInv(u, o),
         NextPeriod
  PROVE  LateInv(u, o)'
<1>1. /\ cpc = "running" /\ AllDone /\ ~resetting /\ UNCHANGED <<config, handle, cpc, aligned>>
      /\ next_element' = [t \in Thread |-> 1]
      /\ \A q \in DOMAIN pipeline_table : pipeline_table'[q] = Aged(pipeline_table[q])
  BY DEF NextPeriod, AllDone
<1> SUFFICES ASSUME aligned, SharedOnce(config)
             PROVE  \E k \in 0..Wrap(BufferOf(u, o)'.size)-1 : RingAt(u, o, k)'
  BY <1>1 DEF LateInv
<1>2. PICK k \in 0..Wrap(BufferOf(u, o).size)-1 : RingAt(u, o, k)
  BY <1>1 DEF LateInv
<1> DEFINE ring == BufferOf(u, o)
           w == Wrap(ring.size)
           cell == ring.base.off + After(k, w)
<1>3. ASSUME NEW t \in Thread
      PROVE  /\ \A b : BufferOf(t, b)' = BufferOf(t, b)
             /\ \A c \in DOMAIN Pipeline(t).memory :
                  pipeline_table'[handle[t]].memory[c] = Age(Pipeline(t).memory[c])
             /\ ~Failed(t)
             /\ \A e \in DOMAIN Configured(t).element : next_element[t] > e
  <2>1. handle[t] \in DOMAIN pipeline_table /\ MadeOf(pipeline_table[handle[t]], handle[t], Configured(t))
        /\ DOMAIN Configured(t).element = 1..Elements(t) /\ Elements(t) \in Nat
    BY <1>1, ThreadPipeline
  <2>2. pipeline_table'[handle[t]].buffer = pipeline_table[handle[t]].buffer
        /\ \A c \in DOMAIN pipeline_table[handle[t]].memory :
             pipeline_table'[handle[t]].memory[c] = Age(pipeline_table[handle[t]].memory[c])
    BY <1>1, <2>1, AgedStep DEF MadeOf
  <2>3. next_element[t] \in Nat /\ next_element[t] > Elements(t)
    BY <1>1 DEF AllDone, Done, NextTyped
  <2> QED
    BY <1>1, <2>1, <2>2, <2>3 DEF BufferOf, Failed, Pipeline
<1>4. w \in Nat /\ w > 1 /\ After(k, w) \in 0..w-1
  <2>1. w \in Nat /\ w > 1
    BY <1>1, RingOfSeveral
  <2> QED
    BY <2>1, Neighbours
<1>5. PICK e \in DOMAIN Configured(u).element : Times(Configured(u).element[e].output, o) = 1
  <2>1. /\ Sound(Configured(u)) /\ ConfigCheck(Configured(u))
        /\ o \in DOMAIN Configured(u).buffer /\ Configured(u).buffer[o].flags = "shared"
    BY <1>1, ThreadPipeline DEF SharedBuffers
  <2>2. PICK e \in DOMAIN Configured(u).element : o \in Range(Configured(u).element[e].output)
    BY <2>1, SharedOnceOf
  <2>3. \A x \in DOMAIN Configured(u).element : Times(Configured(u).element[x].output, o) = IF x = e THEN 1 ELSE 0
    BY <2>1, <2>2, SharedOnceOf
  <2> QED
    BY <2>3
<1>6. /\ ring.write = After(After(k, w), w)
      /\ Pipeline(u).memory[cell] \in {"now"} \cup IF w > 2 THEN {} ELSE {"head"}
  BY <1>2, <1>3, <1>5 DEF RingAt
<1>7. cell \in DOMAIN Pipeline(u).memory
  <2>1. /\ MadeOf(Pipeline(u), handle[u], Configured(u))
        /\ o \in DOMAIN Configured(u).buffer /\ ring.flags = "shared" /\ ring = Pipeline(u).buffer[o]
    BY <1>1, ThreadPipeline DEF SharedBuffers, BufferOf, Pipeline
  <2> QED
    BY <1>4, <2>1, CellsApart
<1>8. pipeline_table'[handle[u]].memory[cell] \in Late(w)
  <2>1. pipeline_table'[handle[u]].memory[cell] = Age(Pipeline(u).memory[cell])
    BY <1>3, <1>7
  <2> HIDE DEF w, cell
  <2> QED
    BY <1>6, <2>1 DEF Late, Age
<1>9. BufferOf(u, o)' = ring
  BY <1>3
<1>10. ASSUME NEW t \in Thread, NEW b \in DOMAIN Configured(t).buffer, NEW i \in DOMAIN Configured(t).element,
              OfRing(u, o, t, b)', Times(Configured(t).element[i].input, b) = 1
       PROVE  BufferOf(t, b)'.read = After(k, w)
  <2>1. OfRing(u, o, t, b)
    BY <1>1, <1>3, <1>10 DEF OfRing, Configured
  <2>2. BufferOf(t, b)' = BufferOf(t, b)
    BY <1>3
  <2> QED
    BY <1>2, <1>3, <1>10, <2>1, <2>2 DEF RingAt
<1>11. RingAt(u, o, After(k, w))'
  BY <1>1, <1>4, <1>6, <1>8, <1>9, <1>10, LateBegins
<1> QED
  BY <1>4, <1>9, <1>11

\* Rings that are fresh, and the silence of the owner.
LEMMA LateFresh ==
  ASSUME NEW l, TableShape(l), cpc = "running" \/ cpc = "setup", UNCHANGED <<config, handle>>,
         next_element' = [t \in Thread |-> 1], NEW u \in Thread, NEW o,
         BufferOf(u, o)'.size \in Nat, Wrap(BufferOf(u, o)'.size) > 1,
         BufferOf(u, o)'.silence = 1, FreshRing(BufferOf(u, o)'), BufferOf(u, o)'.base.off \in Nat,
         pipeline_table'[handle[u]].memory[BufferOf(u, o)'.base.off] = "last",
         \A t \in Thread : \A b \in DOMAIN Configured(t).buffer : \A i \in DOMAIN Configured(t).element :
           OfRing(u, o, t, b)' /\ Times(Configured(t).element[i].input, b) = 1
             => BufferOf(t, b)'.read = 0
  PROVE  \E k \in 0..Wrap(BufferOf(u, o)'.size)-1 : RingAt(u, o, k)'
<1> DEFINE w == Wrap(BufferOf(u, o)'.size)
<1>1. w \in Nat /\ w > 1
  BY WrapBounds
<1>2. 0 \in 0..w-1 /\ (0 + 1) % w = After(0, w) /\ 0 + 1 = 1
  <2> HIDE DEF w
  <2>1. 0 \in 0..w-1
    BY <1>1
  <2> QED
    BY <1>1, <2>1, Neighbours
<1>3. BufferOf(u, o)'.write = After(0, w)
  BY <1>2 DEF FreshRing
<1>4. pipeline_table'[handle[u]].memory[BufferOf(u, o)'.base.off + 0] \in Late(w)
  <2>1. BufferOf(u, o)'.base.off + 0 = BufferOf(u, o)'.base.off
    OBVIOUS
  <2> QED
    BY <2>1 DEF Late
<1>5. RingAt(u, o, 0)'
  BY <1>2, <1>3, <1>4, LateBegins
<1> QED
  BY <1>2, <1>5

\* After a reset the owner is one period ahead, over the silence, of readers that are
\* at index 0.
LEMMA LateReset ==
  ASSUME NEW l, TableShape(l), NextTyped, NEW u \in Thread, NEW o \in SharedBuffers(u), ResetPipelines
  PROVE  LateInv(u, o)'
<1>1. /\ cpc = "running" /\ UNCHANGED <<config, handle, cpc>> /\ DOMAIN handle = Thread
      /\ next_element' = [t \in Thread |-> 1]
      /\ aligned' = \A t \in Thread : \A b \in SharedReaders(pipeline_table'[handle[t]]) :
           pipeline_table'[handle[t]].buffer[b].read = 0
  BY DEF ResetPipelines, AllDone, TableShape, CommandTyped
<1> SUFFICES ASSUME aligned', SharedOnce(config)
             PROVE  \E k \in 0..Wrap(BufferOf(u, o)'.size)-1 : RingAt(u, o, k)'
  BY <1>1 DEF LateInv
<1>2. ASSUME NEW t \in Thread
      PROVE  /\ handle[t] \in DOMAIN pipeline_table
             /\ MadeOf(pipeline_table[handle[t]], handle[t], Configured(t))
             /\ LET reset == ResetBuffers(Configured(t))
                    old == pipeline_table[handle[t]]
                    new == pipeline_table'[handle[t]]
                IN /\ DOMAIN new.buffer = DOMAIN old.buffer
                   /\ \A b \in DOMAIN old.buffer :
                        new.buffer[b] = IF b \in reset THEN Reset(old.buffer[b]) ELSE old.buffer[b]
                   /\ \A c \in DOMAIN old.memory : c \in Silences(old.buffer, reset) => new.memory[c] = "last"
  <2> DEFINE p == handle[t]
             aged == Aged(pipeline_table[p])
  <2>1. p \in DOMAIN pipeline_table /\ MadeOf(pipeline_table[p], p, Configured(t))
    BY <1>1, ThreadPipeline
  <2>2. pipeline_table'[p] = PipelineReset(aged)
    <3>1. p \in Range(handle)
      BY <1>1 DEF Range
    <3> QED
      BY <2>1, <3>1 DEF ResetPipelines
  <2> HIDE DEF p, aged
  <2>3. /\ aged.cfg = Configured(t) /\ aged.buffer = pipeline_table[p].buffer
        /\ DOMAIN aged.memory = DOMAIN pipeline_table[p].memory
    BY <2>1, AgedStep DEF aged, MadeOf
  <2>4. /\ DOMAIN pipeline_table'[p].buffer = DOMAIN aged.buffer
        /\ \A b \in DOMAIN aged.buffer :
             pipeline_table'[p].buffer[b] = IF b \in ResetBuffers(aged.cfg) THEN Reset(aged.buffer[b])
                                            ELSE aged.buffer[b]
        /\ \A c \in DOMAIN aged.memory :
             c \in Silences(aged.buffer, ResetBuffers(aged.cfg)) => pipeline_table'[p].memory[c] = "last"
    BY <2>2, PipelineResetStep
  <2> QED
    BY <2>1, <2>3, <2>4 DEF p
<1> DEFINE ring == BufferOf(u, o)
           new == BufferOf(u, o)'
<1>3. /\ o \in DOMAIN Configured(u).buffer /\ IsRing(ring) /\ ring.silence = 1 /\ ring.flags = "shared"
      /\ o \in DOMAIN pipeline_table[handle[u]].buffer
      /\ Sound(Configured(u)) /\ ConfigCheck(Configured(u)) /\ Configured(u).buffer[o].flags = "shared"
  <2>1. /\ o \in DOMAIN Configured(u).buffer /\ Configured(u).buffer[o].flags = "shared"
        /\ MadeOf(pipeline_table[handle[u]], handle[u], Configured(u))
        /\ ring = pipeline_table[handle[u]].buffer[o]
    BY <1>2 DEF SharedBuffers, BufferOf
  <2> HIDE DEF ring
  <2> QED
    BY <2>1 DEF MadeOf
<1>4. o \in ResetBuffers(Configured(u))
  <2>1. PICK e \in DOMAIN Configured(u).element : o \in Range(Configured(u).element[e].output)
    BY <1>3, SharedOnceOf
  <2> QED
    BY <1>3, <2>1, WrittenReset
<1>5. new = Reset(ring)
  BY <1>1, <1>2, <1>3, <1>4 DEF BufferOf
<1>6. Turns(ring, new) /\ FreshRing(new)
  BY <1>3, <1>5, ResetStep DEF IsRing
<1>7. /\ new.size = ring.size /\ new.size \in Nat /\ new.silence = 1 /\ new.base = ring.base
      /\ new.base.off \in Nat
  BY <1>3, <1>6 DEF Turns, IsRing, Ring
<1>8. Wrap(new.size) > 1
  BY <1>1, <1>7, RingOfSeveral
<1>9. pipeline_table'[handle[u]].memory[new.base.off] = "last"
  <2>1. ring.base.off \in Silences(pipeline_table[handle[u]].buffer, ResetBuffers(Configured(u)))
    <3> DEFINE buffer == pipeline_table[handle[u]].buffer  reset == ResetBuffers(Configured(u))
    <3>1. o \in reset /\ ring = buffer[o] /\ buffer[o].silence > 0
      BY <1>3, <1>4 DEF BufferOf
    <3> HIDE DEF buffer, reset, ring
    <3>2. ring.base.off \in Silences(buffer, reset)
      BY <3>1 DEF Silences
    <3> QED
      BY <3>2 DEF buffer, reset
  <2>2. ring.base.off \in DOMAIN pipeline_table[handle[u]].memory
    <3>1. 0 \in 0..Wrap(ring.size)-1 /\ ring.base.off + 0 = ring.base.off
      BY <1>3, RingWrap DEF IsRing, Ring
    <3>2. ring = pipeline_table[handle[u]].buffer[o]
      BY DEF BufferOf
    <3>3. ring.base.off + 0 \in DOMAIN pipeline_table[handle[u]].memory
      BY <1>2, <1>3, <3>1, <3>2, CellsApart
    <3> QED
      BY <3>1, <3>3
  <2> QED
    BY <1>2, <1>7, <2>1, <2>2
<1>10. ASSUME NEW t \in Thread, NEW b \in DOMAIN Configured(t).buffer, OfRing(u, o, t, b)'
       PROVE  BufferOf(t, b)'.read = 0
  <2>1. CASE t = u /\ b = o
    BY <1>6, <2>1 DEF FreshRing
  <2>2. CASE ~(t = u /\ b = o)
    <3>1. Configured(t).buffer[b].flags = "shared_user"
      BY <1>1, <1>10, <2>2 DEF OfRing, Configured
    <3>2. BufferOf(t, b)' = pipeline_table'[handle[t]].buffer[b]
      BY <1>1 DEF BufferOf
    <3>3. /\ b \in DOMAIN pipeline_table[handle[t]].buffer /\ IsRing(pipeline_table[handle[t]].buffer[b])
          /\ pipeline_table[handle[t]].buffer[b].flags = "shared_user"
      BY <1>2, <3>1 DEF MadeOf
    <3>4. /\ b \in DOMAIN pipeline_table'[handle[t]].buffer
          /\ \/ pipeline_table'[handle[t]].buffer[b] = Reset(pipeline_table[handle[t]].buffer[b])
             \/ pipeline_table'[handle[t]].buffer[b] = pipeline_table[handle[t]].buffer[b]
      BY <1>2, <3>3
    <3>5. Turns(pipeline_table[handle[t]].buffer[b], Reset(pipeline_table[handle[t]].buffer[b]))
      BY <3>3, ResetStep DEF IsRing
    <3>6. pipeline_table'[handle[t]].buffer[b].flags = "shared_user"
      BY <3>3, <3>4, <3>5 DEF Turns
    <3>7. b \in SharedReaders(pipeline_table'[handle[t]])
      BY <3>4, <3>6 DEF SharedReaders
    <3> QED
      BY <1>1, <3>2, <3>7
  <2> QED
    BY <2>1, <2>2
<1> HIDE DEF new
<1>11. \E k \in 0..Wrap(new.size)-1 : RingAt(u, o, k)'
  BY <1>1, <1>6, <1>7, <1>8, <1>9, <1>10, LateFresh DEF new
<1> QED
  BY <1>11 DEF new

\* So is everyone when the pipelines have been initialised.
LEMMA LateSetup ==
  ASSUME NEW l, TableShape(l), NextTyped, NEW u \in Thread, NEW o \in SharedBuffers(u), LateInv(u, o),
         \A t \in Thread : PhaseInv(t), SaiSetup
  PROVE  LateInv(u, o)'
<1>1. /\ cpc = "setup" /\ cpc' = "running" /\ UNCHANGED <<config, handle, pipeline_table>>
      /\ next_element' = [t \in Thread |-> 1]
  BY DEF SaiSetup
<1> SUFFICES ASSUME SharedOnce(config)
             PROVE  \E k \in 0..Wrap(BufferOf(u, o)'.size)-1 : RingAt(u, o, k)'
  BY <1>1 DEF LateInv
<1>2. \A t \in Thread : Live(t) /\ FreshRings(t)
  BY <1>1 DEF PhaseInv, Live
<1>3. \A t, b : BufferOf(t, b)' = BufferOf(t, b)
  BY <1>1 DEF BufferOf
<1>4. /\ MadeOf(Pipeline(u), handle[u], Configured(u)) /\ o \in DOMAIN Configured(u).buffer
      /\ Configured(u).buffer[o].flags = "shared" /\ BufferOf(u, o) = Pipeline(u).buffer[o]
  BY <1>2, RunningPipeline DEF SharedBuffers, Configured, BufferOf, Pipeline
<1>5. /\ IsRing(BufferOf(u, o)) /\ BufferOf(u, o).silence = 1
      /\ BufferOf(u, o).size = Configured(u).periods[Configured(u).buffer[o].storage]
      /\ Sound(Configured(u)) /\ ConfigCheck(Configured(u))
  BY <1>4 DEF MadeOf
<1>6. BufferOf(u, o).size \in Nat /\ BufferOf(u, o).size > 1 /\ BufferOf(u, o).base.off \in Nat
  <2>1. Configured(u).periods[Configured(u).buffer[o].storage] > 1
    BY <1>4, <1>5, SharedOnceOf
  <2> QED
    BY <1>5, <2>1 DEF IsRing, Ring
<1>7. Wrap(BufferOf(u, o).size) > 1
  BY <1>6, WrapBounds
<1>8. pipeline_table'[handle[u]].memory[BufferOf(u, o).base.off] = "last"
  BY <1>1, <1>2 DEF LateInv, Pipeline
<1>9. FreshRing(BufferOf(u, o))
  BY <1>2, <1>4 DEF FreshRings
<1>10. \A t \in Thread : \A b \in DOMAIN Configured(t).buffer : BufferOf(t, b).read = 0
  BY <1>2 DEF FreshRings, FreshRing
<1> QED
  BY <1>1, <1>3, <1>5, <1>6, <1>7, <1>8, <1>9, <1>10, LateFresh

LEMMA LateInitPipeline ==
  ASSUME NEW l, TableShape(l), NEW u \in Thread, NEW o \in SharedBuffers(u), LateInv(u, o), InitPipeline
  PROVE  LateInv(u, o)'
<1>1. /\ config \in Configs /\ config' = config /\ Thread = 1..Len(config) /\ Len(config) \in Nat
      /\ ci \in Thread /\ DOMAIN handle = Thread
  BY ThreadRange DEF TableShape, CommandTyped, InitPipeline
<1>2. cpc = "init" /\ cpc' \in {"init", "setup"} /\ (Live(u)' => Live(u) \/ u = ci)
  BY <1>1 DEF InitPipeline, Live
<1>3. /\ l + ci - 1 \notin DOMAIN pipeline_table
      /\ \A q \in DOMAIN pipeline_table : pipeline_table'[q] = pipeline_table[q]
      /\ InitialisedIn(pipeline_table, pipeline_table'[l + ci - 1], l + ci - 1, SetConfig(config[ci]))
      /\ handle' = [handle EXCEPT ![ci] = l + ci - 1]
  BY PipelineInitialised
<1> SUFFICES ASSUME Live(u)' PROVE (Pipeline(u).memory[BufferOf(u, o).base.off] = "last")'
  BY <1>2 DEF LateInv
<1>4. CASE u = ci
  <2>1. handle'[u] = l + ci - 1 /\ Configured(u) = SetConfig(config[ci])
    BY <1>1, <1>3, <1>4 DEF Configured
  <2>2. Pipeline(u)' = pipeline_table'[l + ci - 1] /\ BufferOf(u, o)' = pipeline_table'[l + ci - 1].buffer[o]
    BY <2>1 DEF Pipeline, BufferOf
  <2>3. o \in DOMAIN Configured(u).buffer /\ Configured(u).buffer[o].flags = "shared"
    BY DEF SharedBuffers
  <2>4. pipeline_table'[l + ci - 1].buffer[o].flags = "shared"
    BY <1>3, <2>1, <2>3 DEF InitialisedIn, MadeOf
  <2>5. pipeline_table'[l + ci - 1].memory[pipeline_table'[l + ci - 1].buffer[o].base.off] = "last"
    BY <1>3, <2>1, <2>3, <2>4 DEF InitialisedIn
  <2> QED
    BY <2>2, <2>5
<1>5. CASE u # ci
  <2>1. Live(u)
    BY <1>2, <1>5
  <2>2. handle'[u] = handle[u] /\ pipeline_table'[handle[u]] = pipeline_table[handle[u]]
    BY <1>1, <1>3, <1>5, <2>1, RunningPipeline
  <2>3. Pipeline(u).memory[BufferOf(u, o).base.off] = "last"
    BY <1>2, <2>1 DEF LateInv
  <2> QED
    BY <2>2, <2>3 DEF Pipeline, BufferOf
<1> QED
  BY <1>4, <1>5

LEMMA LateStep ==
  ASSUME NEW l, TableShape(l), NextTyped, \A t \in Thread : PhaseInv(t),
         NEW u \in Thread, NEW o \in SharedBuffers(u), LateInv(u, o), [Next]_vars
  PROVE  LateInv(u, o)'
<1>1. Thread = 1..Len(config) /\ Len(config) \in Nat /\ ci \in Thread
  BY ThreadRange DEF TableShape, CommandTyped
<1>2. CASE CommandRun \/ InitPipelineFails \/ SaiSetupFails \/ CommandStop \/ ExitPipeline
  <2>1. cpc' # "running" /\ (cpc' \in {"init", "setup"} => ~Live(u)')
    BY <1>1, <1>2 DEF CommandRun, InitPipelineFails, SaiSetupFails, CommandStop, ExitPipeline, Fail, Live
  <2> QED
    BY <2>1 DEF LateInv
<1>3. CASE InitPipeline
  BY <1>3, LateInitPipeline
<1>4. CASE SaiSetup
  BY <1>4, LateSetup
<1>5. ASSUME NEW v \in Thread, RunElement(v) \/ RunElementFails(v)
      PROVE  LateInv(u, o)'
  BY <1>5, LateRun, LateFails
<1>6. CASE NextPeriod \/ ResetPipelines
  BY <1>6, LateNextPeriod, LateReset
<1>7. CASE UNCHANGED vars
  <2>1. /\ \A t \in Thread : /\ Configured(t)' = Configured(t) /\ (Failed(t)' <=> Failed(t))
                             /\ Pipeline(t)' = Pipeline(t) /\ (Live(t)' <=> Live(t))
        /\ \A t, b : BufferOf(t, b)' = BufferOf(t, b) /\ (OfRing(u, o, t, b)' <=> OfRing(u, o, t, b))
        /\ UNCHANGED vars /\ Thread' = Thread
    BY <1>7 DEF vars, Live, OfRing, Failed, Done, Elements, BufferOf, Pipeline, Configured, Thread
  <2>2. \A k : RingAt(u, o, k) => RingAt(u, o, k)'
    BY <2>1 DEF RingAt, vars
  <2> QED
    BY <2>1, <2>2 DEF LateInv, vars
<1> QED
  BY <1>2, <1>3, <1>4, <1>5, <1>6, <1>7 DEF Next

LateSafe == PhaseSafe /\ \A u \in Thread : \A o \in SharedBuffers(u) : LateInv(u, o)

\* Every reader of a shared buffer is handed the samples of the last period, however
\* many threads run in whatever order, if they start together.
THEOREM ReadersOneLate == Spec => []SharedOneLate
<1>1. Init => LateSafe
  <2>1. Init => \A u \in Thread : \A o \in SharedBuffers(u) : LateInv(u, o)
    BY DEF Init, LateInv
  <2> QED
    BY <2>1, PhaseSafeInit DEF LateSafe
<1>2. LateSafe /\ [Next]_vars => LateSafe'
  <2> SUFFICES ASSUME LateSafe, [Next]_vars PROVE LateSafe'
    OBVIOUS
  <2>1. PhaseSafe /\ NextTyped /\ \A t \in Thread : PhaseInv(t)
    BY DEF LateSafe, PhaseSafe
  <2>2. PICK l \in Nat : TableShape(l)
    BY <2>1 DEF TableInv, PhaseSafe
  <2>3. PhaseSafe' /\ Thread' = Thread
    BY <2>1, PhaseSafeStep
  <2>4. \A u \in Thread : SharedBuffers(u)' = SharedBuffers(u)
    <3>1. config' = config
      BY DEF Next, CommandRun, InitPipeline, InitPipelineFails, SaiSetup, SaiSetupFails, CommandStop,
         ExitPipeline, Fail, RunElement, RunElementFails, NextPeriod, ResetPipelines, vars
    <3> QED
      BY <3>1 DEF SharedBuffers, Configured
  <2>5. \A u \in Thread : \A o \in SharedBuffers(u) : LateInv(u, o)'
    BY <2>1, <2>2, LateStep DEF LateSafe
  <2> QED
    BY <2>3, <2>4, <2>5 DEF LateSafe
<1>3. LateSafe => SharedOneLate
  <2> SUFFICES ASSUME LateSafe, aligned, failures = 0, SharedOnce(config),
                      NEW t \in Thread, NEW b \in Reads(t),
                      Pipeline(t).buffer[b].flags \in {"shared", "shared_user"}
               PROVE  AgeRead(t, b) \in IF Wrap(Pipeline(t).buffer[b].size) > 2 THEN {"last"} ELSE {"last", "head"}
    BY DEF SharedOneLate
  <2> DEFINE cfg == Configured(t)
             e == next_element[t]
             buf == BufferOf(t, b)
  <2>1. /\ cpc = "running" /\ ~Done(t) /\ b \in Range(Pipeline(t).cfg.element[e].input) /\ e \in Nat \ {0}
    BY DEF Reads, LateSafe, PhaseSafe, NextTyped
  <2>2. TableShape(0)
    <3>1. PICK l \in Nat : TableShape(l)
      BY DEF TableInv, PhaseSafe, LateSafe
    <3> QED
      BY <3>1 DEF TableShape, Layout
  <2>3. /\ handle[t] \in DOMAIN pipeline_table /\ MadeOf(pipeline_table[handle[t]], handle[t], cfg)
        /\ Sound(cfg) /\ ConfigCheck(cfg) /\ DOMAIN cfg.element = 1..Elements(t) /\ Elements(t) \in Nat
        /\ Pipeline(t).cfg = cfg /\ buf = Pipeline(t).buffer[b]
    BY <2>1, <2>2, ThreadPipeline DEF MadeOf, Pipeline, BufferOf
  <2>4. e \in DOMAIN cfg.element /\ b \in Range(cfg.element[e].input)
    BY <2>1, <2>3 DEF Done
  <2>5. b \in DOMAIN cfg.buffer
    BY <2>3, <2>4 DEF ConfigCheck
  <2>6. buf.flags = cfg.buffer[b].flags /\ buf.flags \in {"shared", "shared_user"}
    BY <2>1, <2>2, <2>3, <2>5, ThreadPipeline
  <2>7. PICK u \in Thread : \E o \in SharedBuffers(u) : OfRing(u, o, t, b)
    <3>1. CASE buf.flags = "shared"
      BY <2>5, <2>6, <3>1 DEF SharedBuffers, OfRing
    <3>2. CASE buf.flags = "shared_user"
      <4>1. OnSharedBuffer(pipeline_table, handle[t], buf)
        <5>1. b \in DOMAIN pipeline_table[handle[t]].buffer
          BY <2>3, <2>5 DEF MadeOf
        <5> QED
          BY <2>1, <2>2, <2>3, <3>2, <5>1 DEF TableShape, Shares, BufferOf
      <4>2. PICK p \in DOMAIN pipeline_table : \E o \in DOMAIN pipeline_table[p].buffer :
              pipeline_table[p].buffer[o].flags = "shared" /\ buf.base = pipeline_table[p].buffer[o].base
        BY <4>1 DEF OnSharedBuffer
      <4>3. PICK o \in DOMAIN pipeline_table[p].buffer :
              pipeline_table[p].buffer[o].flags = "shared" /\ buf.base = pipeline_table[p].buffer[o].base
        BY <4>2
      <4>4. PICK u \in Thread : p = 0 + u - 1
        <5>1. p \in Slot /\ ~(p < 0)
          <6>1. p \in Slot
            BY <2>2 DEF TableShape, Layout
          <6> QED
            BY <6>1, MaxPipelinesAssumption DEF Slot
        <5> QED
          BY <2>2, <5>1 DEF TableShape, Layout
      <4>5. handle[u] = p
        BY <2>1, <2>2, <4>4, RunningPipeline DEF Live
      <4>6. MadeOf(pipeline_table[p], p, Configured(u)) /\ BufferOf(u, o) = pipeline_table[p].buffer[o]
        BY <2>1, <2>2, <4>5, ThreadPipeline DEF BufferOf
      <4>7. o \in SharedBuffers(u)
        BY <4>3, <4>6 DEF MadeOf, SharedBuffers
      <4> QED
        BY <2>6, <3>2, <4>3, <4>6, <4>7 DEF OfRing
    <3> QED
      BY <2>6, <3>1, <3>2
  <2>8. PICK o \in SharedBuffers(u) : OfRing(u, o, t, b)
    BY <2>7
  <2>9. PICK k \in 0..Wrap(BufferOf(u, o).size)-1 : RingAt(u, o, k)
    BY <2>1 DEF LateSafe, LateInv
  <2>10. buf.size = BufferOf(u, o).size /\ buf.base = BufferOf(u, o).base
    BY <2>1, <2>2, <2>5, <2>8, SameRing
  <2>11. Times(cfg.element[e].input, b) = 1
    <3>1. cfg.buffer[b].flags # "none"
      BY <2>6
    <3>2. \A x \in DOMAIN cfg.element : Times(cfg.element[x].input, b) = IF x = e THEN 1 ELSE 0
      BY <2>3, <2>4, <2>5, <3>1, SharedOnceOf
    <3> QED
      BY <2>4, <3>2
  <2>12. buf.read = k
    <3>1. ~Failed(t) /\ ~(next_element[t] > e)
      BY <2>1 DEF Failed
    <3> QED
      BY <2>4, <2>5, <2>8, <2>9, <2>11, <3>1 DEF RingAt
  <2>13. AgeRead(t, b) = Pipeline(u).memory[BufferOf(u, o).base.off + k]
    <3>1. BufferOf(u, o).base.slot = handle[u]
      BY <2>1, <2>2, ThreadPipeline DEF SharedBuffers
    <3> QED
      BY <2>3, <2>10, <2>12, <3>1 DEF AgeRead, Pipeline
  <2>14. Pipeline(u).memory[BufferOf(u, o).base.off + k] \in Late(Wrap(BufferOf(u, o).size))
    BY <2>9 DEF RingAt
  <2>15. Wrap(Pipeline(t).buffer[b].size) = Wrap(BufferOf(u, o).size)
    BY <2>3, <2>10
  <2> QED
    BY <2>13, <2>14, <2>15 DEF Late
<1> QED
  BY <1>1, <1>2, <1>3, PTL DEF Spec
=============================================================================

--------------------------- MODULE KernelMemProofs ---------------------------
(***************************************************************************)
(* The safety of KernelMemSpec, proved for every size of the memory and of *)
(* the tables, for every memory map that is sound and for every history of *)
(* heaps that come, grow and go.                                           *)
(***************************************************************************)
EXTENDS KernelMemSpec, VirtMemLemmas
------------------------------------------------------------------------------
(***************************************************************************)
(* Induction along the loops of KernelMem, which are folds.  J[i] holds    *)
(* what is known of the loop's results after i turns, X their types.       *)
(***************************************************************************)
\* The loop of allocHeap that takes the pages.
LEMMA AllocPageFold ==
  ASSUME NEW X, NEW b \in X, NEW n \in Nat, NEW q, DOMAIN q = 1 .. n,
         \A x \in X, i \in 1 .. n : AllocPage(x, q[i]) \in X,
         NEW J, b \in J[0],
         \A i \in 1 .. n : \A x \in X : x \in J[i - 1] => AllocPage(x, q[i]) \in J[i]
  PROVE  FoldLeft(AllocPage, b, q) \in X \cap J[n]
<1> DEFINE Is(h) == h = [s \in SUBSET DOMAIN q |->
                           IF s = {} THEN b ELSE AllocPage(h[s \ {Max(s)}], q[Max(s)])]
           iter == CHOOSE h : Is(h)
           F == [i \in 1 .. n |-> [x \in X |-> AllocPage(x, q[i])]]
           K == [i \in 0 .. n |-> X \cap J[i]]
<1>1. FoldLeft(AllocPage, b, q) = iter[1 .. n]
  BY DEF FoldLeft, MapThenFoldSet
<1>2. \A i \in 1 .. n, x \in X : F[i][x] = AllocPage(x, q[i]) /\ F[i][x] \in X
  OBVIOUS
<1>3. PICK h : FoldsOver(n, X, b, F, h)
  <2>. HIDE DEF F
  <2>. QED  BY <1>2, FoldExists
<1>4. Is(h)
  <2>1. ASSUME NEW s \in SUBSET (1 .. n), s # {}
        PROVE  Max(s) \in 1 .. n /\ h[s \ {Max(s)}] \in X
    <3>1. s \subseteq 0 .. n
      OBVIOUS
    <3>. QED  BY <1>3, <2>1, <3>1, MaxOfNaturals DEF FoldsOver
  <2>. QED  BY <1>2, <1>3, <2>1 DEF FoldsOver
<1>5. Is(iter)
  <2>. HIDE DEF Is
  <2>. QED  BY <1>4
<1>. HIDE DEF iter, F
<1>6. ASSUME NEW i \in 1 .. n PROVE iter[1 .. i] = AllocPage(iter[1 .. (i - 1)], q[i])
  <2> DEFINE s == 1 .. i
  <2>1. s \in SUBSET DOMAIN q /\ s # {} /\ Max(s) = i /\ s \ {i} = 1 .. (i - 1)
    BY LastOfPrefix
  <2>. HIDE DEF s
  <2>2. iter[s] = AllocPage(iter[s \ {Max(s)}], q[Max(s)])
    BY <1>5, <2>1
  <2>. QED  BY <2>1, <2>2 DEF s
<1>7. iter[1 .. 0] \in K[0]
  BY <1>5
<1>8. ASSUME NEW i \in 1 .. n, iter[1 .. (i - 1)] \in K[i - 1] PROVE iter[1 .. i] \in K[i]
  BY <1>6, <1>8
<1>9. iter[1 .. n] \in K[n]
  <2>. HIDE DEF K
  <2>. QED  BY <1>7, <1>8, FoldReaches
<1>. QED  BY <1>1, <1>9

\* The loops of allocHeap and freeHeap that give pages back.
LEMMA ReleasePageFold ==
  ASSUME NEW X, NEW b \in X, NEW n \in Nat, NEW q, DOMAIN q = 1 .. n,
         \A x \in X, i \in 1 .. n : ReleasePage(x, q[i]) \in X,
         NEW J, b \in J[0],
         \A i \in 1 .. n : \A x \in X : x \in J[i - 1] => ReleasePage(x, q[i]) \in J[i]
  PROVE  FoldLeft(ReleasePage, b, q) \in X \cap J[n]
<1> DEFINE Is(h) == h = [s \in SUBSET DOMAIN q |->
                           IF s = {} THEN b ELSE ReleasePage(h[s \ {Max(s)}], q[Max(s)])]
           iter == CHOOSE h : Is(h)
           F == [i \in 1 .. n |-> [x \in X |-> ReleasePage(x, q[i])]]
           K == [i \in 0 .. n |-> X \cap J[i]]
<1>1. FoldLeft(ReleasePage, b, q) = iter[1 .. n]
  BY DEF FoldLeft, MapThenFoldSet
<1>2. \A i \in 1 .. n, x \in X : F[i][x] = ReleasePage(x, q[i]) /\ F[i][x] \in X
  OBVIOUS
<1>3. PICK h : FoldsOver(n, X, b, F, h)
  <2>. HIDE DEF F
  <2>. QED  BY <1>2, FoldExists
<1>4. Is(h)
  <2>1. ASSUME NEW s \in SUBSET (1 .. n), s # {}
        PROVE  Max(s) \in 1 .. n /\ h[s \ {Max(s)}] \in X
    <3>1. s \subseteq 0 .. n
      OBVIOUS
    <3>. QED  BY <1>3, <2>1, <3>1, MaxOfNaturals DEF FoldsOver
  <2>. QED  BY <1>2, <1>3, <2>1 DEF FoldsOver
<1>5. Is(iter)
  <2>. HIDE DEF Is
  <2>. QED  BY <1>4
<1>. HIDE DEF iter, F
<1>6. ASSUME NEW i \in 1 .. n PROVE iter[1 .. i] = ReleasePage(iter[1 .. (i - 1)], q[i])
  <2> DEFINE s == 1 .. i
  <2>1. s \in SUBSET DOMAIN q /\ s # {} /\ Max(s) = i /\ s \ {i} = 1 .. (i - 1)
    BY LastOfPrefix
  <2>. HIDE DEF s
  <2>2. iter[s] = ReleasePage(iter[s \ {Max(s)}], q[Max(s)])
    BY <1>5, <2>1
  <2>. QED  BY <2>1, <2>2 DEF s
<1>7. iter[1 .. 0] \in K[0]
  BY <1>5
<1>8. ASSUME NEW i \in 1 .. n, iter[1 .. (i - 1)] \in K[i - 1] PROVE iter[1 .. i] \in K[i]
  BY <1>6, <1>8
<1>9. iter[1 .. n] \in K[n]
  <2>. HIDE DEF K
  <2>. QED  BY <1>7, <1>8, FoldReaches
<1>. QED  BY <1>1, <1>9

\* The loop of kernelMain that unmaps low memory.
LEMMA UnmapFold ==
  ASSUME NEW X, NEW b \in X, NEW n \in Nat, NEW q, DOMAIN q = 1 .. n,
         \A x \in X, i \in 1 .. n : Unmap(x, q[i]) \in X,
         NEW J, b \in J[0],
         \A i \in 1 .. n : \A x \in X : x \in J[i - 1] => Unmap(x, q[i]) \in J[i]
  PROVE  FoldLeft(Unmap, b, q) \in X \cap J[n]
<1> DEFINE Is(h) == h = [s \in SUBSET DOMAIN q |->
                           IF s = {} THEN b ELSE Unmap(h[s \ {Max(s)}], q[Max(s)])]
           iter == CHOOSE h : Is(h)
           F == [i \in 1 .. n |-> [x \in X |-> Unmap(x, q[i])]]
           K == [i \in 0 .. n |-> X \cap J[i]]
<1>1. FoldLeft(Unmap, b, q) = iter[1 .. n]
  BY DEF FoldLeft, MapThenFoldSet
<1>2. \A i \in 1 .. n, x \in X : F[i][x] = Unmap(x, q[i]) /\ F[i][x] \in X
  OBVIOUS
<1>3. PICK h : FoldsOver(n, X, b, F, h)
  <2>. HIDE DEF F
  <2>. QED  BY <1>2, FoldExists
<1>4. Is(h)
  <2>1. ASSUME NEW s \in SUBSET (1 .. n), s # {}
        PROVE  Max(s) \in 1 .. n /\ h[s \ {Max(s)}] \in X
    <3>1. s \subseteq 0 .. n
      OBVIOUS
    <3>. QED  BY <1>3, <2>1, <3>1, MaxOfNaturals DEF FoldsOver
  <2>. QED  BY <1>2, <1>3, <2>1 DEF FoldsOver
<1>5. Is(iter)
  <2>. HIDE DEF Is
  <2>. QED  BY <1>4
<1>. HIDE DEF iter, F
<1>6. ASSUME NEW i \in 1 .. n PROVE iter[1 .. i] = Unmap(iter[1 .. (i - 1)], q[i])
  <2> DEFINE s == 1 .. i
  <2>1. s \in SUBSET DOMAIN q /\ s # {} /\ Max(s) = i /\ s \ {i} = 1 .. (i - 1)
    BY LastOfPrefix
  <2>. HIDE DEF s
  <2>2. iter[s] = Unmap(iter[s \ {Max(s)}], q[Max(s)])
    BY <1>5, <2>1
  <2>. QED  BY <2>1, <2>2 DEF s
<1>7. iter[1 .. 0] \in K[0]
  BY <1>5
<1>8. ASSUME NEW i \in 1 .. n, iter[1 .. (i - 1)] \in K[i - 1] PROVE iter[1 .. i] \in K[i]
  BY <1>6, <1>8
<1>9. iter[1 .. n] \in K[n]
  <2>. HIDE DEF K
  <2>. QED  BY <1>7, <1>8, FoldReaches
<1>. QED  BY <1>1, <1>9

\* The loop of parseAPIC over the items of a table.
LEMMA ParseItemFold ==
  ASSUME NEW X, NEW b \in X, NEW n \in Nat, NEW q, DOMAIN q = 1 .. n,
         \A x \in X, i \in 1 .. n : ParseItem(x, q[i]) \in X,
         NEW J, b \in J[0],
         \A i \in 1 .. n : \A x \in X : x \in J[i - 1] => ParseItem(x, q[i]) \in J[i]
  PROVE  FoldLeft(ParseItem, b, q) \in X \cap J[n]
<1> DEFINE Is(h) == h = [s \in SUBSET DOMAIN q |->
                           IF s = {} THEN b ELSE ParseItem(h[s \ {Max(s)}], q[Max(s)])]
           iter == CHOOSE h : Is(h)
           F == [i \in 1 .. n |-> [x \in X |-> ParseItem(x, q[i])]]
           K == [i \in 0 .. n |-> X \cap J[i]]
<1>1. FoldLeft(ParseItem, b, q) = iter[1 .. n]
  BY DEF FoldLeft, MapThenFoldSet
<1>2. \A i \in 1 .. n, x \in X : F[i][x] = ParseItem(x, q[i]) /\ F[i][x] \in X
  OBVIOUS
<1>3. PICK h : FoldsOver(n, X, b, F, h)
  <2>. HIDE DEF F
  <2>. QED  BY <1>2, FoldExists
<1>4. Is(h)
  <2>1. ASSUME NEW s \in SUBSET (1 .. n), s # {}
        PROVE  Max(s) \in 1 .. n /\ h[s \ {Max(s)}] \in X
    <3>1. s \subseteq 0 .. n
      OBVIOUS
    <3>. QED  BY <1>3, <2>1, <3>1, MaxOfNaturals DEF FoldsOver
  <2>. QED  BY <1>2, <1>3, <2>1 DEF FoldsOver
<1>5. Is(iter)
  <2>. HIDE DEF Is
  <2>. QED  BY <1>4
<1>. HIDE DEF iter, F
<1>6. ASSUME NEW i \in 1 .. n PROVE iter[1 .. i] = ParseItem(iter[1 .. (i - 1)], q[i])
  <2> DEFINE s == 1 .. i
  <2>1. s \in SUBSET DOMAIN q /\ s # {} /\ Max(s) = i /\ s \ {i} = 1 .. (i - 1)
    BY LastOfPrefix
  <2>. HIDE DEF s
  <2>2. iter[s] = ParseItem(iter[s \ {Max(s)}], q[Max(s)])
    BY <1>5, <2>1
  <2>. QED  BY <2>1, <2>2 DEF s
<1>7. iter[1 .. 0] \in K[0]
  BY <1>5
<1>8. ASSUME NEW i \in 1 .. n, iter[1 .. (i - 1)] \in K[i - 1] PROVE iter[1 .. i] \in K[i]
  BY <1>6, <1>8
<1>9. iter[1 .. n] \in K[n]
  <2>. HIDE DEF K
  <2>. QED  BY <1>7, <1>8, FoldReaches
<1>. QED  BY <1>1, <1>9

\* The loop of ACPI::init over the tables that the root table names.
LEMMA ReadTableFold ==
  ASSUME NEW X, NEW b \in X, NEW n \in Nat, NEW q, DOMAIN q = 1 .. n,
         \A x \in X, i \in 1 .. n : ReadTable(x, q[i]) \in X,
         NEW J, b \in J[0],
         \A i \in 1 .. n : \A x \in X : x \in J[i - 1] => ReadTable(x, q[i]) \in J[i]
  PROVE  FoldLeft(ReadTable, b, q) \in X \cap J[n]
<1> DEFINE Is(h) == h = [s \in SUBSET DOMAIN q |->
                           IF s = {} THEN b ELSE ReadTable(h[s \ {Max(s)}], q[Max(s)])]
           iter == CHOOSE h : Is(h)
           F == [i \in 1 .. n |-> [x \in X |-> ReadTable(x, q[i])]]
           K == [i \in 0 .. n |-> X \cap J[i]]
<1>1. FoldLeft(ReadTable, b, q) = iter[1 .. n]
  BY DEF FoldLeft, MapThenFoldSet
<1>2. \A i \in 1 .. n, x \in X : F[i][x] = ReadTable(x, q[i]) /\ F[i][x] \in X
  OBVIOUS
<1>3. PICK h : FoldsOver(n, X, b, F, h)
  <2>. HIDE DEF F
  <2>. QED  BY <1>2, FoldExists
<1>4. Is(h)
  <2>1. ASSUME NEW s \in SUBSET (1 .. n), s # {}
        PROVE  Max(s) \in 1 .. n /\ h[s \ {Max(s)}] \in X
    <3>1. s \subseteq 0 .. n
      OBVIOUS
    <3>. QED  BY <1>3, <2>1, <3>1, MaxOfNaturals DEF FoldsOver
  <2>. QED  BY <1>2, <1>3, <2>1 DEF FoldsOver
<1>5. Is(iter)
  <2>. HIDE DEF Is
  <2>. QED  BY <1>4
<1>. HIDE DEF iter, F
<1>6. ASSUME NEW i \in 1 .. n PROVE iter[1 .. i] = ReadTable(iter[1 .. (i - 1)], q[i])
  <2> DEFINE s == 1 .. i
  <2>1. s \in SUBSET DOMAIN q /\ s # {} /\ Max(s) = i /\ s \ {i} = 1 .. (i - 1)
    BY LastOfPrefix
  <2>. HIDE DEF s
  <2>2. iter[s] = ReadTable(iter[s \ {Max(s)}], q[Max(s)])
    BY <1>5, <2>1
  <2>. QED  BY <2>1, <2>2 DEF s
<1>7. iter[1 .. 0] \in K[0]
  BY <1>5
<1>8. ASSUME NEW i \in 1 .. n, iter[1 .. (i - 1)] \in K[i - 1] PROVE iter[1 .. i] \in K[i]
  BY <1>6, <1>8
<1>9. iter[1 .. n] \in K[n]
  <2>. HIDE DEF K
  <2>. QED  BY <1>7, <1>8, FoldReaches
<1>. QED  BY <1>1, <1>9

\* The loop of findRSDP over the memory map.
LEMMA FindRSDPFold ==
  ASSUME NEW s0, NEW rsdps, NEW X, NotFound \in X, NEW n \in Nat, NEW q, DOMAIN q = 1 .. n,
         \A x \in X, i \in 1 .. n : ScanRegion(s0, rsdps, x, q[i]) \in X,
         NEW J, NotFound \in J[0],
         \A i \in 1 .. n : \A x \in X : x \in J[i - 1] => ScanRegion(s0, rsdps, x, q[i]) \in J[i]
  PROVE  FindRSDP(s0, q, rsdps) \in X \cap J[n]
<1> DEFINE Is(h) == h = [s \in SUBSET DOMAIN q |->
                           IF s = {} THEN NotFound ELSE ScanRegion(s0, rsdps, h[s \ {Max(s)}], q[Max(s)])]
           iter == CHOOSE h : Is(h)
           F == [i \in 1 .. n |-> [x \in X |-> ScanRegion(s0, rsdps, x, q[i])]]
           K == [i \in 0 .. n |-> X \cap J[i]]
<1>1. FindRSDP(s0, q, rsdps) = iter[1 .. n]
  BY DEF FoldLeft, MapThenFoldSet, FindRSDP, NotFound
<1>2. \A i \in 1 .. n, x \in X : F[i][x] = ScanRegion(s0, rsdps, x, q[i]) /\ F[i][x] \in X
  OBVIOUS
<1>3. PICK h : FoldsOver(n, X, NotFound, F, h)
  <2>. HIDE DEF F
  <2>. QED  BY <1>2, FoldExists
<1>4. Is(h)
  <2>1. ASSUME NEW s \in SUBSET (1 .. n), s # {}
        PROVE  Max(s) \in 1 .. n /\ h[s \ {Max(s)}] \in X
    <3>1. s \subseteq 0 .. n
      OBVIOUS
    <3>. QED  BY <1>3, <2>1, <3>1, MaxOfNaturals DEF FoldsOver
  <2>. QED  BY <1>2, <1>3, <2>1 DEF FoldsOver
<1>5. Is(iter)
  <2>. HIDE DEF Is
  <2>. QED  BY <1>4
<1>. HIDE DEF iter, F
<1>6. ASSUME NEW i \in 1 .. n PROVE iter[1 .. i] = ScanRegion(s0, rsdps, iter[1 .. (i - 1)], q[i])
  <2> DEFINE s == 1 .. i
  <2>1. s \in SUBSET DOMAIN q /\ s # {} /\ Max(s) = i /\ s \ {i} = 1 .. (i - 1)
    BY LastOfPrefix
  <2>. HIDE DEF s
  <2>2. iter[s] = ScanRegion(s0, rsdps, iter[s \ {Max(s)}], q[Max(s)])
    BY <1>5, <2>1
  <2>. QED  BY <2>1, <2>2 DEF s
<1>7. iter[1 .. 0] \in K[0]
  BY <1>5
<1>8. ASSUME NEW i \in 1 .. n, iter[1 .. (i - 1)] \in K[i - 1] PROVE iter[1 .. i] \in K[i]
  BY <1>6, <1>8
<1>9. iter[1 .. n] \in K[n]
  <2>. HIDE DEF K
  <2>. QED  BY <1>7, <1>8, FoldReaches
<1>. QED  BY <1>1, <1>9
------------------------------------------------------------------------------
(***************************************************************************)
(* Pages that are given back, cleared and taken.                           *)
(***************************************************************************)
Released(B, s, t, R) ==
  /\ Good(B, t) /\ t.null = s.null
  /\ \A w \in UserPages : Walk(t, w) = IF w \in R THEN NoPage ELSE Walk(s, w)
  /\ t.pm.used = s.pm.used \ {Walk(s, w) : w \in R}

Cleared(B, s, t, R) ==
  /\ Good(B, t) /\ t.null = s.null /\ t.pm = s.pm
  /\ \A w \in UserPages : Walk(t, w) = IF w \in R THEN NoPage ELSE Walk(s, w)

\* The pages of R have got frames of their own that nobody had in s.
Taken(B, s, t, R) ==
  /\ Good(B, t) /\ t.null = s.null
  /\ \A w \in UserPages \ R : Walk(t, w) = Walk(s, w)
  /\ \A w \in R : Walk(t, w) \in Frames \ s.pm.used
  /\ \A v, w \in R : Walk(t, v) = Walk(t, w) => v = w
  /\ t.pm.used = s.pm.used \cup {Walk(t, w) : w \in R}

\* Pages that may be mapped and unmapped at will.
Loose(B) == {v \in UserPages \ (B.pinned \cup {0}) : Pde(v) \in Dirs(B)}

LEMMA ReleaseOne ==
  ASSUME NEW B, IsLayout(B), NEW s, Good(B, s), NEW v \in Loose(B)
  PROVE  Released(B, s, ReleasePage(s, v), {v})
<1> DEFINE p == Walk(s, v)
           u == Unmap(s, v)
           q == SetPageUsage(u.pm, p, FALSE)
           t == [u EXCEPT !.pm = q]
<1>1. v \in UserPages \ B.pinned /\ Pde(v) \in Dirs(B) /\ v \in UserPages \ B.kernel
  BY DEF Loose, IsLayout
<1>2. ReleasePage(s, v) = t
  BY <1>1, ReadsWalk DEF ReleasePage
<1>3. Remapped(B, s, u, v, NoPage)
  BY <1>1, UnmapCorrect
<1>. HIDE DEF u
<1>4. /\ Good(B, u) /\ u.pm = s.pm /\ u.null = s.null /\ u.pm \in PMType
      /\ \A w \in UserPages : Walk(u, w) = IF w = v THEN NoPage ELSE Walk(s, w)
  BY <1>3 DEF Remapped, Good, VMType
<1>5. /\ q \in PMType /\ q.used = s.pm.used \ ({p} \cap Frames)
      /\ s.pm.used \subseteq Frames /\ TablesOf(B) \subseteq s.pm.used
  BY <1>4, SetPageUsageType DEF PMType, Good
<1>6. p \notin TablesOf(B)
  BY <1>1 DEF Good
<1>7. TablesOf(B) \subseteq q.used
  BY <1>5, <1>6
<1>8. Good(B, t) /\ t.pm = q /\ t.null = u.null /\ \A w \in Pages : Walk(t, w) = Walk(u, w)
  <2>. HIDE DEF q
  <2>. QED  BY <1>4, <1>5, <1>7, BitmapOnly
<1>9. q.used = s.pm.used \ {Walk(s, w) : w \in {v}}
  BY <1>5
<1>10. \A w \in UserPages : w \in Pages
  BY DEF UserPages
<1>. QED  BY <1>2, <1>4, <1>8, <1>9, <1>10 DEF Released

LEMMA ReleaseAll ==
  ASSUME NEW B, IsLayout(B), NEW s, Good(B, s), NEW n \in Nat, NEW q, DOMAIN q = 1 .. n,
         \A i \in 1 .. n : q[i] \in Loose(B)
  PROVE  Released(B, s, FoldLeft(ReleasePage, s, q), {q[i] : i \in 1 .. n})
<1> DEFINE X == {t \in VMType : Good(B, t)}
           J == [i \in 0 .. n |-> {t \in X : Released(B, s, t, {q[k] : k \in 1 .. i})}]
<1>1. s \in X /\ s \in J[0]
  BY DEF Good, Released
<1>2. \A x \in X, i \in 1 .. n : ReleasePage(x, q[i]) \in X
  BY ReleaseOne DEF Released, Good
<1>3. ASSUME NEW i \in 1 .. n, NEW x \in X, x \in J[i - 1]
      PROVE  ReleasePage(x, q[i]) \in J[i]
  <2> DEFINE y == ReleasePage(x, q[i])
             R == {q[k] : k \in 1 .. i - 1}
             Q == {q[k] : k \in 1 .. i}
  <2>1. Released(B, x, y, {q[i]}) /\ y \in X
    BY <1>2, ReleaseOne
  <2>2. Released(B, s, x, R)
    BY <1>3
  <2>3. Q = R \cup {q[i]} /\ q[i] \in UserPages /\ R \subseteq UserPages
    BY DEF Loose
  <2>. HIDE DEF y, R, Q
  <2>4. \A w \in UserPages : Walk(y, w) = IF w \in Q THEN NoPage ELSE Walk(s, w)
    BY <2>1, <2>2, <2>3 DEF Released
  <2>5. y.pm.used = s.pm.used \ {Walk(s, w) : w \in Q}
    <3>1. Walk(x, q[i]) = IF q[i] \in R THEN NoPage ELSE Walk(s, q[i])
      BY <2>2, <2>3 DEF Released
    <3>2. y.pm.used = x.pm.used \ {Walk(x, q[i])}
      BY <2>1 DEF Released
    <3>3. x.pm.used = s.pm.used \ {Walk(s, w) : w \in R}
      BY <2>2 DEF Released
    <3>4. NoPage \notin x.pm.used
      BY LayoutFacts DEF Good, VMType, PMType
    <3>. QED  BY <2>3, <3>1, <3>2, <3>3, <3>4
  <2>6. Released(B, s, y, Q)
    BY <2>1, <2>2, <2>4, <2>5 DEF Released
  <2>. QED  BY <2>1, <2>6 DEF y, Q
<1>4. FoldLeft(ReleasePage, s, q) \in X \cap J[n]
  <2>. HIDE DEF X, J
  <2>. QED  BY <1>1, <1>2, <1>3, ReleasePageFold
<1>. QED  BY <1>4

LEMMA UnmapAll ==
  ASSUME NEW B, IsLayout(B), NEW s, Good(B, s), NEW n \in Nat, NEW q, DOMAIN q = 1 .. n,
         \A i \in 1 .. n : q[i] \in Loose(B)
  PROVE  Cleared(B, s, FoldLeft(Unmap, s, q), {q[i] : i \in 1 .. n})
<1> DEFINE X == {t \in VMType : Good(B, t)}
           J == [i \in 0 .. n |-> {t \in X : Cleared(B, s, t, {q[k] : k \in 1 .. i})}]
<1>1. s \in X /\ s \in J[0]
  BY DEF Good, Cleared
<1>2. ASSUME NEW x \in X, NEW i \in 1 .. n
      PROVE  Cleared(B, x, Unmap(x, q[i]), {q[i]}) /\ Unmap(x, q[i]) \in X
  <2>1. q[i] \in UserPages \ B.pinned /\ Pde(q[i]) \in Dirs(B)
    BY DEF Loose
  <2>2. Remapped(B, x, Unmap(x, q[i]), q[i], NoPage)
    BY <2>1, UnmapCorrect
  <2>. QED  BY <2>2 DEF Remapped, Cleared, Good
<1>3. ASSUME NEW i \in 1 .. n, NEW x \in X, x \in J[i - 1]
      PROVE  Unmap(x, q[i]) \in J[i]
  <2> DEFINE y == Unmap(x, q[i])
             R == {q[k] : k \in 1 .. i - 1}
             Q == {q[k] : k \in 1 .. i}
  <2>1. Cleared(B, x, y, {q[i]}) /\ y \in X
    BY <1>2
  <2>2. Cleared(B, s, x, R)
    BY <1>3
  <2>3. Q = R \cup {q[i]}
    OBVIOUS
  <2>. HIDE DEF y, R, Q
  <2>4. Cleared(B, s, y, Q)
    BY <2>1, <2>2, <2>3 DEF Cleared
  <2>. QED  BY <2>1, <2>4 DEF y, Q
<1>4. FoldLeft(Unmap, s, q) \in X \cap J[n]
  <2>. HIDE DEF X, J
  <2>. QED  BY <1>1, <1>2, <1>3, UnmapFold
<1>. QED  BY <1>4

\* A turn of the loop takes a frame for the page, or changes neither a translation
\* nor the bitmap.
Installed(acc, v) == InstallPage(acc, v, GetUsablePage(acc.s.pm))

LEMMA InstallOne ==
  ASSUME NEW B, IsLayout(B), NEW acc, Good(B, acc.s), NEW v \in Loose(B)
  PROVE  \E t : /\ Good(B, t)
                /\ \/ /\ Installed(acc, v) = [ok |-> TRUE, s |-> t, done |-> Append(acc.done, v)]
                      /\ Walk(acc.s, v) = NoPage => Taken(B, acc.s, t, {v})
                   \/ /\ Installed(acc, v) = [ok |-> FALSE, s |-> t, done |-> acc.done]
                      /\ Taken(B, acc.s, t, {})
<1> DEFINE s == acc.s
           g == GetUsablePage(s.pm)
           marked == SetPageUsage(g.pm, g.ret, TRUE)
           u == [s EXCEPT !.pm = marked]
           m == Map(u, v, g.ret)
           unmarked == SetPageUsage(m.s.pm, g.ret, FALSE)
           t == [m.s EXCEPT !.pm = unmarked]
<1>1. Installed(acc, v) = IF m.ok THEN [ok |-> TRUE, s |-> m.s, done |-> Append(acc.done, v)]
                          ELSE [ok |-> FALSE, s |-> t, done |-> acc.done]
  BY DEF Installed, InstallPage
<1>2. Good(B, s)
  OBVIOUS
<1>. HIDE DEF s
<1>3. /\ v \in UserPages \ {0} /\ v \notin B.pinned /\ Pde(v) \in Dirs(B)
      /\ s.pm \in PMType /\ s.pm.used \subseteq Frames /\ TablesOf(B) \subseteq s.pm.used
  BY <1>2 DEF Loose, Good, VMType, PMType
<1>4. /\ g.pm \in PMType /\ g.pm.used = s.pm.used
      /\ g.ret = NoPage \/ g.ret \in Frames \ s.pm.used
  BY <1>3, GetUsablePageComplete
<1>. HIDE DEF g
<1>5. marked \in PMType /\ marked.used = s.pm.used \cup ({g.ret} \cap Frames)
  BY <1>4, SetPageUsageType
<1>. HIDE DEF marked
<1>6. /\ Good(B, u) /\ u.pm = marked /\ u.null = s.null
      /\ \A w \in Pages : Walk(u, w) = Walk(s, w)
  <2>1. TablesOf(B) \subseteq marked.used
    BY <1>3, <1>5
  <2>. QED  BY <1>2, <1>5, <2>1, BitmapOnly
<1>. HIDE DEF u
<1>7. \A w \in UserPages : w \in Pages
  BY DEF UserPages
<1>8. CASE g.ret = NoPage
  <2>1. g.ret \notin Frames
    BY <1>8, LayoutFacts
  <2>2. m = [ok |-> FALSE, s |-> u]
    BY <2>1 DEF Map, MapRefused
  <2>. HIDE DEF m
  <2>3. m.ok = FALSE /\ m.s = u
    BY <2>2
  <2>4. unmarked \in PMType /\ unmarked.used = s.pm.used
    <3>1. m.s.pm \in PMType /\ m.s.pm.used = s.pm.used
      BY <1>5, <1>6, <2>1, <2>3
    <3>2. unmarked \in PMType /\ unmarked.used = m.s.pm.used \ ({g.ret} \cap Frames)
      BY <3>1, SetPageUsageType
    <3>. QED  BY <2>1, <3>1, <3>2
  <2>. HIDE DEF unmarked
  <2>5. Good(B, t) /\ t.pm = unmarked /\ t.null = u.null /\ \A w \in Pages : Walk(t, w) = Walk(u, w)
    BY <1>3, <1>6, <2>3, <2>4, BitmapOnly
  <2>. HIDE DEF t
  <2>6. Taken(B, s, t, {})
    BY <1>6, <1>7, <2>4, <2>5 DEF Taken
  <2>7. Installed(acc, v) = [ok |-> FALSE, s |-> t, done |-> acc.done]
    BY <1>1, <2>3
  <2>. QED  BY <2>5, <2>6, <2>7 DEF s
<1>9. CASE g.ret \in Frames \ s.pm.used
  <2>1. g.ret \in Frames \ TablesOf(B)
    BY <1>3, <1>9
  <2>2. m.ok /\ Remapped(B, u, m.s, v, g.ret)
    BY <1>3, <1>6, <2>1, MapCorrect
  <2>3. Installed(acc, v) = [ok |-> TRUE, s |-> m.s, done |-> Append(acc.done, v)]
    BY <1>1, <2>2
  <2>. HIDE DEF m
  <2>4. /\ Good(B, m.s) /\ m.s.pm = marked /\ m.s.null = s.null
        /\ \A w \in UserPages : Walk(m.s, w) = IF w = v THEN g.ret ELSE Walk(s, w)
    BY <1>6, <1>7, <2>2 DEF Remapped
  <2>5. Walk(s, v) = NoPage => Taken(B, s, m.s, {v})
    BY <1>3, <1>5, <1>9, <2>4 DEF Taken
  <2>. QED  BY <2>3, <2>4, <2>5 DEF s
<1>. QED  BY <1>4, <1>8, <1>9

LEMMA TakenTrans ==
  ASSUME NEW B, NEW s, NEW x, NEW y, NEW R \in SUBSET UserPages, NEW Q \in SUBSET UserPages,
         Taken(B, s, x, R), Taken(B, x, y, Q), R \cap Q = {}
  PROVE  Taken(B, s, y, R \cup Q)
<1>1. Good(B, y) /\ y.null = s.null
  BY DEF Taken
<1>2. \A w \in R : Walk(y, w) = Walk(x, w) /\ Walk(y, w) \in x.pm.used
  BY DEF Taken
<1>3. \A w \in Q : Walk(y, w) \in Frames \ x.pm.used
  BY DEF Taken
<1>4. \A w \in UserPages \ (R \cup Q) : Walk(y, w) = Walk(s, w)
  BY DEF Taken
<1>5. \A w \in R \cup Q : Walk(y, w) \in Frames \ s.pm.used
  BY <1>2, <1>3 DEF Taken
<1>6. \A v, w \in R \cup Q : Walk(y, v) = Walk(y, w) => v = w
  BY <1>2, <1>3 DEF Taken
<1>7. y.pm.used = s.pm.used \cup {Walk(y, w) : w \in R \cup Q}
  <2>1. x.pm.used = s.pm.used \cup {Walk(y, w) : w \in R}
    BY <1>2 DEF Taken
  <2>2. y.pm.used = x.pm.used \cup {Walk(y, w) : w \in Q}
    BY DEF Taken
  <2>. QED  BY <2>1, <2>2
<1>. QED  BY <1>1, <1>4, <1>5, <1>6, <1>7 DEF Taken

\* The whole loop: the pages done so far are the first pages of the run, all of
\* them as long as no turn has failed.
Progress(B, s, a, page, size) ==
  /\ a.ok \in BOOLEAN /\ a.done \in Seq(UserPages)
  /\ Len(a.done) <= size /\ (a.ok => Len(a.done) = size)
  /\ Taken(B, s, a.s, page .. page + Len(a.done) - 1)
  /\ \A k \in 1 .. Len(a.done) : a.done[k] = page + k - 1

LEMMA AllocLoop ==
  ASSUME NEW B, IsLayout(B), NEW s, Good(B, s), NEW page \in Nat, NEW size \in Nat,
         page .. page + size - 1 \subseteq Loose(B),
         \A v \in page .. page + size - 1 : Walk(s, v) = NoPage
  PROVE  Progress(B, s, FoldLeft(AllocPage, [ok |-> TRUE, s |-> s, done |-> <<>>],
                                 PageRun(page, size)), page, size)
<1> DEFINE X == {a \in [ok : BOOLEAN, s : VMType, done : Seq(UserPages)] : Good(B, a.s)}
           b == [ok |-> TRUE, s |-> s, done |-> <<>>]
           q == PageRun(page, size)
           Done(a, i) ==
             /\ Len(a.done) <= i /\ (a.ok => Len(a.done) = i)
             /\ Taken(B, s, a.s, page .. page + Len(a.done) - 1)
             /\ \A k \in 1 .. Len(a.done) : a.done[k] = page + k - 1
           J == [i \in 0 .. size |-> {a \in X : Done(a, i)}]
<1>1. DOMAIN q = 1 .. size /\ \A i \in 1 .. size : q[i] = page + i - 1 /\ q[i] \in Loose(B)
  BY DEF PageRun
<1>2. \A v \in Loose(B) : v \in UserPages
  BY DEF Loose
<1>3. b \in X /\ b \in J[0]
  <2>1. b \in X
    BY DEF Good
  <2>2. page .. page + 0 - 1 = {}
    OBVIOUS
  <2>3. Taken(B, s, s, {})
    BY DEF Taken
  <2>4. Len(b.done) = 0 /\ b.s = s /\ b.ok
    OBVIOUS
  <2>5. Done(b, 0)
    BY <2>2, <2>3, <2>4
  <2>. HIDE DEF X, b, Done
  <2>. QED  BY <2>1, <2>5
<1>4. ASSUME NEW x \in X, NEW i \in 1 .. size
      PROVE  AllocPage(x, q[i]) \in X
  <2>. HIDE DEF J, b, Done
  <2>0. Good(B, x.s) /\ x.done \in Seq(UserPages)
    OBVIOUS
  <2>1. CASE x.ok = TRUE
    <3>0. AllocPage(x, q[i]) = Installed(x, q[i])
      BY <2>1 DEF AllocPage, Installed
    <3>1. PICK t : /\ Good(B, t)
                   /\ \/ Installed(x, q[i]) = [ok |-> TRUE, s |-> t, done |-> Append(x.done, q[i])]
                      \/ Installed(x, q[i]) = [ok |-> FALSE, s |-> t, done |-> x.done]
      <4>1. q[i] \in Loose(B)
        BY <1>1
      <4>. HIDE DEF X, q
      <4>2. PICK t :
              /\ Good(B, t)
              /\ \/ /\ Installed(x, q[i]) = [ok |-> TRUE, s |-> t, done |-> Append(x.done, q[i])]
                    /\ Walk(x.s, q[i]) = NoPage => Taken(B, x.s, t, {q[i]})
                 \/ /\ Installed(x, q[i]) = [ok |-> FALSE, s |-> t, done |-> x.done]
                    /\ Taken(B, x.s, t, {})
        BY <2>0, <4>1, InstallOne
      <4>. QED  BY <4>2
    <3>2. q[i] \in UserPages /\ x.done \in Seq(UserPages)
      BY <1>1, <1>2, <2>0
    <3>3. Append(x.done, q[i]) \in Seq(UserPages)
      BY <3>2
    <3>4. t \in VMType
      BY <3>1 DEF Good
    <3>5. Installed(x, q[i]) \in X
      <4>. HIDE DEF q
      <4>1. CASE Installed(x, q[i]) = [ok |-> TRUE, s |-> t, done |-> Append(x.done, q[i])]
        BY <3>1, <3>3, <3>4, <4>1
      <4>2. CASE Installed(x, q[i]) = [ok |-> FALSE, s |-> t, done |-> x.done]
        BY <3>1, <3>2, <3>4, <4>2
      <4>. QED  BY <3>1, <4>1, <4>2
    <3>. QED  BY <3>0, <3>5
  <2>2. CASE x.ok = FALSE
    BY <2>2 DEF AllocPage
  <2>. QED  BY <2>1, <2>2
<1>5. ASSUME NEW i \in 1 .. size, NEW x \in X, x \in J[i - 1]
      PROVE  AllocPage(x, q[i]) \in J[i]
  <2> DEFINE y == AllocPage(x, q[i])
  <2>1. Done(x, i - 1) /\ y \in X
    <3>1. i - 1 \in 0 .. size
      OBVIOUS
    <3>2. x \in {a \in X : Done(a, i - 1)}
      <4>. HIDE DEF X, Done
      <4>. QED  BY <1>5, <3>1
    <3>. HIDE DEF X, Done
    <3>. QED  BY <1>4, <3>2
  <2>2. CASE x.ok = FALSE
    <3>1. y = x
      BY <2>2 DEF AllocPage
    <3>2. Done(x, i)
      BY <2>1, <2>2
    <3>. HIDE DEF X, Done
    <3>. QED  BY <2>1, <3>1, <3>2
  <2>3. CASE x.ok = TRUE
    <3> DEFINE n == Len(x.done)
               R == page .. page + n - 1
               v == q[i]
    <3>1. n = i - 1 /\ Taken(B, s, x.s, R) /\ \A k \in 1 .. n : x.done[k] = page + k - 1
      BY <2>1, <2>3
    <3>2. v = page + n /\ v \in Loose(B) /\ v \notin R /\ v \in page .. page + size - 1
          /\ page .. page + n = R \cup {v} /\ R \subseteq page .. page + size - 1
      BY <1>1, <3>1
    <3>3. R \in SUBSET UserPages /\ {v} \in SUBSET UserPages
      BY <1>2, <3>2
    <3>4. Walk(x.s, v) = NoPage /\ Good(B, x.s) /\ x.done \in Seq(UserPages)
      BY <3>1, <3>2, <3>3 DEF Taken
    <3>. HIDE DEF y, R, v
    <3>5. ASSUME NEW t, y = [ok |-> TRUE, s |-> t, done |-> Append(x.done, v)],
                 Taken(B, x.s, t, {v})
          PROVE  y \in J[i]
      <4>1. Taken(B, s, t, R \cup {v}) /\ y.s = t
        BY <3>1, <3>2, <3>3, <3>5, TakenTrans
      <4>2. /\ Len(y.done) = n + 1 /\ y.ok = TRUE
            /\ \A k \in 1 .. n + 1 : y.done[k] = IF k = n + 1 THEN v ELSE x.done[k]
        BY <3>4, <3>5, <3>3
      <4>3. Done(y, i)
        <5>1. /\ n \in Nat /\ n + 1 = i /\ page .. page + (n + 1) - 1 = page .. page + n
              /\ page + n = page + (n + 1) - 1
          BY <3>1
        <5>. HIDE DEF n
        <5>2. Taken(B, s, y.s, page .. page + Len(y.done) - 1)
          BY <3>2, <4>1, <4>2, <5>1
        <5>3. ASSUME NEW k \in 1 .. n + 1 PROVE y.done[k] = page + k - 1
          <6>1. CASE k = n + 1
            BY <3>2, <4>2, <5>1, <6>1
          <6>2. CASE k \in 1 .. n
            <7>1. k \in 1 .. n + 1 /\ k # n + 1
              BY <5>1, <6>2
            <7>. QED  BY <3>1, <4>2, <6>2, <7>1
          <6>. QED  BY <5>1, <6>1, <6>2
        <5>. QED  BY <4>2, <5>1, <5>2, <5>3
      <4>. HIDE DEF Done, X
      <4>. QED  BY <2>1, <4>3 DEF y, v
    <3>6. ASSUME NEW t, y = [ok |-> FALSE, s |-> t, done |-> x.done], Taken(B, x.s, t, {})
          PROVE  y \in J[i]
      <4>1. Taken(B, s, t, R \cup {}) /\ y.s = t
        BY <3>1, <3>3, <3>6, TakenTrans
      <4>2. y.ok = FALSE /\ y.done = x.done
        BY <3>6
      <4>3. R \cup {} = R
        OBVIOUS
      <4>4. Done(y, i)
        BY <3>1, <4>1, <4>2, <4>3 DEF R
      <4>. HIDE DEF Done, X
      <4>. QED  BY <2>1, <4>4 DEF y, v
    <3>7. \E t :
            \/ y = [ok |-> TRUE, s |-> t, done |-> Append(x.done, v)] /\ Taken(B, x.s, t, {v})
            \/ y = [ok |-> FALSE, s |-> t, done |-> x.done] /\ Taken(B, x.s, t, {})
      <4>1. AllocPage(x, v) = Installed(x, v)
        BY <2>3 DEF AllocPage, Installed
      <4>. QED  BY <3>2, <3>4, <4>1, InstallOne DEF y, v
    <3>. HIDE DEF J
    <3>. QED  BY <3>5, <3>6, <3>7 DEF y
  <2>. QED  BY <2>2, <2>3
<1>6. FoldLeft(AllocPage, b, q) \in X \cap J[size]
  <2>. HIDE DEF X, J, b, q
  <2>. QED  BY <1>1, <1>3, <1>4, <1>5, AllocPageFold
<1>7. \E a : a = FoldLeft(AllocPage, b, q) /\ a \in X /\ Done(a, size)
  <2>. HIDE DEF X, Done, b, q
  <2>1. size \in 0 .. size
    OBVIOUS
  <2>. QED  BY <1>6, <2>1
<1>8. \A a : a \in X /\ Done(a, size) => Progress(B, s, a, page, size)
  BY DEF Progress
<1>. QED  BY <1>7, <1>8

\* The head and the tail are written through the pages of the heap.
LEMMA HeapWritten ==
  ASSUME NEW B, IsLayout(B), NEW s, Good(B, s), NEW page, NEW size,
         page \in UserPages \ B.kernel, Walk(s, page) # NoPage,
         page + size - 1 \in UserPages \ B.kernel, Walk(s, page + size - 1) # NoPage
  PROVE  LET t == WriteHeap(s, page, size)
         IN  /\ Good(B, t) /\ t.pm = s.pm /\ t.null = s.null
             /\ \A w \in UserPages : Walk(t, w) = Walk(s, w)
<1> DEFINE f == Lookup(s, page)
           g == Lookup(s, page + size - 1)
           u == [s EXCEPT !.mem[f] = HeapWords]
           t == [u EXCEPT !.mem[g] = HeapWords]
<1>1. ASSUME NEW v \in UserPages \ B.kernel, Walk(s, v) # NoPage
      PROVE  Lookup(s, v) \in Frames \ TablesOf(B)
  <2>1. s.tlb[v] \in {NoPage, Walk(s, v)} /\ Walk(s, v) \notin TablesOf(B)
    BY DEF Good, UserPages
  <2>2. Walk(s, v) \in Frames
    BY <1>1, WalkUser DEF Entries
  <2>. QED  BY <2>1, <2>2 DEF Lookup
<1>2. f \in Frames \ TablesOf(B) /\ g \in Frames \ TablesOf(B)
  BY <1>1
<1>3. WriteHeap(s, page, size) = t
  BY DEF WriteHeap
<1>. HIDE DEF f, g
<1>4. HeapWords \in Tables
  BY KernelMemAssumption
<1>5. /\ Good(B, u) /\ u.pm = s.pm /\ u.null = s.null
      /\ \A w \in Pages : Walk(u, w) = Walk(s, w)
  BY <1>2, <1>4, FrameWritten
<1>. HIDE DEF u
<1>6. /\ Good(B, t) /\ t.pm = u.pm /\ t.null = u.null
      /\ \A w \in Pages : Walk(t, w) = Walk(u, w)
  BY <1>2, <1>4, <1>5, FrameWritten
<1>. HIDE DEF t
<1>7. \A w \in UserPages : w \in Pages
  BY DEF UserPages
<1>. QED  BY <1>3, <1>5, <1>6, <1>7

\* allocHeap of pages that are not mapped: it maps all of them, or leaves what it found.
LEMMA AllocHeapCorrect ==
  ASSUME NEW B, IsLayout(B), NEW s, Good(B, s), NEW page \in Nat, NEW size \in Nat \ {0},
         page .. page + size - 1 \subseteq Loose(B),
         \A v \in page .. page + size - 1 : Walk(s, v) = NoPage
  PROVE  \E t : \/ /\ AllocHeapAt(s, page, size) = [ok |-> TRUE, page |-> page, s |-> t]
                   /\ Taken(B, s, t, page .. page + size - 1)
                \/ /\ AllocHeapAt(s, page, size) = [ok |-> FALSE, page |-> NoPage, s |-> t]
                   /\ Taken(B, s, t, {})
<1> DEFINE a == FoldLeft(AllocPage, [ok |-> TRUE, s |-> s, done |-> <<>>], PageRun(page, size))
           n == Len(a.done)
           R == page .. page + size - 1
           D == page .. page + n - 1
<1>1. page \in Loose(B) /\ page + size - 1 \in Loose(B) /\ page \in R /\ page + size - 1 \in R
  OBVIOUS
<1>2. \A v \in Loose(B) : v \in UserPages \ {0} /\ v \notin B.pinned /\ v \in UserPages \ B.kernel
  BY DEF Loose, IsLayout
<1>3. ~PageIsUsing(s, page)
  BY <1>1, <1>2, ReadsWalk
<1>4. AllocHeapAt(s, page, size) = Settle(a, page, size)
  BY <1>3 DEF AllocHeapAt
<1>5. /\ a.ok \in BOOLEAN /\ a.done \in Seq(UserPages) /\ n <= size /\ (a.ok => n = size)
      /\ Taken(B, s, a.s, D) /\ \A k \in 1 .. n : a.done[k] = page + k - 1
  <2>1. Progress(B, s, a, page, size)
    BY AllocLoop
  <2>. HIDE DEF a
  <2>. QED  BY <2>1 DEF Progress
<1>. HIDE DEF a
<1>6. n \in Nat
  BY <1>5
<1>7. CASE a.ok
  <2> DEFINE t == WriteHeap(a.s, page, size)
  <2>1. Settle(a, page, size) = [ok |-> TRUE, page |-> page, s |-> t]
    BY <1>7 DEF Settle
  <2>2. D = R /\ Taken(B, s, a.s, R)
    BY <1>5, <1>7
  <2>3. /\ Good(B, a.s) /\ Walk(a.s, page) # NoPage
        /\ Walk(a.s, page + size - 1) # NoPage
    BY <1>1, <2>2, LayoutFacts DEF Taken
  <2>4. /\ Good(B, t) /\ t.pm = a.s.pm /\ t.null = a.s.null
        /\ \A w \in UserPages : Walk(t, w) = Walk(a.s, w)
    <3>. HIDE DEF n, R, D
    <3>. QED  BY <1>1, <1>2, <2>3, HeapWritten
  <2>5. R \subseteq UserPages
    BY <1>2
  <2>. HIDE DEF t, R
  <2>6. Taken(B, s, t, R)
    <3>1. {Walk(t, w) : w \in R} = {Walk(a.s, w) : w \in R}
      BY <2>4, <2>5
    <3>. QED  BY <2>2, <2>4, <2>5, <3>1 DEF Taken
  <2>. QED  BY <1>4, <2>1, <2>6 DEF R
<1>8. CASE ~a.ok
  <2> DEFINE q == Reverse(a.done)
             t == FoldLeft(ReleasePage, a.s, q)
  <2>1. Settle(a, page, size) = [ok |-> FALSE, page |-> NoPage, s |-> t]
    BY <1>8 DEF Settle
  <2>2. D \subseteq R /\ \A k \in 1 .. n : page + k - 1 \in D
    BY <1>5, <1>6
  <2>3. DOMAIN q = 1 .. n /\ \A i \in 1 .. n : q[i] = page + n - i
    <3>1. \A i \in 1 .. n : (n - i) + 1 \in 1 .. n /\ page + ((n - i) + 1) - 1 = page + n - i
      BY <1>6
    <3>. QED  BY <1>5, <1>6, <3>1 DEF Reverse
  <2>4. \A i \in 1 .. n : q[i] \in D
    BY <1>6, <2>3
  <2>5. {q[i] : i \in 1 .. n} = D
    <3>1. ASSUME NEW v \in D PROVE \E i \in 1 .. n : q[i] = v
      <4>1. page + n - v \in 1 .. n /\ page + n - (page + n - v) = v
        BY <1>6
      <4>. QED  BY <2>3, <4>1
    <3>. QED  BY <2>4, <3>1
  <2>6. \A i \in 1 .. n : q[i] \in Loose(B)
    BY <2>2, <2>4
  <2>7. Good(B, a.s)
    BY <1>5 DEF Taken
  <2>8. Released(B, a.s, t, D)
    <3>. HIDE DEF q, n, D
    <3>. QED  BY <1>6, <2>3, <2>5, <2>6, <2>7, ReleaseAll
  <2>9. \A v \in D : v \in UserPages /\ Walk(s, v) = NoPage
    BY <1>2, <2>2
  <2>. HIDE DEF t, D
  <2>10. Taken(B, s, t, {})
    <3>1. \A w \in UserPages : Walk(t, w) = Walk(s, w)
      BY <1>5, <2>8, <2>9 DEF Taken, Released
    <3>2. t.pm.used = s.pm.used
      <4>1. a.s.pm.used = s.pm.used \cup {Walk(a.s, w) : w \in D}
        BY <1>5 DEF Taken
      <4>2. \A w \in D : Walk(a.s, w) \notin s.pm.used
        BY <1>5 DEF Taken
      <4>3. t.pm.used = a.s.pm.used \ {Walk(a.s, w) : w \in D}
        BY <2>8 DEF Released
      <4>. QED  BY <4>1, <4>2, <4>3
    <3>3. Good(B, t) /\ t.null = s.null
      BY <1>5, <2>8 DEF Taken, Released
    <3>. QED  BY <3>1, <3>2, <3>3 DEF Taken
  <2>. QED  BY <1>4, <2>1, <2>10
<1>. QED  BY <1>5, <1>7, <1>8
------------------------------------------------------------------------------
(***************************************************************************)
(* Searching the first table for pages, and mapping two of them for a      *)
(* while.                                                                  *)
(***************************************************************************)
LEMMA FirstTable ==
  ASSUME NEW B, IsLayout(B), NEW v \in 0 .. Fan - 1
  PROVE  v \in UserPages /\ Pde(v) \in Dirs(B)
<1>. USE VirtMemAssumption
<1>1. v \in Nat /\ v < Fan /\ Fan \in Nat /\ 2 <= Fan
  OBVIOUS
<1>2. Pde(v) = 0 /\ Pde(0) = 0
  BY <1>1 DEF Pde
<1>3. Fan <= Fan * Fan
  BY <1>1
<1>4. v \in Pages
  BY <1>1, <1>3 DEF Pages
<1>. QED  BY <1>1, <1>2, <1>4 DEF UserPages, Rec, IsLayout

\* While page 0 is in use and num pages from c on are free in the first table, the
\* search ends there or before.
LEMMA SearchStays ==
  ASSUME NEW B, IsLayout(B), NEW s, Good(B, s), PageIsUsing(s, 0), NEW num \in Nat \ {0},
         NEW c \in 1 .. Fan - 1, c + num <= Fan,
         \A v \in c .. c + num - 1 : Walk(s, v) = NoPage
  PROVE  LET r == VirtGetUsablePage(s, num)
         IN  /\ r.ret \in 1 .. c /\ r.ret # NoPage
             /\ \A v \in r.ret .. r.ret + num - 1 :
                  v \in Loose(B) /\ v \in 1 .. Fan - 1 /\ Walk(s, v) = NoPage
             /\ Cleared(B, s, r.s, {})
<1> DEFINE r == VirtGetUsablePage(s, num)
           p == r.ret
<1>. USE VirtMemAssumption
<1>1. s.upiDir \in BOOLEAN /\ Fan <= Fan * Fan /\ Fan * Fan \in Nat
  BY DEF Good, VMType
<1>2. c \in RunStarts(s, num)
  <2>1. ASSUME NEW v \in c .. c + num - 1 PROVE ~PageIsUsing(s, v)
    <3>1. v \in 0 .. Fan - 1 /\ v # 0
      OBVIOUS
    <3>. QED  BY <3>1, FirstTable, ReadsWalk
  <2>. QED  BY <1>1, <2>1 DEF RunStarts, FreeRun, Pages
<1>3. p \in RunStarts(s, num) /\ p <= c
  BY <1>1, <1>2, RunFound
<1>4. p \in Nat /\ \A v \in p .. p + num - 1 : ~PageIsUsing(s, v)
  BY <1>1, <1>3 DEF RunStarts, FreeRun, Pages
<1>5. p # 0 /\ p # NoPage
  BY <1>4 DEF NoPage
<1>. HIDE DEF r
<1>6. p \in 1 .. c
  BY <1>3, <1>4, <1>5
<1>7. ASSUME NEW v \in p .. p + num - 1
      PROVE  v \in Loose(B) /\ v \in 1 .. Fan - 1 /\ Walk(s, v) = NoPage
  <2>1. v \in 1 .. Fan - 1
    BY <1>6
  <2>2. v \in UserPages /\ Pde(v) \in Dirs(B)
    BY <2>1, FirstTable
  <2>3. Walk(s, v) = NoPage
    BY <1>4, <2>2, ReadsWalk
  <2>. QED  BY <2>1, <2>2, <2>3 DEF Loose, Good
<1>8. Cleared(B, s, r.s, {})
  <2>1. \E b \in BOOLEAN : r.s = [s EXCEPT !.upiDir = b]
    <3>1. FindRun(s, num).down \in BOOLEAN
      BY <1>1 DEF FindRun
    <3>2. r.s = [s EXCEPT !.upiDir = FindRun(s, num).down] \/ r.s = s
      BY DEF VirtGetUsablePage, r
    <3>3. s = [s EXCEPT !.upiDir = s.upiDir]
      BY DEF Good, VMType
    <3>. QED  BY <1>1, <3>1, <3>2, <3>3
  <2>2. PICK b \in BOOLEAN : r.s = [s EXCEPT !.upiDir = b]
    BY <2>1
  <2>3. /\ Good(B, r.s) /\ r.s.null = s.null /\ r.s.pm = s.pm
        /\ \A w \in Pages : Walk(r.s, w) = Walk(s, w)
    BY <2>2, DirectionOnly
  <2>. QED  BY <2>3 DEF Cleared, UserPages
<1>. QED  BY <1>5, <1>6, <1>7, <1>8 DEF r

\* Two pages from p on lead to two frames from f on; nothing else has changed.
Doubled(B, s, t, p, f) ==
  /\ Good(B, t) /\ t.pm = s.pm /\ t.null = s.null
  /\ p \in Loose(B) /\ p + 1 \in Loose(B)
  /\ Walk(s, p) = NoPage /\ Walk(s, p + 1) = NoPage
  /\ \A w \in UserPages : Walk(t, w) = IF w = p THEN f
                                       ELSE IF w = p + 1 THEN f + 1 ELSE Walk(s, w)

LEMMA MapTwoCorrect ==
  ASSUME NEW B, IsLayout(B), NEW s, Good(B, s), PageIsUsing(s, 0),
         NEW c \in 1 .. Fan - 1, c + 2 <= Fan, Walk(s, c) = NoPage, Walk(s, c + 1) = NoPage,
         NEW f, f \in Frames \ TablesOf(B), f + 1 \in Frames \ TablesOf(B)
  PROVE  \E p, t : /\ p \in 1 .. c /\ MapTwo(s, f) = [ok |-> TRUE, s |-> t, page |-> p]
                  /\ Doubled(B, s, t, p, f)
<1> DEFINE r == VirtGetUsablePage(s, 2)
           p == r.ret
           one == Map(r.s, p, f)
           two == Map(one.s, p + 1, f + 1)
<1>. USE VirtMemAssumption
<1>1. /\ p \in 1 .. c /\ p # NoPage
      /\ \A v \in p .. p + 2 - 1 : v \in Loose(B) /\ v \in 1 .. Fan - 1 /\ Walk(s, v) = NoPage
      /\ Cleared(B, s, r.s, {})
  <2>1. \A v \in c .. c + 2 - 1 : Walk(s, v) = NoPage
    <3>1. \A v \in c .. c + 2 - 1 : v = c \/ v = c + 1
      OBVIOUS
    <3>. QED  BY <3>1
  <2>. QED  BY <2>1, SearchStays
<1>. HIDE DEF r
<1>2. /\ p \in Loose(B) /\ p + 1 \in Loose(B) /\ p \in Nat
      /\ Walk(s, p) = NoPage /\ Walk(s, p + 1) = NoPage
  BY <1>1
<1>3. one.ok /\ Remapped(B, r.s, one.s, p, f)
  BY <1>1, <1>2, MapCorrect DEF Cleared, Loose
<1>4. MapTwo(s, f) = MapSecond(one, p, f)
  BY <1>1 DEF MapTwo, MapFound, r
<1>. HIDE DEF one
<1>5. Good(B, one.s)
  BY <1>3 DEF Remapped
<1>6. two.ok /\ Remapped(B, one.s, two.s, p + 1, f + 1)
  BY <1>2, <1>5, MapCorrect DEF Loose
<1>7. MapTwo(s, f) = [ok |-> two.ok, s |-> two.s, page |-> p]
  BY <1>3, <1>4 DEF MapSecond
<1>8. two.ok = TRUE
  BY <1>6 DEF Map
<1>. HIDE DEF two
<1>9. p # p + 1
  BY <1>2
<1>10. Doubled(B, s, two.s, p, f)
  BY <1>1, <1>2, <1>3, <1>6, <1>9 DEF Remapped, Cleared, Doubled
<1>11. MapTwo(s, f) = [ok |-> TRUE, s |-> two.s, page |-> p]
  BY <1>7, <1>8
<1>. QED  BY <1>1, <1>10, <1>11

LEMMA UndoTwo ==
  ASSUME NEW B, IsLayout(B), NEW s, NEW t, NEW p, NEW f, Doubled(B, s, t, p, f)
  PROVE  Cleared(B, s, UnmapTwo(t, p), {})
<1> DEFINE one == Unmap(t, p)
           two == Unmap(one, p + 1)
<1>1. /\ Good(B, t) /\ p \in UserPages \ B.pinned /\ Pde(p) \in Dirs(B)
      /\ p + 1 \in UserPages \ B.pinned /\ Pde(p + 1) \in Dirs(B)
  BY DEF Doubled, Loose
<1>2. Remapped(B, t, one, p, NoPage)
  BY <1>1, UnmapCorrect
<1>. HIDE DEF one
<1>3. Remapped(B, one, two, p + 1, NoPage)
  BY <1>1, <1>2, UnmapCorrect DEF Remapped
<1>4. UnmapTwo(t, p) = two
  BY DEF UnmapTwo, one
<1>. HIDE DEF two
<1>5. \A w \in UserPages : Walk(two, w) = Walk(s, w)
  BY <1>2, <1>3 DEF Remapped, Doubled
<1>. QED  BY <1>2, <1>3, <1>4, <1>5 DEF Remapped, Doubled, Cleared
------------------------------------------------------------------------------
(***************************************************************************)
(* ACPI::init.                                                             *)
(***************************************************************************)
Context == [isReady : BOOLEAN, ioapic : Nat, intSO : Seq(Nat)]
Item == [type : STRING, val : Nat]
Overrides(items, i) == {j \in 1 .. i : items[j].type = "override"}

LEMMA OverridesCount ==
  ASSUME NEW items, NEW i \in Nat
  PROVE  /\ Cardinality(Overrides(items, i)) \in Nat /\ Cardinality(Overrides(items, 0)) = 0
         /\ i # 0 => Cardinality(Overrides(items, i)) =
                       IF items[i].type = "override" THEN Cardinality(Overrides(items, i - 1)) + 1
                       ELSE Cardinality(Overrides(items, i - 1))
<1>1. \A k \in Nat : IsFiniteSet(Overrides(items, k)) /\ Cardinality(Overrides(items, k)) \in Nat
  <2>1. ASSUME NEW k \in Nat
        PROVE  IsFiniteSet(Overrides(items, k)) /\ Cardinality(Overrides(items, k)) \in Nat
    <3>1. IsFiniteSet(1 .. k) /\ Overrides(items, k) \subseteq 1 .. k
      BY FS_Interval DEF Overrides
    <3>2. IsFiniteSet(Overrides(items, k))
      BY <3>1, FS_Subset
    <3>. QED  BY <3>2, FS_CardinalityType
  <2>. QED  BY <2>1
<1>2. Overrides(items, 0) = {}
  BY DEF Overrides
<1>3. CASE i # 0 /\ items[i].type = "override"
  <2>1. Overrides(items, i) = Overrides(items, i - 1) \cup {i} /\ i \notin Overrides(items, i - 1)
    BY <1>3 DEF Overrides
  <2>2. i - 1 \in Nat
    BY <1>3
  <2>3. Cardinality(Overrides(items, i - 1) \cup {i}) = Cardinality(Overrides(items, i - 1)) + 1
    BY <1>1, <2>1, <2>2, FS_AddElement
  <2>. QED  BY <1>1, <1>2, <1>3, <2>1, <2>3, FS_EmptySet
<1>4. CASE i # 0 /\ items[i].type # "override"
  <2>1. Overrides(items, i) = Overrides(items, i - 1)
    BY <1>4 DEF Overrides
  <2>. QED  BY <1>1, <1>2, <1>4, <2>1, FS_EmptySet
<1>. QED  BY <1>1, <1>2, <1>3, <1>4, FS_EmptySet

\* Enlisting an item keeps the type of the context.
LEMMA EnlistedType ==
  ASSUME NEW c \in Context, NEW item \in Item
  PROVE  /\ Enlisted(c, item) \in Context
         /\ item.type = "ioapic" => /\ Enlisted(c, item).ioapic = item.val
                                    /\ Enlisted(c, item).intSO = c.intSO
         /\ item.type # "ioapic" => Enlisted(c, item).ioapic = c.ioapic
         /\ Len(Enlisted(c, item).intSO) = IF item.type = "override" THEN Len(c.intSO) + 1
                                           ELSE Len(c.intSO)
<1>1. /\ c.intSO \in Seq(Nat) /\ item.val \in Nat /\ c.ioapic \in Nat
      /\ c = [isReady |-> c.isReady, ioapic |-> c.ioapic, intSO |-> c.intSO]
  BY DEF Context, Item
<1>2. CASE item.type = "ioapic"
  <2>1. Enlisted(c, item) = [c EXCEPT !.ioapic = item.val]
    BY <1>2 DEF Enlisted
  <2>. QED  BY <1>1, <1>2, <2>1 DEF Context
<1>3. CASE item.type = "override"
  <2>1. Enlisted(c, item) = [c EXCEPT !.intSO = Append(@, item.val)]
    BY <1>3 DEF Enlisted
  <2>2. Append(c.intSO, item.val) \in Seq(Nat) /\ Len(Append(c.intSO, item.val)) = Len(c.intSO) + 1
    BY <1>1
  <2>3. Enlisted(c, item) = [isReady |-> c.isReady, ioapic |-> c.ioapic,
                             intSO |-> Append(c.intSO, item.val)]
    BY <1>1, <2>1
  <2>. QED  BY <1>1, <1>3, <2>2, <2>3 DEF Context
<1>4. CASE item.type # "ioapic" /\ item.type # "override"
  <2>1. Enlisted(c, item) = c
    BY <1>4 DEF Enlisted
  <2>. QED  BY <1>1, <1>4, <2>1
<1>. QED  BY <1>2, <1>3, <1>4

\* parseAPIC names an I/O APIC that the table names before the context is full.
LEMMA ItemsParsed ==
  ASSUME NEW items \in Seq(Item), Reached(items) # {}
  PROVE  /\ ParseAPIC(NoContext, items) \in Context
         /\ ParseAPIC(NoContext, items).isReady = TRUE
         /\ ParseAPIC(NoContext, items).ioapic \in Reached(items)
<1> DEFINE X == [context : Context, over : BOOLEAN]
           b == [context |-> NoContext, over |-> FALSE]
           n == Len(items)
           C(i) == Cardinality(Overrides(items, i))
           Heard(a, i) ==
             \/ a.context.ioapic \in Reached(items)
             \/ \A k \in 1 .. i : items[k].type = "ioapic" => C(k - 1) >= MaxOverrides
           Known(a, i) ==
             /\ a.over = FALSE => Len(a.context.intSO) = C(i) /\ C(i) < MaxOverrides
             /\ a.over = TRUE => C(i) >= MaxOverrides
             /\ Heard(a, i)
           J == [i \in 0 .. n |-> {a \in X : Known(a, i)}]
<1>1. n \in Nat /\ DOMAIN items = 1 .. n /\ \A i \in 1 .. n : items[i] \in Item
  OBVIOUS
<1>2. MaxOverrides \in Nat \ {0}
  BY KernelMemAssumption
<1>3. /\ \A i \in Nat : C(i) \in Nat
      /\ C(0) = 0
      /\ \A i \in 1 .. n : C(i) = IF items[i].type = "override" THEN C(i - 1) + 1 ELSE C(i - 1)
  <2>1. \A i \in 1 .. n : i \in Nat /\ i # 0
    OBVIOUS
  <2>. QED  BY <2>1, OverridesCount
<1>4. b \in X /\ Known(b, 0)
  BY <1>2, <1>3 DEF NoContext, Context
<1>5. \A k \in 1 .. n : items[k].type = "ioapic" /\ C(k - 1) < MaxOverrides =>
                          items[k].val \in Reached(items)
  BY <1>1 DEF Reached, Overrides
<1>6. \E k \in 1 .. n : items[k].type = "ioapic" /\ C(k - 1) < MaxOverrides
  BY <1>1 DEF Reached, Overrides
<1>. HIDE DEF C
<1>7. ASSUME NEW x \in X, NEW i \in 1 .. n
      PROVE  ParseItem(x, items[i]) \in X /\ (Known(x, i - 1) => Known(ParseItem(x, items[i]), i))
  <2> DEFINE c == Enlisted(x.context, items[i])
  <2>1. x.over \in BOOLEAN /\ x.context \in Context /\ Len(x.context.intSO) \in Nat
    BY DEF Context
  <2>2. /\ c \in Context
        /\ items[i].type = "ioapic" => c.ioapic = items[i].val
        /\ items[i].type # "ioapic" => c.ioapic = x.context.ioapic
        /\ Len(c.intSO) = IF items[i].type = "override" THEN Len(x.context.intSO) + 1
                          ELSE Len(x.context.intSO)
    BY <1>1, <2>1, EnlistedType
  <2>3. i \in Nat /\ i - 1 \in Nat /\ C(i) \in Nat /\ C(i - 1) \in Nat
    BY <1>3
  <2>4. \A k \in 1 .. i : k \in 1 .. i - 1 \/ k = i
    OBVIOUS
  <2>5. CASE x.over = TRUE
    <3>1. ParseItem(x, items[i]) = x
      BY <2>5 DEF ParseItem
    <3>2. C(i) >= C(i - 1)
      <4>1. C(i) = C(i - 1) + 1 \/ C(i) = C(i - 1)
        BY <1>3
      <4>. QED  BY <2>3, <4>1
    <3>3. ASSUME Known(x, i - 1) PROVE Known(x, i)
      <4>1. C(i - 1) >= MaxOverrides /\ C(i) >= MaxOverrides
        BY <1>2, <2>3, <2>5, <3>2, <3>3
      <4>2. Heard(x, i)
        BY <2>4, <3>3, <4>1
      <4>. HIDE DEF Heard
      <4>. QED  BY <2>5, <4>1, <4>2
    <3>. HIDE DEF Known
    <3>. QED  BY <3>1, <3>3
  <2>6. CASE x.over = FALSE
    <3>1. ParseItem(x, items[i]) = [context |-> c, over |-> IsFull(c)]
      BY <2>6 DEF ParseItem
    <3>2. IsFull(c) \in BOOLEAN /\ (IsFull(c) <=> Len(c.intSO) >= MaxOverrides)
      BY DEF IsFull
    <3>. HIDE DEF c
    <3>3. ParseItem(x, items[i]) \in X
      BY <2>2, <3>1, <3>2
    <3>4. ASSUME Known(x, i - 1) PROVE Known(ParseItem(x, items[i]), i)
      <4>1. Len(x.context.intSO) = C(i - 1) /\ C(i - 1) < MaxOverrides
        BY <2>6, <3>4
      <4>2. Len(c.intSO) = C(i)
        BY <1>3, <2>2, <4>1
      <4>3. items[i].type = "ioapic" => c.ioapic \in Reached(items)
        BY <1>5, <2>2, <4>1
      <4>4. Heard([context |-> c, over |-> IsFull(c)], i)
        BY <2>2, <2>4, <3>4, <4>3
      <4>. HIDE DEF Heard
      <4>. QED  BY <1>2, <2>3, <3>1, <3>2, <4>2, <4>4
    <3>. QED  BY <3>3, <3>4
  <2>. QED  BY <2>1, <2>5, <2>6
<1>8. FoldLeft(ParseItem, b, items) \in X \cap J[n]
  <2>1. b \in J[0]
    BY <1>1, <1>4
  <2>2. \A i \in 1 .. n : \A x \in X : x \in J[i - 1] => ParseItem(x, items[i]) \in J[i]
    <3>1. \A i \in 1 .. n : i - 1 \in 0 .. n /\ i \in 0 .. n
      BY <1>1
    <3>. HIDE DEF X, Known
    <3>. QED  BY <1>7, <3>1
  <2>. HIDE DEF X, J, b
  <2>. QED  BY <1>1, <1>4, <1>7, <2>1, <2>2, ParseItemFold
<1>9. \E a \in X : a = FoldLeft(ParseItem, b, items) /\ Heard(a, n)
  <2>1. n \in 0 .. n
    BY <1>1
  <2>. HIDE DEF X, Heard, b
  <2>. QED  BY <1>8, <2>1
<1>10. PICK a \in X : a = FoldLeft(ParseItem, b, items) /\ Heard(a, n)
  BY <1>9
<1>11. a.context.ioapic \in Reached(items) /\ a.context \in Context
  <2>1. \A k \in 1 .. n : C(k - 1) \in Nat
    BY <1>3
  <2>. QED  BY <1>2, <1>6, <1>10, <2>1
<1>12. ParseAPIC(NoContext, items) = [a.context EXCEPT !.isReady = TRUE]
  BY <1>10 DEF ParseAPIC
<1>. QED  BY <1>11, <1>12 DEF Context
\* Whatever the context says before, parseAPIC leaves a context.
LEMMA ParsedType ==
  ASSUME NEW c \in Context, NEW items \in Seq(Item)
  PROVE  ParseAPIC(c, items) \in Context
<1> DEFINE X == [context : Context, over : BOOLEAN]
           b == [context |-> c, over |-> FALSE]
           n == Len(items)
           J == [i \in 0 .. n |-> X]
<1>1. n \in Nat /\ DOMAIN items = 1 .. n /\ \A i \in 1 .. n : items[i] \in Item
  OBVIOUS
<1>2. ASSUME NEW x \in X, NEW i \in 1 .. n PROVE ParseItem(x, items[i]) \in X
  <2>1. Enlisted(x.context, items[i]) \in Context
    BY <1>1, EnlistedType
  <2>2. IsFull(Enlisted(x.context, items[i])) \in BOOLEAN
    BY DEF IsFull
  <2>3. ParseItem(x, items[i]) = x \/
        ParseItem(x, items[i]) = [context |-> Enlisted(x.context, items[i]),
                                  over |-> IsFull(Enlisted(x.context, items[i]))]
    BY DEF ParseItem
  <2>. QED  BY <2>1, <2>2, <2>3
<1>3. b \in X /\ b \in J[0]
  BY <1>1
<1>4. \A i \in 1 .. n : \A x \in X : x \in J[i - 1] => ParseItem(x, items[i]) \in J[i]
  <2>1. \A i \in 1 .. n : i \in 0 .. n
    BY <1>1
  <2>. HIDE DEF X
  <2>. QED  BY <1>2, <2>1
<1>5. FoldLeft(ParseItem, b, items) \in X
  <2>. HIDE DEF X, J, b
  <2>. QED  BY <1>1, <1>2, <1>3, <1>4, ParseItemFold
<1>6. \E a \in X : a = FoldLeft(ParseItem, b, items)
  <2>. HIDE DEF X, b
  <2>. QED  BY <1>5
<1>7. PICK a \in X : a = FoldLeft(ParseItem, b, items)
  BY <1>6
<1>8. ParseAPIC(c, items) = [a.context EXCEPT !.isReady = TRUE]
  BY <1>7 DEF ParseAPIC
<1>. QED  BY <1>8 DEF Context

\* Of the tables that a root names one is of APICs at most.
LEMMA OneOfApics ==
  ASSUME NEW tables, DOMAIN tables = 1 .. Len(tables), Len(tables) \in Nat,
         FirmwareIsSound(tables),
         NEW i \in DOMAIN tables, NEW j \in DOMAIN tables,
         tables[i].apic = TRUE, tables[j].apic = TRUE
  PROVE  i = j
<1> DEFINE S == {k \in DOMAIN tables : tables[k].apic}
<1>. SUFFICES ASSUME i # j PROVE FALSE
  OBVIOUS
<1>1. IsFiniteSet(S) /\ Cardinality(S) <= 1
  <2>1. IsFiniteSet(1 .. Len(tables)) /\ S \subseteq 1 .. Len(tables)
    BY FS_Interval
  <2>2. IsFiniteSet(S)
    BY <2>1, FS_Subset
  <2>. QED  BY <2>2 DEF FirmwareIsSound
<1>2. {i} \cup {j} \subseteq S /\ j \notin {i}
  OBVIOUS
<1>3. IsFiniteSet({i}) /\ Cardinality({i}) = 1
  BY FS_Singleton
<1>. HIDE DEF S
<1>4. Cardinality({i} \cup {j}) = 1 + 1
  <2>1. Cardinality({i} \cup {j}) = Cardinality({i}) + 1
    BY <1>2, <1>3, FS_AddElement
  <2>. QED  BY <1>3, <2>1
<1>5. Cardinality({i} \cup {j}) <= Cardinality(S) /\ Cardinality(S) \in Nat
  BY <1>1, <1>2, FS_Subset, FS_CardinalityType
<1> DEFINE N == Cardinality(S)
<1>6. 1 + 1 <= N /\ N <= 1 /\ N \in Nat
  BY <1>1, <1>4, <1>5
<1>. HIDE DEF N
<1>. QED  BY <1>6

\* What a table tells does not depend on where it is mapped.
LEMMA ParsedTables ==
  ASSUME NEW k \in Context, NEW table \in [frame : Frames, apic : BOOLEAN, items : Seq(Item)]
  PROVE  /\ Parsed(k, table) \in Context
         /\ table.apic = FALSE => Parsed(k, table) = k
         /\ (k = NoContext /\ table.apic = TRUE /\ Reached(table.items) # {})
              => Parsed(k, table).ioapic \in Reached(table.items)
<1>1. table.items \in Seq(Item)
  OBVIOUS
<1>2. CASE table.apic = TRUE
  <2>1. Parsed(k, table) = ParseAPIC(k, table.items)
    BY <1>2 DEF Parsed
  <2>. QED  BY <1>1, <1>2, <2>1, ParsedType, ItemsParsed
<1>3. CASE table.apic = FALSE
  BY <1>3 DEF Parsed
<1>. QED  BY <1>2, <1>3

Reader(s, root, context) == [ok |-> TRUE, s |-> s, root |-> root, context |-> context]

\* A table is mapped, read and unmapped.
LEMMA ReadOne ==
  ASSUME NEW B, IsLayout(B), NEW s, Good(B, s), PageIsUsing(s, 0),
         NEW c \in 1 .. Fan - 1, c + 2 <= Fan, Walk(s, c) = NoPage, Walk(s, c + 1) = NoPage,
         NEW r, Cleared(B, s, r, {}), NEW root, NEW k,
         NEW table, {table.frame, table.frame + 1} \subseteq Frames \ TablesOf(B)
  PROVE  \E t : /\ ReadTable(Reader(r, root, k), table) = Reader(t, root, Parsed(k, table))
                /\ Cleared(B, s, t, {})
<1> DEFINE x == Reader(r, root, k)
<1>0. x = [ok |-> TRUE, s |-> r, root |-> root, context |-> k]
  BY DEF Reader
<1>1. CASE table.frame = root
  <2>1. ReadTable(x, table) = [x EXCEPT !.context = Parsed(k, table)]
    BY <1>1 DEF ReadTable, Reader
  <2>. QED  BY <2>1 DEF Reader
<1>2. CASE table.frame # root
  <2>1. Good(B, r) /\ PageIsUsing(r, 0) /\ Walk(r, c) = NoPage /\ Walk(r, c + 1) = NoPage
    <3>1. 0 \in 0 .. Fan - 1 /\ c \in 0 .. Fan - 1 /\ c + 1 \in 0 .. Fan - 1
      BY VirtMemAssumption
    <3>2. 0 \in UserPages /\ c \in UserPages /\ c + 1 \in UserPages
      BY <3>1, FirstTable
    <3>. QED  BY <3>2, ReadsWalk DEF Cleared
  <2>2. PICK p, u : /\ p \in 1 .. c /\ MapTwo(r, table.frame) = [ok |-> TRUE, s |-> u, page |-> p]
                    /\ Doubled(B, r, u, p, table.frame)
    BY <2>1, MapTwoCorrect
  <2> DEFINE t == UnmapTwo(u, p)
  <2>3. Cleared(B, r, t, {})
    BY <2>2, UndoTwo
  <2>4. ReadTable(x, table) = CloseTable(x, MapTwo(r, table.frame), table)
    BY <1>0, <1>2 DEF ReadTable
  <2>. HIDE DEF x
  <2>5. ReadTable(x, table) = [x EXCEPT !.s = t, !.context = Parsed(@, table)]
    BY <1>0, <2>2, <2>4 DEF CloseTable
  <2>. HIDE DEF t
  <2>6. ReadTable(x, table) = Reader(t, root, Parsed(k, table))
    BY <1>0, <2>5 DEF Reader
  <2>7. Cleared(B, s, t, {})
    BY <2>3 DEF Cleared
  <2>. QED  BY <2>6, <2>7 DEF x
<1>. QED  BY <1>1, <1>2

\* The loop over the tables that a root names.
LEMMA TablesRead ==
  ASSUME NEW B, IsLayout(B), NEW s, Good(B, s), PageIsUsing(s, 0),
         NEW c \in 1 .. Fan - 1, c + 2 <= Fan, Walk(s, c) = NoPage, Walk(s, c + 1) = NoPage,
         NEW root,
         NEW tables \in Seq([frame : Frames, apic : BOOLEAN, items : Seq(Item)]),
         \A i \in DOMAIN tables : {tables[i].frame, tables[i].frame + 1} \subseteq
                                     Frames \ TablesOf(B),
         FirmwareIsSound(tables)
  PROVE  \E t, k : /\ FoldLeft(ReadTable, Reader(s, root, NoContext), tables) =
                        Reader(t, root, k)
                   /\ Cleared(B, s, t, {}) /\ k \in Context
                   /\ k.isReady = TRUE => k.ioapic \in IoapicsOf(tables)
<1> DEFINE Acc(t, k) == Reader(t, root, k)
           S == {t \in VMType : Cleared(B, s, t, {})}
           X == {Acc(t, k) : t \in S, k \in Context}
           n == Len(tables)
           Named(k, i) ==
             /\ k.isReady = TRUE => k.ioapic \in IoapicsOf(tables)
             /\ (\A j \in 1 .. i : tables[j].apic = FALSE) => k = NoContext
           J == [i \in 0 .. n |-> {Acc(t, k) : t \in S, k \in {k \in Context : Named(k, i)}}]
<1>1. /\ n \in Nat /\ DOMAIN tables = 1 .. n
      /\ \A i \in 1 .. n : tables[i] \in [frame : Frames, apic : BOOLEAN, items : Seq(Item)]
  <2> DEFINE T == [frame : Frames, apic : BOOLEAN, items : Seq(Item)]
  <2>1. tables \in Seq(T)
    OBVIOUS
  <2>. HIDE DEF T
  <2>2. n \in Nat /\ DOMAIN tables = 1 .. n /\ \A i \in 1 .. n : tables[i] \in T
    BY <2>1
  <2>. QED  BY <2>2 DEF T
<1>2. NoContext \in Context /\ Named(NoContext, 0)
  BY DEF NoContext, Context
<1>3. s \in S
  BY DEF Cleared, Good
<1>4. ASSUME NEW i \in 1 .. n, NEW r \in S, NEW k \in Context
      PROVE  /\ \E t \in S : ReadTable(Acc(r, k), tables[i]) = Acc(t, Parsed(k, tables[i]))
             /\ Parsed(k, tables[i]) \in Context
  <2>1. PICK t : /\ ReadTable(Acc(r, k), tables[i]) = Acc(t, Parsed(k, tables[i]))
                 /\ Cleared(B, s, t, {})
    <3>1. {tables[i].frame, tables[i].frame + 1} \subseteq Frames \ TablesOf(B)
      BY <1>1
    <3>2. Cleared(B, s, r, {})
      OBVIOUS
    <3>. HIDE DEF S, X, J, Named
    <3>. QED  BY <3>1, <3>2, ReadOne
  <2>2. t \in S
    BY <2>1 DEF Cleared, Good
  <2>3. Parsed(k, tables[i]) \in Context
    BY <1>1, ParsedTables
  <2>. QED  BY <2>1, <2>2, <2>3
<1>5. ASSUME NEW i \in 1 .. n, NEW k \in Context, Named(k, i - 1)
      PROVE  Named(Parsed(k, tables[i]), i)
  <2>1. tables[i].apic \in BOOLEAN /\ i \in 1 .. i
    BY <1>1
  <2>2. CASE tables[i].apic = FALSE
    <3>1. Parsed(k, tables[i]) = k
      BY <1>1, <2>2, ParsedTables
    <3>. QED  BY <1>5, <3>1
  <2>3. CASE tables[i].apic = TRUE
    <3>1. ASSUME NEW j \in 1 .. i - 1 PROVE tables[j].apic = FALSE
      <4>1. j \in 1 .. n /\ j # i
        BY <1>1
      <4>2. tables[j].apic # TRUE
        BY <1>1, <2>3, <4>1, OneOfApics
      <4>. QED  BY <1>1, <4>1, <4>2
    <3>2. k = NoContext
      BY <1>5, <3>1
    <3>3. Reached(tables[i].items) # {}
      BY <1>1, <2>3 DEF FirmwareIsSound
    <3>4. Parsed(k, tables[i]).ioapic \in Reached(tables[i].items)
      BY <1>1, <2>3, <3>2, <3>3, ParsedTables
    <3>5. Parsed(k, tables[i]).ioapic \in IoapicsOf(tables)
      BY <1>1, <3>4 DEF IoapicsOf
    <3>. QED  BY <2>1, <2>3, <3>5
  <2>. QED  BY <2>1, <2>2, <2>3
<1>. HIDE DEF S, Named, Acc
<1>6. Acc(s, NoContext) \in X /\ Acc(s, NoContext) \in J[0]
  BY <1>1, <1>2, <1>3
<1>7. \A x \in X, i \in 1 .. n : ReadTable(x, tables[i]) \in X
  BY <1>4
<1>8. \A i \in 1 .. n : \A x \in X : x \in J[i - 1] => ReadTable(x, tables[i]) \in J[i]
  <2>1. ASSUME NEW i \in 1 .. n, NEW x \in J[i - 1] PROVE ReadTable(x, tables[i]) \in J[i]
    <3>1. i - 1 \in 0 .. n /\ i \in 0 .. n
      BY <1>1
    <3>2. PICK r \in S, k \in Context : x = Acc(r, k) /\ Named(k, i - 1)
      BY <2>1, <3>1
    <3>. QED  BY <1>4, <1>5, <3>1, <3>2
  <2>. HIDE DEF J, X
  <2>. QED  BY <2>1
<1>9. FoldLeft(ReadTable, Acc(s, NoContext), tables) \in X \cap J[n]
  <2>. HIDE DEF X, J
  <2>. QED  BY <1>1, <1>6, <1>7, <1>8, ReadTableFold
<1>10. \E t \in S, k \in Context :
         FoldLeft(ReadTable, Acc(s, NoContext), tables) = Acc(t, k) /\ Named(k, n)
  <2>1. n \in 0 .. n
    BY <1>1
  <2>. QED  BY <1>9, <2>1
<1>. QED  BY <1>10 DEF S, Named, Acc

\* findRSDP finds the root that some pointer of firmware names.
LEMMA RootFound ==
  ASSUME NEW s, NEW rsdps, NEW q \in Seq([base : Nat, size : Nat, type : Nat])
  PROVE  FindRSDP(s, q, rsdps).root \in {NoPage} \cup {rsdps[j] : j \in DOMAIN rsdps}
<1> DEFINE R == {NoPage} \cup {rsdps[j] : j \in DOMAIN rsdps}
           X == [root : R, over : BOOLEAN, fault : BOOLEAN]
           n == Len(q)
           J == [i \in 0 .. n |-> X]
<1>1. n \in Nat /\ DOMAIN q = 1 .. n /\ \A i \in 1 .. n : q[i] \in [base : Nat, size : Nat, type : Nat]
  <2> DEFINE T == [base : Nat, size : Nat, type : Nat]
  <2>1. q \in Seq(T)
    OBVIOUS
  <2>. HIDE DEF T
  <2>2. n \in Nat /\ DOMAIN q = 1 .. n /\ \A i \in 1 .. n : q[i] \in T
    BY <2>1
  <2>. QED  BY <2>2 DEF T
<1>2. NotFound \in X
  BY DEF NotFound
<1>3. ASSUME NEW x \in X, NEW r \in [base : Nat, size : Nat, type : Nat]
      PROVE  ScanRegion(s, rsdps, x, r) \in X
  <2> DEFINE hits == Scanned(r) \cap DOMAIN rsdps
             fault == x.fault \/ \E j \in Scanned(r) : Walk(s, j \div PageSize) = NoPage
             root == IF hits = {} THEN x.root ELSE rsdps[Max(hits)]
  <2>1. r.base \in Nat /\ r.size \in Nat
    OBVIOUS
  <2>2. hits # {} => Max(hits) \in hits
    <3>1. hits \subseteq 0 .. r.base + r.size /\ r.base + r.size \in Nat
      BY <2>1 DEF Scanned
    <3>. HIDE DEF hits
    <3>. QED  BY <3>1, MaxOfNaturals
  <2>3. root \in R
    BY <2>2
  <2>4. fault \in BOOLEAN
    OBVIOUS
  <2>5. \/ ScanRegion(s, rsdps, x, r) = x
        \/ ScanRegion(s, rsdps, x, r) = [x EXCEPT !.over = TRUE]
        \/ ScanRegion(s, rsdps, x, r) = [x EXCEPT !.fault = fault, !.root = root]
    BY DEF ScanRegion
  <2>. HIDE DEF R, root, fault
  <2>. QED  BY <2>3, <2>4, <2>5
<1>4. FindRSDP(s, q, rsdps) \in X
  <2>. HIDE DEF X
  <2>1. NotFound \in J[0] /\ \A i \in 1 .. n : J[i] = X
    <3>1. 0 \in 0 .. n /\ \A i \in 1 .. n : i \in 0 .. n
      BY <1>1
    <3>. HIDE DEF n
    <3>. QED  BY <1>2, <3>1
  <2>. HIDE DEF J
  <2>2. \A x \in X, i \in 1 .. n : ScanRegion(s, rsdps, x, q[i]) \in X
    BY <1>1, <1>3
  <2>3. \A i \in 1 .. n : \A x \in X : x \in J[i - 1] => ScanRegion(s, rsdps, x, q[i]) \in J[i]
    BY <2>1, <2>2
  <2>. QED  BY <1>1, <1>2, <2>1, <2>2, <2>3, FindRSDPFold
<1>. QED  BY <1>4

\* What the tables of a root must be like for ACPI::init.
TablesFit(B, root, tables) ==
  /\ {root, root + 1} \subseteq Frames \ TablesOf(B)
  /\ tables \in Seq([frame : Frames, apic : BOOLEAN, items : Seq(Item)])
  /\ \A i \in DOMAIN tables : {tables[i].frame, tables[i].frame + 1} \subseteq
                                Frames \ TablesOf(B)
  /\ FirmwareIsSound(tables)

\* ACPI::init leaves the translations as it found them, whatever it has read.
LEMMA AcpiCorrect ==
  ASSUME NEW B, IsLayout(B), NEW s, Good(B, s), PageIsUsing(s, 0),
         NEW c \in 1 .. Fan - 1, c + 4 <= Fan, \A v \in c .. c + 3 : Walk(s, v) = NoPage,
         NEW found, NEW tables, found.root = NoPage \/ TablesFit(B, found.root, tables[found.root])
  PROVE  \/ AcpiInit(s, found, tables) = NoRoot(s)
         \/ \E t, k : /\ AcpiInit(s, found, tables) = Reader(t, found.root, k)
                      /\ Cleared(B, s, t, {}) /\ k \in Context
                      /\ k.isReady = TRUE => k.ioapic \in IoapicsOf(tables[found.root])
<1> DEFINE root == found.root
           T == tables[root]
<1>1. CASE found.fault \/ found.root = NoPage
  BY <1>1 DEF AcpiInit
<1>2. CASE ~(found.fault \/ found.root = NoPage)
  <2>1. AcpiInit(s, found, tables) = ReadRoot(MapTwo(s, root), root, T)
    BY <1>2 DEF AcpiInit
  <2>2. TablesFit(B, root, T)
    BY <1>2
  <2>. HIDE DEF root, T
  <2>3. /\ c \in Nat /\ c + 1 \in Nat /\ c + 2 \in 1 .. Fan - 1 /\ (c + 2) + 2 <= Fan
        /\ c + 2 <= Fan /\ (c + 2) + 1 = c + 3
        /\ Walk(s, c) = NoPage /\ Walk(s, c + 1) = NoPage
        /\ Walk(s, c + 2) = NoPage /\ Walk(s, c + 3) = NoPage
    BY VirtMemAssumption
  <2>4. PICK p, u : /\ p \in 1 .. c /\ MapTwo(s, root) = [ok |-> TRUE, s |-> u, page |-> p]
                    /\ Doubled(B, s, u, p, root)
    BY <2>2, <2>3, MapTwoCorrect DEF TablesFit
  <2>5. Good(B, u) /\ PageIsUsing(u, 0) /\ Walk(u, c + 2) = NoPage /\ Walk(u, (c + 2) + 1) = NoPage
    <3>1. 0 \in 0 .. Fan - 1 /\ c + 2 \in 0 .. Fan - 1 /\ c + 3 \in 0 .. Fan - 1
      BY <2>3, VirtMemAssumption
    <3>2. 0 \in UserPages /\ c + 2 \in UserPages /\ c + 3 \in UserPages
      BY <3>1, FirstTable
    <3>3. \A v \in {0, c + 2, c + 3} : v # p /\ v # p + 1
      <4>1. p \in 1 .. c
        BY <2>4
      <4>. QED  BY <2>3, <4>1
    <3>4. \A v \in {0, c + 2, c + 3} : Walk(u, v) = Walk(s, v)
      BY <2>4, <3>2, <3>3 DEF Doubled
    <3>. QED  BY <2>3, <2>4, <3>2, <3>4, ReadsWalk DEF Doubled
  <2>6. PICK x, k : /\ FoldLeft(ReadTable, Reader(u, root, NoContext), T) = Reader(x, root, k)
                    /\ Cleared(B, u, x, {}) /\ k \in Context
                    /\ k.isReady = TRUE => k.ioapic \in IoapicsOf(T)
    BY <2>2, <2>3, <2>5, TablesRead DEF TablesFit
  <2>7. AcpiInit(s, found, tables) = CloseRoot(Reader(x, root, k), p)
    BY <2>1, <2>4, <2>6 DEF ReadRoot, Reader
  <2> DEFINE t == UnmapTwo(x, p)
  <2>8. CloseRoot(Reader(x, root, k), p) = Reader(t, root, k)
    BY DEF CloseRoot, Reader
  <2>9. Doubled(B, s, x, p, root)
    BY <2>4, <2>6 DEF Doubled, Cleared
  <2>10. Cleared(B, s, t, {})
    BY <2>9, UndoTwo
  <2>. HIDE DEF t
  <2>11. AcpiInit(s, found, tables) = Reader(t, root, k)
    BY <2>7, <2>8
  <2>. QED  BY <2>6, <2>10, <2>11 DEF root, T
<1>. QED  BY <1>1, <1>2
------------------------------------------------------------------------------
(***************************************************************************)
(* The inductive invariant.  Until kernelMemInit has run nothing is marked *)
(* in the bitmap; from then on the memory is sound in the following sense, *)
(* where H are the pages of the heaps, m is the memory map and kept are    *)
(* the frames that no heap may get: at first everything that kernelMemInit *)
(* has marked, and once the kernel runs all of it but what was freed.      *)
(***************************************************************************)
MachinesAreSound == \A m \in Machines : MachineIsSound(m)

KernelRun == KernelBase + HhkEnd .. HeapPage - 1

Layout ==
  [table |-> [d \in {0} \cup KernelPde .. KernelPde + KernelTables - 1 |-> BootPde(d)],
   pinned |-> (LowPages .. HhkEnd - 1) \cup KernelRun,
   kernel |-> KernelRun]

Reserved(m) == (0 .. KernelEnd - 1) \cup (Top(m) .. NFrames - 1)
Fixed(m) == Reserved(m) \ AllFreed(m)

\* Pages that only heaps use: behind the boot code in the first table, and behind
\* the kernel.
Spare == (HhkEnd .. Fan - 1) \cup (HeapPage .. HeapPage + MaxPages - 1)

Sound(s, H, kept, m) ==
  /\ Good(Layout, s)
  /\ H \subseteq Loose(Layout)
  /\ \A v \in H : Walk(s, v) \in s.pm.used \ kept
  /\ \A v, w \in H : Walk(s, v) = Walk(s, w) => v = w
  /\ \A v \in UserPages \ H :
       /\ Walk(s, v) \in kept \cup {NoPage}
       /\ LowPages <= v => Walk(s, v) \in (LowPages .. KernelEnd - 1) \cup {NoPage}
       /\ v \in Spare => Walk(s, v) = NoPage
  /\ Fixed(m) \subseteq s.pm.used
  /\ s.pm.used \subseteq Reserved(m) \cup {Walk(s, v) : v \in H}

PagesOf(h) == UNION {p .. p + h[p] - 1 : p \in DOMAIN h}

\* The kernel's heap is behind the kernel, other heaps are in the first table.
HeapsShaped(h) ==
  /\ IsFiniteSet(DOMAIN h) /\ h \in [DOMAIN h -> Nat \ {0}]
  /\ \A p \in DOMAIN h : IF p = HeapPage THEN h[p] <= MaxPages
                         ELSE p \in 1 .. Fan - 1 /\ p + h[p] <= Fan /\ h[p] \in Growths
  /\ \A p, q \in DOMAIN h : p # q => (p .. p + h[p] - 1) \cap (q .. q + h[q] - 1) = {}

\* Low memory is mapped to itself, until it is freed.
LowIsSelf(s) == \A v \in 1 .. LowPages - 1 : Walk(s, v) = v
LowIsLost(s, m, i) ==
  \A k \in 1 .. i : IsFreed(m[k]) =>
    \A v \in 3 .. LowPages - 1 : v \in FreedFor(m[k]) => Walk(s, v) = NoPage

Booted(q) ==
  [pm |-> q, mem |-> KernelPageInit, tlb |-> [v \in Pages |-> NoPage],
   null |-> FALSE, upiDir |-> FALSE]

FirstStage == vm = Booted(InitPhysMem) /\ heaps = [p \in {} |-> 0]

LaterStage ==
  /\ Sound(vm, PagesOf(heaps), IF stage = "running" THEN Fixed(map) ELSE Reserved(map), map)
  /\ HeapsShaped(heaps)
  /\ stage # "running" => DOMAIN heaps \subseteq {HeapPage}
  /\ stage # "halted" => HeapPage \in DOMAIN heaps
  /\ stage \in {"acpi", "nullptr"} => LowIsSelf(vm) /\ Walk(vm, 0) = 0
  /\ stage \in {"regions", "low", "apic", "running"} => vm.null /\ Walk(vm, 0) = NoPage
  /\ stage = "regions" => LowIsSelf(vm)
  /\ stage \in {"low", "apic"} => \A v \in 1 .. LowPages - 1 : Walk(vm, v) \in {v, NoPage}
  /\ stage = "low" => /\ next \in Nat \ {0} /\ LowIsLost(vm, map, next - 1)
                      /\ \A k \in 1 .. next - 1 : map[k].base < OneMiB
  /\ stage = "apic" => LowIsLost(vm, map, Len(map))
  /\ stage = "running" => Walk(vm, 1) = LapicFrame /\ Walk(vm, 2) \in Ioapics \cap Fixed(map)

IInv ==
  /\ \E m \in Machines : map = m.map /\ acpi = [rsdps |-> m.rsdps, tables |-> m.tables]
  /\ stage \in Steps \cup {"running", "halted"}
  /\ apic.isReady \in BOOLEAN
  /\ apic.isReady = TRUE => \E j \in DOMAIN acpi.rsdps :
                             apic.ioapic \in IoapicsOf(acpi.tables[acpi.rsdps[j]])
  /\ stage \in {"memory", "acpi", "nullptr", "regions"} => mapAt \in MapPages
  /\ stage = "low" => mapAt = HeapPage
  /\ IF stage = "memory" THEN FirstStage ELSE LaterStage
------------------------------------------------------------------------------
(***************************************************************************)
(* The boot tables are a layout.                                           *)
(***************************************************************************)
LEMMA DivUnique ==
  ASSUME NEW n \in Nat, NEW a \in Nat, NEW b \in Nat, NEW x \in 0 .. n - 1,
         NEW y \in 0 .. n - 1, n * a + x = n * b + y
  PROVE  a = b /\ x = y
<1>1. ASSUME NEW i \in Nat, NEW j \in Nat, i < j PROVE n * i + n <= n * j
  <2>1. n * (i + 1) <= n * j
    BY <1>1
  <2>. QED  BY <2>1
<1>2. n * a \in Nat /\ n * b \in Nat
  OBVIOUS
<1>3. ~(a < b) /\ ~(b < a)
  BY <1>1, <1>2
<1>. QED  BY <1>2, <1>3

LEMMA TableBounds ==
  ASSUME NEW n \in Nat, 0 < n, NEW v \in Nat, NEW lo \in Nat, NEW hi \in Nat,
         n * lo <= v, v < n * hi
  PROVE  lo <= v \div n /\ v \div n < hi
<1>1. v \div n \in Nat /\ v % n \in 0 .. n - 1 /\ v = n * (v \div n) + (v % n)
  BY DivMod
<1>2. ASSUME NEW i \in Nat, NEW j \in Nat, i < j PROVE n * i + n <= n * j
  <2>1. n * (i + 1) <= n * j
    BY <1>2
  <2>. QED  BY <2>1
<1>3. n * lo \in Nat /\ n * hi \in Nat /\ n * (v \div n) \in Nat
  BY <1>1
<1>4. ~(v \div n < lo)
  BY <1>1, <1>2, <1>3
<1>5. ~(hi <= v \div n)
  <2>1. hi = v \div n \/ hi < v \div n \/ v \div n < hi
    BY <1>1
  <2>. QED  BY <1>1, <1>2, <1>3, <2>1
<1>. QED  BY <1>1, <1>4, <1>5

\* A page is the entry Pte(v) of the table Pde(v).
LEMMA PageIs ==
  ASSUME NEW v \in Nat
  PROVE  Pde(v) \in Nat /\ Pte(v) \in Idx /\ v = Fan * Pde(v) + Pte(v)
<1>1. Fan \in Nat /\ 0 < Fan
  BY VirtMemAssumption
<1>. QED  BY <1>1, DivMod DEF Pde, Pte, Idx

\* The numbers of the layout, with the kernel's first page Fan * KernelPde + KernelPte.
LEMMA BootNumbers ==
  /\ Fan \in Nat /\ 2 <= Fan /\ Rec = Fan - 1 /\ Rec \in Nat
  /\ LowPages \in Nat /\ HhkEnd \in Nat /\ KernelEnd \in Nat /\ KernelBase \in Nat
  /\ 8 <= LowPages /\ LowPages < HhkEnd /\ HhkEnd < KernelEnd /\ HhkEnd + 4 <= Fan
  /\ KernelEnd <= NFrames /\ NFrames \in Nat /\ Frames = 0 .. NFrames - 1
  /\ PageDir \in Nat /\ HhkEnd <= PageDir /\ PageDir + 5 < KernelEnd
  /\ KernelPages = KernelEnd - HhkEnd /\ HeapPage = KernelBase + KernelEnd
  /\ KernelPde \in Nat /\ KernelPte \in Nat /\ KernelPte < Fan
  /\ KernelBase + HhkEnd = Fan * KernelPde + KernelPte
  /\ 0 < KernelPde /\ KernelTables \in 1 .. 4 /\ KernelPde + KernelTables <= Rec
  /\ Fan * (KernelTables - 1) < KernelPages
  /\ MaxPages \in Nat /\ InitPages \in Nat \ {0} /\ InitPages <= MaxPages
  /\ HeapPage + MaxPages <= Fan * (KernelPde + KernelTables)
  /\ NoPage = -1
<1>1. /\ Fan \in Nat /\ 2 <= Fan /\ Rec = Fan - 1 /\ Rec \in Nat
      /\ LowPages \in Nat /\ HhkEnd \in Nat /\ KernelEnd \in Nat /\ KernelBase \in Nat
      /\ LowPages < HhkEnd /\ HhkEnd < KernelEnd /\ NoPage = -1
      /\ NFrames \in Nat /\ Frames = 0 .. NFrames - 1
      /\ KernelPages = KernelEnd - HhkEnd /\ HeapPage = KernelBase + KernelEnd
  BY KernelMemAssumption, VirtMemAssumption, PhysMemAssumption
     DEF Rec, NoPage, Frames, KernelPages, HeapPage
<1>2. /\ PageDir \in Nat /\ HhkEnd <= PageDir /\ PageDir + 5 < KernelEnd
      /\ 8 <= LowPages /\ HhkEnd + 4 <= Fan /\ KernelEnd <= NFrames
  BY <1>1, KernelMemAssumption, LayoutAssumption
<1>3. /\ KernelPde \in Nat /\ KernelPte \in Nat /\ KernelPte < Fan
      /\ KernelBase + HhkEnd = Fan * KernelPde + KernelPte
  <2>1. KernelBase + HhkEnd \in Nat
    BY <1>1
  <2>2. /\ Pde(KernelBase + HhkEnd) \in Nat /\ Pte(KernelBase + HhkEnd) \in Idx
        /\ KernelBase + HhkEnd = Fan * Pde(KernelBase + HhkEnd) + Pte(KernelBase + HhkEnd)
    BY <2>1, PageIs
  <2>. QED  BY <1>1, <2>2 DEF KernelPde, KernelPte, Idx
<1>4. 0 < KernelPde /\ KernelTables <= 4 /\ KernelPde + KernelTables <= Rec
  BY LayoutAssumption
<1>5. KernelTables \in Nat /\ 1 <= KernelTables /\ Fan * (KernelTables - 1) < KernelPages
  <2> DEFINE a == KernelPages + Fan - 1
             q == a \div Fan
  <2>1. a \in Nat /\ 0 < Fan /\ KernelPages \in Nat /\ 1 <= KernelPages
    BY <1>1
  <2>2. q \in Nat /\ a % Fan \in 0 .. Fan - 1 /\ a = Fan * q + (a % Fan)
    BY <1>1, <2>1, DivMod
  <2>3. KernelTables = q
    BY DEF KernelTables, CeilDiv
  <2>. HIDE DEF q
  <2>4. Fan * (q - 1) = Fan * q - Fan /\ Fan * q \in Nat
    BY <1>1, <2>2
  <2>5. q # 0
    <3>1. Fan * 0 = 0
      BY <1>1
    <3>. QED  BY <1>1, <2>1, <2>2, <3>1
  <2>. QED  BY <1>1, <2>1, <2>2, <2>3, <2>4, <2>5
<1>6. /\ MaxPages \in Nat /\ InitPages \in Nat \ {0} /\ InitPages <= MaxPages
      /\ HeapPage + MaxPages <= Fan * (KernelPde + KernelTables)
  <2>1. /\ MaxPages \in Nat /\ InitPages \in Nat \ {0} /\ InitPages <= MaxPages
        /\ HeapPage + MaxPages <= (KernelPde + KernelTables) * Fan + 0
    BY KernelMemSpecAssumption, LayoutAssumption DEF PageOf
  <2>2. (KernelPde + KernelTables) * Fan + 0 = Fan * (KernelPde + KernelTables)
    BY <1>1, <1>3, <1>5
  <2>. QED  BY <2>1, <2>2
<1>. QED  BY <1>1, <1>2, <1>3, <1>4, <1>5, <1>6

LEMMA LayoutParts ==
  /\ Dirs(Layout) = {0} \cup KernelPde .. KernelPde + KernelTables - 1
  /\ \A d \in Dirs(Layout) : Layout.table[d] = BootPde(d)
  /\ Layout.pinned = (LowPages .. HhkEnd - 1) \cup KernelRun
  /\ Layout.kernel = KernelRun
BY DEF Layout, Dirs

\* The directory's entries: the tables follow the directory in the kernel's image.
LEMMA BootTables ==
  /\ BootPde(0) = PageDir + 1 /\ BootPde(Rec) = PageDir
  /\ \A d \in KernelPde .. KernelPde + KernelTables - 1 :
       BootPde(d) = PageDir + 1 + (d - KernelPde + 1) /\ BootPde(d) \in PageDir + 2 .. PageDir + 5
  /\ \A d \in Idx \ Dirs(Layout) : d # Rec => BootPde(d) = NoPage
  /\ TablesOf(Layout) \subseteq HhkEnd .. KernelEnd - 1
<1>1. BootPde(0) = PageDir + 1 /\ BootPde(Rec) = PageDir
  BY BootNumbers DEF BootPde, TableFrame
<1>2. ASSUME NEW d \in KernelPde .. KernelPde + KernelTables - 1
      PROVE  BootPde(d) = PageDir + 1 + (d - KernelPde + 1) /\ BootPde(d) \in PageDir + 2 .. PageDir + 5
  <2>1. d # Rec /\ d # 0
    BY BootNumbers
  <2>. QED  BY <2>1, BootNumbers DEF BootPde, TableFrame
<1>3. \A d \in Idx \ Dirs(Layout) : d # Rec => BootPde(d) = NoPage
  BY LayoutParts DEF BootPde
<1>4. TablesOf(Layout) \subseteq HhkEnd .. KernelEnd - 1
  <2>1. TablesOf(Layout) = {PageDir} \cup {BootPde(d) : d \in Dirs(Layout)}
    BY LayoutParts DEF TablesOf
  <2>2. ASSUME NEW d \in Dirs(Layout) PROVE BootPde(d) \in HhkEnd .. KernelEnd - 1
    <3>1. d = 0 \/ d \in KernelPde .. KernelPde + KernelTables - 1
      BY LayoutParts
    <3>2. PageDir + 1 \in HhkEnd .. KernelEnd - 1
          /\ PageDir + 2 .. PageDir + 5 \subseteq HhkEnd .. KernelEnd - 1
      BY BootNumbers
    <3>. QED  BY <1>1, <1>2, <3>1, <3>2
  <2>3. PageDir \in HhkEnd .. KernelEnd - 1
    BY BootNumbers
  <2>. QED  BY <2>1, <2>2, <2>3
<1>. QED  BY <1>1, <1>2, <1>3, <1>4

\* The pages in whose tables the kernel is, its heap among them.
LEMMA HighPages ==
  ASSUME NEW v \in Nat, KernelBase + HhkEnd <= v, v < HeapPage + MaxPages
  PROVE  v \in UserPages /\ Pde(v) \in KernelPde .. KernelPde + KernelTables - 1 /\ Fan <= v
<1>1. Fan * KernelPde <= v /\ v < Fan * (KernelPde + KernelTables)
  BY BootNumbers
<1>2. KernelPde <= Pde(v) /\ Pde(v) < KernelPde + KernelTables
  BY <1>1, BootNumbers, TableBounds DEF Pde
<1>3. Fan <= v /\ v < Fan * Fan
  <2>1. ASSUME NEW i \in Nat, NEW j \in Nat, i <= j PROVE Fan * i <= Fan * j
    BY <2>1, BootNumbers
  <2>2. Fan * 1 <= Fan * KernelPde /\ Fan * (KernelPde + KernelTables) <= Fan * Fan
    BY <2>1, BootNumbers
  <2>3. Fan * 1 = Fan /\ Fan * KernelPde \in Nat /\ Fan * (KernelPde + KernelTables) \in Nat
        /\ Fan * Fan \in Nat
    BY BootNumbers
  <2>. QED  BY <1>1, <2>2, <2>3, BootNumbers
<1>4. Pde(v) \in Nat
  BY PageIs
<1>5. v \in Pages
  BY <1>3, BootNumbers DEF Pages
<1>. QED  BY <1>2, <1>3, <1>4, <1>5, BootNumbers DEF UserPages

LEMMA LowUserPages ==
  ASSUME NEW v \in 0 .. Fan - 1
  PROVE  v \in UserPages /\ Pde(v) = 0 /\ Pte(v) = v
<1>1. v \in Nat /\ Pde(v) \in Nat /\ Pte(v) \in 0 .. Fan - 1 /\ v = Fan * Pde(v) + Pte(v)
  BY PageIs DEF Idx
<1>2. Fan * 0 + v = Fan * Pde(v) + Pte(v)
  BY <1>1, BootNumbers
<1>3. Pde(v) = 0 /\ Pte(v) = v
  BY <1>1, <1>2, BootNumbers, DivUnique
<1>4. v < Fan * Fan
  <2>1. Fan <= Fan * Fan
    BY BootNumbers
  <2>. QED  BY <2>1, BootNumbers
<1>5. v \in Pages
  BY <1>4, BootNumbers DEF Pages
<1>. QED  BY <1>3, <1>5, BootNumbers DEF UserPages

\* Each of the kernel's tables has a page of the kernel.
LEMMA EachHasKernel ==
  ASSUME NEW d \in KernelPde .. KernelPde + KernelTables - 1
  PROVE  \E v \in KernelRun : Pde(v) = d
<1> DEFINE v == IF d = KernelPde THEN KernelBase + HhkEnd ELSE Fan * d
           k == d - KernelPde
<1>0. d \in Nat /\ k \in Nat /\ d = KernelPde + k /\ k <= KernelTables - 1
  BY BootNumbers
<1>1. CASE d = KernelPde
  <2>1. v \in KernelRun
    BY <1>1, BootNumbers DEF KernelRun
  <2>2. Pde(v) = d
    BY <1>1 DEF KernelPde
  <2>. QED  BY <2>1, <2>2
<1>2. CASE d # KernelPde
  <2>1. v = Fan * d + 0 /\ v = Fan * KernelPde + Fan * k
    BY <1>0, <1>2, BootNumbers
  <2>2. 1 <= k
    <3>1. k # 0
      BY <1>0, <1>2, BootNumbers
    <3>. QED  BY <1>0, <3>1
  <2>3. Fan * 1 <= Fan * k /\ Fan * k <= Fan * (KernelTables - 1)
    <3>1. ASSUME NEW i \in Nat, NEW j \in Nat, i <= j PROVE Fan * i <= Fan * j
      BY <3>1, BootNumbers
    <3>2. KernelTables - 1 \in Nat
      BY BootNumbers
    <3>. QED  BY <1>0, <2>2, <3>1, <3>2
  <2>4. /\ Fan * 1 = Fan /\ Fan * k \in Nat /\ Fan * KernelPde \in Nat
        /\ Fan * (KernelTables - 1) \in Nat
    BY <1>0, BootNumbers
  <2>5. v \in KernelRun /\ v \in Nat
    BY <2>1, <2>3, <2>4, BootNumbers DEF KernelRun
  <2>6. Pde(v) = d
    <3>1. /\ Pde(v) \in Nat /\ Pte(v) \in 0 .. Fan - 1 /\ v = Fan * Pde(v) + Pte(v)
      BY <2>5, PageIs DEF Idx
    <3>2. 0 \in 0 .. Fan - 1
      BY BootNumbers
    <3>. HIDE DEF v
    <3>. QED  BY <1>0, <2>1, <3>1, <3>2, BootNumbers, DivUnique
  <2>. QED  BY <2>5, <2>6
<1>. QED  BY <1>1, <1>2

LEMMA KernelLayout == IsLayout(Layout)
<1>1. Dirs(Layout) \subseteq Idx \ {Rec} /\ 0 \in Dirs(Layout)
  BY BootNumbers, LayoutParts DEF Idx
<1>2. \A d \in Dirs(Layout) : Layout.table[d] \in Frames \ {PageDir}
  <2>1. PageDir + 1 \in Frames \ {PageDir} /\ PageDir + 2 .. PageDir + 5 \subseteq Frames \ {PageDir}
    BY BootNumbers
  <2>2. \A d \in Dirs(Layout) : BootPde(d) \in {PageDir + 1} \cup PageDir + 2 .. PageDir + 5
    BY BootTables, LayoutParts
  <2>. QED  BY <2>1, <2>2, LayoutParts
<1>3. \A d, e \in Dirs(Layout) : Layout.table[d] = Layout.table[e] => d = e
  <2>1. ASSUME NEW d \in Dirs(Layout), NEW e \in Dirs(Layout), BootPde(d) = BootPde(e)
        PROVE  d = e
    <3>1. d \in {0} \cup KernelPde .. KernelPde + KernelTables - 1
          /\ e \in {0} \cup KernelPde .. KernelPde + KernelTables - 1
      BY LayoutParts
    <3>2. \A a \in KernelPde .. KernelPde + KernelTables - 1 : BootPde(a) # BootPde(0)
      BY BootNumbers, BootTables
    <3>3. CASE d = 0 \/ e = 0
      BY <2>1, <3>1, <3>2, <3>3
    <3>4. CASE d # 0 /\ e # 0
      <4>1. PageDir + 1 + (d - KernelPde + 1) = PageDir + 1 + (e - KernelPde + 1)
        BY <2>1, <3>1, <3>4, BootTables
      <4>. QED  BY <3>1, <3>4, <4>1, BootNumbers
    <3>. QED  BY <3>3, <3>4
  <2>. QED  BY <2>1, LayoutParts
<1>4. /\ \A v \in LowPages .. HhkEnd - 1 : v \in UserPages \ {0} /\ Pde(v) = 0
      /\ LowPages \in LowPages .. HhkEnd - 1
  <2>1. \A v \in LowPages .. HhkEnd - 1 : v \in 0 .. Fan - 1 /\ v # 0
    BY BootNumbers
  <2>. QED  BY <2>1, BootNumbers, LowUserPages
<1>5. \A v \in KernelRun :
        v \in UserPages \ {0} /\ Pde(v) \in KernelPde .. KernelPde + KernelTables - 1
  <2>1. \A v \in KernelRun : v \in Nat /\ KernelBase + HhkEnd <= v /\ v < HeapPage + MaxPages
                             /\ v # 0
    BY BootNumbers DEF KernelRun
  <2>. QED  BY <2>1, HighPages
<1>6. Layout.pinned \subseteq UserPages \ {0} /\ Layout.kernel \subseteq Layout.pinned
  BY <1>4, <1>5, LayoutParts
<1>7. \A v \in Layout.pinned : Pde(v) \in Dirs(Layout)
  BY <1>4, <1>5, LayoutParts
<1>8. \A d \in Dirs(Layout) : \E v \in Layout.pinned : Pde(v) = d
  BY <1>4, EachHasKernel, LayoutParts
<1>9. Pde(0) \in Dirs(Layout)
  <2>1. 0 \in 0 .. Fan - 1
    BY BootNumbers
  <2>. QED  BY <1>1, <2>1, LowUserPages
<1>. QED  BY <1>1, <1>2, <1>3, <1>6, <1>7, <1>8, <1>9 DEF IsLayout

\* What the boot tables say: low memory and the boot code are at their own addresses,
\* the kernel is at KernelBase.
LEMMA BootEntries ==
  ASSUME NEW i \in Idx
  PROVE  /\ BootPte(0, i) = IF i < HhkEnd THEN i ELSE NoPage
         /\ \A d \in KernelPde .. KernelPde + KernelTables - 1 :
              \A v \in Nat : v = Fan * d + i =>
                BootPte(d - KernelPde + 1, i) = IF v \in KernelRun THEN v - KernelBase ELSE NoPage
<1>1. BootPte(0, i) = IF i < HhkEnd THEN i ELSE NoPage
  BY DEF BootPte
<1>2. ASSUME NEW d \in KernelPde .. KernelPde + KernelTables - 1, NEW v \in Nat, v = Fan * d + i
      PROVE  BootPte(d - KernelPde + 1, i) = IF v \in KernelRun THEN v - KernelBase ELSE NoPage
  <2> DEFINE j == d - KernelPde
             n == j * Fan + i - KernelPte
  <2>1. j \in Nat /\ d = KernelPde + j /\ d - KernelPde + 1 # 0 /\ (d - KernelPde + 1) - 1 = j
    BY BootNumbers
  <2>2. i \in Nat /\ j * Fan = Fan * j /\ Fan * j \in Nat /\ Fan * d = Fan * KernelPde + Fan * j
    BY <2>1, BootNumbers DEF Idx
  <2>3. BootPte(d - KernelPde + 1, i) = IF n \in 0 .. KernelPages - 1 THEN HhkEnd + n ELSE NoPage
    BY <2>1 DEF BootPte
  <2>4. Fan * KernelPde \in Nat
    BY BootNumbers
  <2> DEFINE a == Fan * KernelPde
             b == Fan * j
  <2>5. n = b + i - KernelPte /\ v = a + b + i /\ KernelBase + HhkEnd = a + KernelPte
        /\ a \in Nat /\ b \in Nat
    BY <1>2, <2>2, <2>4, BootNumbers
  <2>. HIDE DEF n, a, b
  <2>6. n \in Int /\ v \in Nat /\ n = v - (KernelBase + HhkEnd)
    BY <2>2, <2>5, BootNumbers
  <2>7. n \in 0 .. KernelPages - 1 <=> v \in KernelRun
    BY <2>6, BootNumbers DEF KernelRun
  <2>8. HhkEnd + n = v - KernelBase
    BY <2>6, BootNumbers
  <2> DEFINE e == BootPte(d - KernelPde + 1, i)
  <2>9. e = IF n \in 0 .. KernelPages - 1 THEN HhkEnd + n ELSE NoPage
    BY <2>3
  <2>. HIDE DEF e
  <2>10. e = IF v \in KernelRun THEN v - KernelBase ELSE NoPage
    BY <2>7, <2>8, <2>9
  <2>. QED  BY <2>10 DEF e
<1>. QED  BY <1>1, <1>2

LEMMA BootTypes ==
  ASSUME NEW q \in PMType
  PROVE  Booted(q) \in VMType /\ KernelPageInit \in [Frames -> Tables]
<1>1. NoPage \in Entries /\ Frames \subseteq Entries
  BY DEF Entries
<1>2. ASSUME NEW i \in Idx PROVE BootPde(i) \in Entries
  <2>1. PageDir \in Frames /\ PageDir + 1 \in Frames
        /\ \A f \in PageDir + 2 .. PageDir + 5 : f \in Frames
    BY BootNumbers
  <2>2. i = Rec \/ i \in Dirs(Layout) \/ (i # Rec /\ i \in Idx \ Dirs(Layout))
    OBVIOUS
  <2>3. i \in Dirs(Layout) => i = 0 \/ i \in KernelPde .. KernelPde + KernelTables - 1
    BY LayoutParts
  <2>. QED  BY <1>1, <2>1, <2>2, <2>3, BootTables
<1>3. ASSUME NEW k \in 0 .. 4, NEW i \in Idx PROVE BootPte(k, i) \in Entries
  <2>1. i < HhkEnd => i \in Frames
    BY BootNumbers DEF Idx
  <2>2. \A n \in 0 .. KernelPages - 1 : HhkEnd + n \in Frames
    BY BootNumbers
  <2>. QED  BY <1>1, <2>1, <2>2 DEF BootPte
<1>4. ASSUME NEW f \in Frames PROVE KernelPageInit[f] \in Tables
  <2>1. f \in TableFrame(0) .. TableFrame(4) => f - TableFrame(0) \in 0 .. 4
    BY BootNumbers DEF TableFrame
  <2>2. KernelPageInit[f] = [i \in Idx |-> IF f = PageDir THEN BootPde(i)
                               ELSE IF f \in TableFrame(0) .. TableFrame(4)
                                    THEN BootPte(f - TableFrame(0), i) ELSE NoPage]
    BY DEF KernelPageInit
  <2>3. \A i \in Idx : KernelPageInit[f][i] \in Entries
    BY <1>1, <1>2, <1>3, <2>1, <2>2
  <2>. QED  BY <2>2, <2>3 DEF Tables
<1>5. KernelPageInit \in [Frames -> Tables]
  <2>1. KernelPageInit = [f \in Frames |-> KernelPageInit[f]]
    BY DEF KernelPageInit
  <2>. QED  BY <1>4, <2>1
<1>6. [v \in Pages |-> NoPage] \in [Pages -> Entries]
  BY <1>1
<1>. QED  BY <1>5, <1>6 DEF Booted, VMType

LEMMA BootWalks ==
  ASSUME NEW q, NEW v \in UserPages
  PROVE  Walk(Booted(q), v) = IF v < HhkEnd THEN v
                              ELSE IF v \in KernelRun THEN v - KernelBase ELSE NoPage
<1> DEFINE d == Pde(v)
           i == Pte(v)
           mem == KernelPageInit
<1>1. v \in Nat /\ d \in Idx \ {Rec} /\ i \in Idx /\ v = Fan * d + i /\ d \in Nat /\ i \in Nat
  <2>1. v \in Nat
    BY BootNumbers DEF UserPages, Pages
  <2>. QED  BY <2>1, PageIs, PageIndices DEF UserPages, Idx
<1>2. \A f \in Frames, j \in Idx :
        mem[f][j] = IF f = PageDir THEN BootPde(j)
                    ELSE IF f \in TableFrame(0) .. TableFrame(4)
                         THEN BootPte(f - TableFrame(0), j) ELSE NoPage
  BY DEF KernelPageInit
<1>3. PageDir \in Frames /\ NoPage \notin Frames
  BY BootNumbers
<1>4. mem[PageDir][d] = BootPde(d)
  BY <1>1, <1>2, <1>3
<1>5. Walk(Booted(q), v) = IF BootPde(d) = NoPage THEN NoPage ELSE mem[BootPde(d)][i]
  <2>1. Booted(q).mem = mem
    BY DEF Booted
  <2>. QED  BY <1>4, <2>1 DEF Walk
<1>. HIDE DEF d, i, mem
<1>6. v < Fan => d = 0 /\ i = v
  <2>1. v < Fan => v \in 0 .. Fan - 1
    BY <1>1, BootNumbers
  <2>. QED  BY <2>1, LowUserPages DEF d, i
<1>7. v \in KernelRun => d \in KernelPde .. KernelPde + KernelTables - 1 /\ Fan <= v
  <2>1. v \in KernelRun => KernelBase + HhkEnd <= v /\ v < HeapPage + MaxPages
    BY <1>1, BootNumbers DEF KernelRun
  <2>. QED  BY <1>1, <2>1, HighPages DEF d
<1>8. CASE d = 0
  <2>1. v = i /\ v < Fan
    <3>1. Fan * 0 = 0 /\ i < Fan
      BY <1>1, BootNumbers DEF Idx
    <3>. QED  BY <1>1, <1>8, <3>1
  <2>2. v \notin KernelRun
    BY <1>7, <1>8, BootNumbers
  <2>3. /\ BootPde(d) = TableFrame(0) /\ TableFrame(0) # PageDir /\ TableFrame(0) \in Frames
        /\ TableFrame(0) \in TableFrame(0) .. TableFrame(4) /\ TableFrame(0) - TableFrame(0) = 0
        /\ TableFrame(0) # NoPage
    BY <1>8, BootNumbers, BootTables DEF TableFrame
  <2>4. mem[BootPde(d)][i] = BootPte(0, i)
    BY <1>1, <1>2, <2>3
  <2>. QED  BY <1>1, <1>5, <2>1, <2>2, <2>3, <2>4, BootEntries
<1>9. CASE d \in KernelPde .. KernelPde + KernelTables - 1
  <2> DEFINE k == d - KernelPde + 1
             f == PageDir + 1 + k
  <2>1. BootPde(d) = f /\ f \in PageDir + 2 .. PageDir + 5
    BY <1>9, BootTables
  <2>2. /\ f # PageDir /\ f \in Frames /\ f \in TableFrame(0) .. TableFrame(4)
        /\ f - TableFrame(0) = k /\ f # NoPage
    BY <1>9, <2>1, BootNumbers DEF TableFrame
  <2>3. mem[BootPde(d)][i] = BootPte(k, i)
    BY <1>1, <1>2, <2>1, <2>2
  <2>4. ~(v < HhkEnd)
    BY <1>1, <1>6, <1>9, BootNumbers
  <2>. HIDE DEF f
  <2>5. mem[BootPde(d)][i] = IF v \in KernelRun THEN v - KernelBase ELSE NoPage
    <3>1. BootPte(k, i) = IF v \in KernelRun THEN v - KernelBase ELSE NoPage
      BY <1>1, <1>9, BootEntries
    <3>. HIDE DEF k
    <3>. QED  BY <2>3, <3>1
  <2>. QED  BY <1>5, <2>1, <2>2, <2>4, <2>5
<1>10. CASE d # 0 /\ d \notin KernelPde .. KernelPde + KernelTables - 1
  <2>1. BootPde(d) = NoPage
    BY <1>1, <1>10, BootTables, LayoutParts
  <2>2. v \notin KernelRun /\ ~(v < HhkEnd)
    BY <1>1, <1>6, <1>7, <1>10, BootNumbers
  <2>. QED  BY <1>5, <2>1, <2>2
<1>. QED  BY <1>8, <1>9, <1>10

\* Once the tables are marked as used, the boot tables are good.
LEMMA BootGood ==
  ASSUME NEW q \in PMType, TablesOf(Layout) \subseteq q.used
  PROVE  Good(Layout, Booted(q))
<1> DEFINE s == Booted(q)
<1>1. s \in VMType /\ s.pm = q /\ s.tlb = [v \in Pages |-> NoPage] /\ s.mem = KernelPageInit
  BY BootTypes DEF Booted
<1>2. s.mem[PageDir] = Directory(Layout)
  <2>1. KernelPageInit[PageDir] = [i \in Idx |-> BootPde(i)]
    BY VirtMemAssumption DEF KernelPageInit
  <2>2. \A i \in Idx : BootPde(i) = IF i = Rec THEN PageDir
                                    ELSE IF i \in Dirs(Layout) THEN Layout.table[i] ELSE NoPage
    BY BootTables, LayoutParts
  <2>. QED  BY <1>1, <2>1, <2>2 DEF Directory
<1>3. \A v \in UserPages \ Layout.kernel : Walk(s, v) \notin TablesOf(Layout)
  <2>1. \A v \in UserPages \ KernelRun : Walk(s, v) \notin HhkEnd .. KernelEnd - 1
    <3>1. NoPage \notin HhkEnd .. KernelEnd - 1
      BY BootNumbers
    <3>2. \A v \in UserPages : v < HhkEnd => v \notin HhkEnd .. KernelEnd - 1
      BY BootNumbers
    <3>. HIDE DEF s
    <3>. QED  BY <3>1, <3>2, BootWalks DEF s
  <2>. QED  BY <2>1, BootTables, LayoutParts
<1>4. \A v \in Pages : s.tlb[v] \in {NoPage, Walk(s, v)}
  BY <1>1
<1>5. \A v \in Layout.pinned : Walk(s, v) # NoPage
  <2>1. \A v \in Layout.pinned : v \in UserPages
    BY KernelLayout, LayoutFacts
  <2>2. \A v \in LowPages .. HhkEnd - 1 : v < HhkEnd /\ v # NoPage
    BY BootNumbers
  <2>3. \A v \in KernelRun : ~(v < HhkEnd) /\ v - KernelBase # NoPage
    <3>1. \A v \in KernelRun : v \in Nat /\ KernelBase + HhkEnd <= v
      BY BootNumbers DEF KernelRun
    <3>. QED  BY <3>1, BootNumbers
  <2>. HIDE DEF s
  <2>. QED  BY <2>1, <2>2, <2>3, BootWalks, LayoutParts DEF s
<1>. HIDE DEF s
<1>. QED  BY <1>1, <1>2, <1>3, <1>4, <1>5 DEF Good, s
------------------------------------------------------------------------------
(***************************************************************************)
(* The memory map, and what is marked for it in the bitmap.                *)
(***************************************************************************)
LEMMA Scaled ==
  ASSUME NEW a \in Nat, NEW b \in Nat
  PROVE  /\ a * PageSize \in Nat
         /\ a <= b => a * PageSize <= b * PageSize
         /\ a < b => a * PageSize + PageSize <= b * PageSize
<1>1. PageSize \in Nat
  BY KernelMemAssumption
<1>2. a < b => (a + 1) * PageSize <= b * PageSize
  BY <1>1
<1>. QED  BY <1>1, <1>2

\* DRAM reaches from OneMiB up to some place in the frame Top.
LEMMA MapFacts ==
  ASSUME NEW m, MapIsSound(m), \E i \in DOMAIN m : IsDram(m[i])
  PROVE  /\ Len(m) \in Nat /\ DOMAIN m = 1 .. Len(m)
         /\ \A i \in DOMAIN m : m[i].base \in Nat /\ m[i].size \in Nat /\ m[i].type \in Nat
         /\ \E i \in DOMAIN m : Dram(m) = m[i] /\ m[i].base = OneMiB /\ m[i].type = 1
         /\ Top(m) \in Nat /\ KernelEnd <= Top(m) /\ Top(m) < NFrames
         /\ Top(m) * PageSize <= Dram(m).size + OneMiB
         /\ Dram(m).size + OneMiB < Top(m) * PageSize + PageSize
         /\ Dram(m).base = OneMiB /\ OneMiB = LowPages * PageSize
<1> DEFINE T == [base : Nat, size : Nat, type : Nat]
           D == {i \in DOMAIN m : IsDram(m[i])}
           r == Dram(m)
<1>1. Len(m) \in Nat /\ DOMAIN m = 1 .. Len(m) /\ \A i \in DOMAIN m : m[i] \in T
  <2>1. m \in Seq(T)
    BY DEF MapIsSound
  <2>. HIDE DEF T
  <2>. QED  BY <2>1
<1>2. \A i \in DOMAIN m : m[i].base \in Nat /\ m[i].size \in Nat /\ m[i].type \in Nat
  BY <1>1
<1>3. Min(D) \in D
  <2>1. D \subseteq Nat /\ D # {}
    BY <1>1
  <2>. HIDE DEF D
  <2>. QED  BY <2>1, MinOfNaturals
<1>4. r = m[Min(D)] /\ r.type = 1 /\ r.size + OneMiB < Word /\ KernelEnd <= Top(m)
  BY DEF MapIsSound, Dram
<1>5. r.base = OneMiB /\ r.size \in Nat /\ \E i \in DOMAIN m : r = m[i]
  BY <1>2, <1>3, <1>4 DEF IsDram
<1>6. /\ PageSize \in Nat /\ 0 < PageSize /\ Word = NFrames * PageSize /\ Word \in Nat
      /\ NFrames \in Nat /\ OneMiB \in Nat
  <2>1. LowPages \in Nat
    BY BootNumbers
  <2>. QED  BY <2>1, Scaled, KernelMemAssumption, PhysMemAssumption DEF OneMiB
<1>. HIDE DEF r
<1>7. Top(m) = (r.size + OneMiB) \div PageSize
  <2>1. DramUpper(m) = (r.size + OneMiB - 1) % Word
    <3>1. ~(r.size > DramCap)
      BY <1>4, <1>5, <1>6 DEF DramCap
    <3>. QED  BY <3>1 DEF DramUpper, r
  <2>2. 1 <= OneMiB
    <3>1. 1 <= LowPages /\ LowPages \in Nat
      BY BootNumbers
    <3>2. 1 * PageSize <= LowPages * PageSize
      BY <3>1, Scaled
    <3>. QED  BY <1>6, <3>2 DEF OneMiB
  <2>3. DramUpper(m) = r.size + OneMiB - 1
    BY <1>4, <1>5, <1>6, <2>1, <2>2
  <2>4. (DramUpper(m) + 1) % Word = r.size + OneMiB
    BY <1>4, <1>5, <1>6, <2>2, <2>3
  <2>. QED  BY <2>4 DEF Top, Unusable
<1> DEFINE a == r.size + OneMiB
<1>8. a \in Nat /\ a < Word
  BY <1>4, <1>5, <1>6
<1>. HIDE DEF a
<1>9. /\ Top(m) \in Nat /\ a % PageSize \in 0 .. PageSize - 1
      /\ a = PageSize * Top(m) + (a % PageSize)
  BY <1>6, <1>7, <1>8, DivMod DEF a
<1>10. PageSize * Top(m) = Top(m) * PageSize /\ Top(m) * PageSize \in Nat
  BY <1>6, <1>9
<1>11. Top(m) * PageSize <= a /\ a < Top(m) * PageSize + PageSize
  BY <1>6, <1>8, <1>9, <1>10
<1>12. Top(m) < NFrames
  <2>1. NFrames <= Top(m) => NFrames * PageSize <= Top(m) * PageSize
    BY <1>6, <1>9, Scaled
  <2>. QED  BY <1>6, <1>8, <1>9, <1>10, <1>11, <2>1
<1>. QED  BY <1>1, <1>2, <1>4, <1>5, <1>9, <1>11, <1>12 DEF r, a, OneMiB

\* The frames of DRAM behind the kernel are those from KernelEnd up to Top.
LEMMA FramesOfDram ==
  ASSUME NEW m, MapIsSound(m), \E i \in DOMAIN m : IsDram(m[i]), NEW f \in Nat
  PROVE  /\ f \in LowPages .. Top(m) - 1 => InRegion(f, Dram(m))
         /\ InRegion(f, Dram(m)) => f < Top(m)
<1>1. /\ Top(m) \in Nat /\ LowPages \in Nat
      /\ Top(m) * PageSize <= Dram(m).size + OneMiB /\ Dram(m).size + OneMiB < Top(m) * PageSize + PageSize
      /\ Dram(m).base = OneMiB /\ OneMiB = LowPages * PageSize /\ Dram(m).size \in Nat
  BY MapFacts, BootNumbers
<1>2. Top(m) * PageSize \in Nat /\ LowPages * PageSize \in Nat /\ f + 1 \in Nat
      /\ f * PageSize \in Nat /\ (f + 1) * PageSize \in Nat
  BY <1>1, Scaled
<1>3. ASSUME f \in LowPages .. Top(m) - 1 PROVE InRegion(f, Dram(m))
  <2>1. LowPages <= f /\ f + 1 <= Top(m)
    BY <1>1, <1>3
  <2>2. LowPages * PageSize <= f * PageSize /\ (f + 1) * PageSize <= Top(m) * PageSize
    BY <1>1, <1>2, <2>1, Scaled
  <2>. QED  BY <1>1, <1>2, <2>2 DEF InRegion
<1>4. ASSUME InRegion(f, Dram(m)) PROVE f < Top(m)
  <2>1. (f + 1) * PageSize <= OneMiB + Dram(m).size
    BY <1>1, <1>4 DEF InRegion
  <2>2. Top(m) < f + 1 => Top(m) * PageSize + PageSize <= (f + 1) * PageSize
    BY <1>1, <1>2, Scaled
  <2>3. OneMiB \in Nat /\ PageSize \in Nat
    BY <1>1, <1>2, KernelMemAssumption
  <2>. QED  BY <1>1, <1>2, <2>1, <2>2, <2>3
<1>. QED  BY <1>3, <1>4

\* kernelMemInit marks what it means to.
LEMMA SectionedExactly ==
  ASSUME NEW m, MapIsSound(m), \E i \in DOMAIN m : IsDram(m[i])
  PROVE  /\ Sectioned(InitPhysMem, DramUpper(m)) \in PMType
         /\ Sectioned(InitPhysMem, DramUpper(m)).used = Reserved(m)
<1> DEFINE T == Top(m)
           low == SetSectionPageUsage(InitPhysMem, 0, LowPages, TRUE)
           kernel == SetSectionPageUsage(low, LowPages, KernelEnd - LowPages, TRUE)
           all == SetSectionPageUsage(kernel, T, NFrames - T, TRUE)
<1>1. T \in Nat /\ KernelEnd <= T /\ T < NFrames
  BY MapFacts
<1>2. InitPhysMem \in PMType /\ InitPhysMem.used = {}
  BY BootNumbers DEF InitPhysMem, PMType
<1>3. low \in PMType /\ low.used = 0 .. LowPages - 1
  <2>1. low = [InitPhysMem EXCEPT !.used = Mark(@, 0 .. 0 + LowPages - 1, TRUE)]
    <3>1. LowPages \in Nat /\ 0 + LowPages <= NFrames /\ 0 < NFrames /\ 8 - (0 % 8) <= LowPages
      BY BootNumbers
    <3>. QED  BY <1>2, <3>1, SectionWrittenExactly
  <2>2. 0 .. 0 + LowPages - 1 = 0 .. LowPages - 1 /\ 0 .. LowPages - 1 \subseteq Frames
    BY BootNumbers
  <2>. QED  BY <1>2, <2>1, <2>2 DEF PMType, Mark
<1>. HIDE DEF low
<1>4. kernel \in PMType /\ kernel.used = 0 .. KernelEnd - 1
  <2>1. kernel = [low EXCEPT !.used = Mark(@, LowPages .. LowPages + (KernelEnd - LowPages) - 1, TRUE)]
    <3>1. /\ LowPages \in Nat /\ KernelEnd - LowPages \in Nat
          /\ LowPages + (KernelEnd - LowPages) <= NFrames /\ LowPages < NFrames
          /\ 8 - (LowPages % 8) <= KernelEnd - LowPages
      BY BootNumbers, LayoutAssumption
    <3>. QED  BY <1>3, <3>1, SectionWrittenExactly
  <2>2. /\ (0 .. LowPages - 1) \cup (LowPages .. LowPages + (KernelEnd - LowPages) - 1) =
             0 .. KernelEnd - 1
        /\ 0 .. KernelEnd - 1 \subseteq Frames
    BY BootNumbers
  <2>. QED  BY <1>3, <2>1, <2>2 DEF PMType, Mark
<1>. HIDE DEF kernel
<1>5. all \in PMType /\ all.used = Reserved(m)
  <2>1. all = [kernel EXCEPT !.used = Mark(@, T .. T + (NFrames - T) - 1, TRUE)]
    <3>1. /\ NFrames - T \in Nat /\ T + (NFrames - T) <= NFrames
          /\ 8 - (T % 8) <= NFrames - T
      BY <1>1, PhysMemAssumption
    <3>. QED  BY <1>1, <1>4, <3>1, SectionWrittenExactly
  <2>2. /\ T .. T + (NFrames - T) - 1 = T .. NFrames - 1
        /\ T .. NFrames - 1 \subseteq Frames
    BY <1>1, BootNumbers
  <2>. QED  BY <1>4, <2>1, <2>2 DEF PMType, Mark, Reserved
<1>6. Sectioned(InitPhysMem, DramUpper(m)) = all
  BY DEF Sectioned, Top, low, kernel
<1>. QED  BY <1>5, <1>6

\* The frames that are freed for a region.
LEMMA FreedFacts ==
  ASSUME NEW m, MapIsSound(m), \E i \in DOMAIN m : IsDram(m[i]),
         NEW k \in DOMAIN m, IsFreed(m[k])
  PROVE  /\ FirstFreed(m[k]) \in Nat /\ PagesFreed(m[k]) \in Nat
         /\ FirstFreed(m[k]) < NFrames /\ FirstFreed(m[k]) + PagesFreed(m[k]) <= NFrames
         /\ 8 - (FirstFreed(m[k]) % 8) <= PagesFreed(m[k])
         /\ FreedFor(m[k]) \subseteq Frames \ (LowPages .. Top(m) - 1)
         /\ FreedFor(m[k]) \subseteq AllFreed(m)
<1> DEFINE a == FirstFreed(m[k])
           n == PagesFreed(m[k])
<1>1. m[k].base \in Nat /\ m[k].size \in Nat /\ PageSize \in Nat /\ 0 < PageSize
  BY MapFacts, KernelMemAssumption
<1>2. a \in Nat
  <2>1. m[k].base + PageSize - 1 \in Nat
    BY <1>1
  <2>. QED  BY <1>1, <2>1, DivMod DEF FirstFreed, CeilDiv
<1>3. n \in Nat
  BY <1>1, DivMod, BootNumbers DEF PagesFreed
<1>4. 8 - (a % 8) <= n /\ a .. a + n - 1 \subseteq Frames \ (LowPages .. Top(m) - 1)
  BY DEF MapIsSound, FreedFor
<1>5. FreedFor(m[k]) = a .. a + n - 1 /\ FreedFor(m[k]) \subseteq AllFreed(m)
  BY DEF FreedFor, AllFreed
<1>. HIDE DEF a, n
<1>6. 1 <= n
  BY <1>2, <1>3, <1>4
<1>7. a \in Frames /\ a + n - 1 \in Frames
  BY <1>2, <1>3, <1>4, <1>6
<1>8. a < NFrames /\ a + n <= NFrames
  BY <1>2, <1>3, <1>7, BootNumbers
<1>. QED  BY <1>2, <1>3, <1>4, <1>5, <1>8 DEF a, n

\* What is freed lies outside the kernel and the rest of DRAM, in memory.
LEMMA AllFreedFacts ==
  ASSUME NEW m, MapIsSound(m), \E i \in DOMAIN m : IsDram(m[i]), NEW f \in AllFreed(m)
  PROVE  /\ f \in Frames \ (LowPages .. Top(m) - 1)
         /\ \E i \in DOMAIN m : m[i].type = 1 /\ InRegion(f, m[i])
         /\ \E i \in DOMAIN m : IsFreed(m[i]) /\ f \in FreedFor(m[i])
<1>1. PICK k \in DOMAIN m : IsFreed(m[k]) /\ f \in FreedFor(m[k])
  BY DEF AllFreed
<1>2. f \in Frames \ (LowPages .. Top(m) - 1)
  BY <1>1, FreedFacts
<1>3. InRegion(f, m[k]) /\ m[k].type = 1
  BY <1>1 DEF MapIsSound, IsFreed
<1>. QED  BY <1>1, <1>2, <1>3

\* The tables, and what else of the kernel is below Top, stay marked.
LEMMA RegionFreed ==
  ASSUME NEW m, MapIsSound(m), \E i \in DOMAIN m : IsDram(m[i]), NEW k \in DOMAIN m,
         NEW s, Good(Layout, s)
  PROVE  LET t == FreeRegion(s, m[k])
         IN  /\ Good(Layout, t) /\ t.null = s.null
             /\ \A w \in UserPages : Walk(t, w) = Walk(s, w)
             /\ \E F \in SUBSET AllFreed(m) : t.pm.used = s.pm.used \ F
<1>1. CASE ~IsFreed(m[k])
  <2>1. FreeRegion(s, m[k]) = s
    BY <1>1 DEF FreeRegion
  <2>. QED  BY <2>1
<1>2. CASE IsFreed(m[k])
  <2> DEFINE a == FirstFreed(m[k])
             n == PagesFreed(m[k])
             q == SetSectionPageUsage(s.pm, a, n, FALSE)
  <2>1. s.pm \in PMType /\ TablesOf(Layout) \subseteq s.pm.used
    BY DEF Good, VMType
  <2>2. q = [s.pm EXCEPT !.used = Mark(@, a .. a + n - 1, FALSE)]
    BY <1>2, <2>1, FreedFacts, SectionWrittenExactly
  <2>3. q \in PMType /\ q.used = s.pm.used \ FreedFor(m[k])
    BY <2>1, <2>2 DEF PMType, Mark, FreedFor
  <2>4. TablesOf(Layout) \subseteq LowPages .. Top(m) - 1
    <3>1. Top(m) \in Nat /\ KernelEnd <= Top(m)
      BY MapFacts
    <3>2. HhkEnd .. KernelEnd - 1 \subseteq LowPages .. Top(m) - 1
      BY <3>1, BootNumbers
    <3>. QED  BY <3>2, BootTables
  <2>5. TablesOf(Layout) \subseteq q.used
    BY <1>2, <2>1, <2>3, <2>4, FreedFacts
  <2>6. FreeRegion(s, m[k]) = [s EXCEPT !.pm = q]
    BY <1>2 DEF FreeRegion
  <2>. HIDE DEF q
  <2>7. \A w \in UserPages : w \in Pages
    BY DEF UserPages
  <2>8. FreedFor(m[k]) \in SUBSET AllFreed(m)
    BY <1>2, FreedFacts
  <2> DEFINE t == [s EXCEPT !.pm = q]
  <2>9. /\ Good(Layout, t) /\ t.pm = q /\ t.null = s.null
        /\ \A w \in Pages : Walk(t, w) = Walk(s, w)
    BY <2>3, <2>5, KernelLayout, BitmapOnly
  <2>. HIDE DEF t
  <2>. QED  BY <2>3, <2>6, <2>7, <2>8, <2>9 DEF t
<1>. QED  BY <1>1, <1>2

\* Pages that may be mapped and unmapped: low memory, and those that only heaps use.
LEMMA LoosePages ==
  /\ 1 .. LowPages - 1 \subseteq Loose(Layout)
  /\ Spare \subseteq Loose(Layout)
<1>1. ASSUME NEW v \in 1 .. Fan - 1, v < LowPages \/ HhkEnd <= v
      PROVE  v \in Loose(Layout)
  <2>1. v \in UserPages /\ Pde(v) \in Dirs(Layout)
    <3>1. v \in 0 .. Fan - 1
      BY BootNumbers
    <3>. QED  BY <3>1, KernelLayout, FirstTable
  <2>2. v \notin LowPages .. HhkEnd - 1
    BY <1>1, BootNumbers
  <2>3. v \notin KernelRun
    <3>1. \A w \in KernelRun : Fan <= w
      <4>1. \A w \in KernelRun : w \in Nat /\ KernelBase + HhkEnd <= w /\ w < HeapPage + MaxPages
        BY BootNumbers DEF KernelRun
      <4>. QED  BY <4>1, HighPages
    <3>. QED  BY <3>1, BootNumbers
  <2>4. v # 0
    BY BootNumbers
  <2>. QED  BY <2>1, <2>2, <2>3, <2>4, LayoutParts DEF Loose
<1>2. 1 .. LowPages - 1 \subseteq Loose(Layout)
  <2>1. \A v \in 1 .. LowPages - 1 : v \in 1 .. Fan - 1 /\ v < LowPages
    BY BootNumbers
  <2>. QED  BY <1>1, <2>1
<1>3. HhkEnd .. Fan - 1 \subseteq Loose(Layout)
  <2>1. \A v \in HhkEnd .. Fan - 1 : v \in 1 .. Fan - 1 /\ HhkEnd <= v
    BY BootNumbers
  <2>. QED  BY <1>1, <2>1
<1>4. ASSUME NEW v \in HeapPage .. HeapPage + MaxPages - 1
      PROVE  v \in Loose(Layout)
  <2>1. v \in Nat /\ KernelBase + HhkEnd <= v /\ v < HeapPage + MaxPages
    BY BootNumbers
  <2>2. /\ v \in UserPages /\ Pde(v) \in KernelPde .. KernelPde + KernelTables - 1
        /\ Fan <= v
    BY <2>1, HighPages
  <2>3. v # 0 /\ v \notin LowPages .. HhkEnd - 1 /\ v \notin KernelRun
    BY <2>1, <2>2, BootNumbers DEF KernelRun
  <2>. QED  BY <2>2, <2>3, LayoutParts DEF Loose
<1>. QED  BY <1>2, <1>3, <1>4 DEF Spare

\* kernelMain unmaps the pages of a region below 1 MiB, but for the first three.
LEMMA LowUnmapped ==
  ASSUME NEW m, MapIsSound(m), \E i \in DOMAIN m : IsDram(m[i]), NEW k \in DOMAIN m,
         m[k].base < OneMiB, NEW s, Good(Layout, s)
  PROVE  \E R \in SUBSET (3 .. LowPages - 1) :
           /\ Cleared(Layout, s, UnmapLow(s, m[k]), R)
           /\ IsFreed(m[k]) => \A v \in 3 .. LowPages - 1 : v \in FreedFor(m[k]) => v \in R
<1> DEFINE r == m[k]
           n == r.size \div PageSize
<1>0. Cleared(Layout, s, s, {})
  BY DEF Cleared
<1>1. CASE r.type # 1
  <2>1. UnmapLow(s, r) = s /\ ~IsFreed(r)
    BY <1>1 DEF UnmapLow, IsFreed
  <2>. QED  BY <1>0, <2>1
<1>2. CASE r.type = 1
  <2>1. r.base = 0 /\ r.size <= OneMiB /\ r.size \in Nat
    BY <1>2, MapFacts DEF MapIsSound
  <2>2. n \in Nat /\ n <= LowPages
    <3>1. PageSize \in Nat /\ 0 < PageSize /\ LowPages \in Nat
      BY KernelMemAssumption
    <3>2. n \in Nat /\ r.size % PageSize \in 0 .. PageSize - 1
          /\ r.size = PageSize * n + (r.size % PageSize)
      BY <2>1, <3>1, DivMod
    <3>. HIDE DEF n
    <3>3. LowPages < n => LowPages * PageSize + PageSize <= n * PageSize
      BY <3>1, <3>2, Scaled
    <3>4. LowPages * PageSize \in Nat /\ n * PageSize \in Nat /\ PageSize * n = n * PageSize
      BY <3>1, <3>2, Scaled
    <3>. QED  BY <2>1, <3>1, <3>2, <3>3, <3>4 DEF OneMiB
  <2>3. UnmapLow(s, r) = FoldLeft(Unmap, s, LowRun(r))
    BY <1>2 DEF UnmapLow
  <2>4. LowRun(r) = IF 3 < n THEN PageRun(3, n - 3) ELSE <<>>
    BY <2>1 DEF LowRun
  <2> DEFINE q == LowRun(r)
             l == IF 3 < n THEN n - 3 ELSE 0
  <2>5. l \in Nat /\ DOMAIN q = 1 .. l /\ \A i \in 1 .. l : q[i] = 3 + i - 1
    BY <2>2, <2>4 DEF PageRun
  <2> DEFINE R == {q[i] : i \in 1 .. l}
  <2>6. \A v \in R : v \in 3 .. LowPages - 1 /\ v \in Loose(Layout)
    <3>1. \A i \in 1 .. l : 3 + i - 1 \in 3 .. LowPages - 1 /\ 3 + i - 1 \in 1 .. LowPages - 1
      BY <2>2, BootNumbers
    <3>. QED  BY <2>5, <3>1, LoosePages
  <2>7. Cleared(Layout, s, UnmapLow(s, r), R)
    <3>1. \A i \in 1 .. l : q[i] \in Loose(Layout)
      BY <2>6
    <3>. HIDE DEF q, l
    <3>. QED  BY <2>3, <2>5, <3>1, KernelLayout, UnmapAll DEF q
  <2>8. ASSUME IsFreed(r), NEW v \in 3 .. LowPages - 1, v \in FreedFor(r)
        PROVE  v \in R
    <3>1. FirstFreed(r) = 0
      <4>1. PageSize \in Nat /\ 0 < PageSize
        BY KernelMemAssumption
      <4>2. (0 + PageSize - 1) \div PageSize = 0
        BY <4>1, Z3
      <4>. QED  BY <2>1, <4>2 DEF FirstFreed, CeilDiv
    <3>2. PagesFreed(r) \in Nat /\ PagesFreed(r) <= n
      BY <2>2, BootNumbers DEF PagesFreed
    <3>3. v < n
      BY <2>2, <2>8, <3>1, <3>2 DEF FreedFor
    <3>4. v - 2 \in 1 .. l /\ q[v - 2] = v
      BY <2>2, <2>5, <3>3
    <3>. QED  BY <3>4
  <2>. HIDE DEF R
  <2>. QED  BY <2>6, <2>7, <2>8
<1>. QED  BY <1>1, <1>2

\* Low frames are freed for regions below 1 MiB.
LEMMA LowIsFreedLow ==
  ASSUME NEW m, MapIsSound(m), \E i \in DOMAIN m : IsDram(m[i]), NEW k \in DOMAIN m,
         IsFreed(m[k]), NEW f \in FreedFor(m[k]), f < LowPages
  PROVE  m[k].base < OneMiB
<1>1. InRegion(f, m[k]) /\ f \in Frames /\ m[k].base \in Nat
  BY FreedFacts, MapFacts DEF MapIsSound
<1>2. f \in Nat /\ f + 1 \in Nat /\ LowPages \in Nat
  BY <1>1, BootNumbers
<1>3. f * PageSize + PageSize <= LowPages * PageSize /\ f * PageSize \in Nat
      /\ LowPages * PageSize \in Nat
  BY <1>2, Scaled
<1>4. PageSize \in Nat /\ 0 < PageSize
  BY KernelMemAssumption
<1>. QED  BY <1>1, <1>3, <1>4 DEF InRegion, OneMiB
------------------------------------------------------------------------------
(***************************************************************************)
(* What keeps the memory sound.                                            *)
(***************************************************************************)
LEMMA KeptFrames ==
  ASSUME NEW m, MapIsSound(m), \E i \in DOMAIN m : IsDram(m[i])
  PROVE  /\ Fixed(m) \subseteq Reserved(m) /\ Reserved(m) \subseteq Frames
         /\ AllFreed(m) \subseteq Reserved(m) /\ NoPage \notin Reserved(m)
         /\ LowPages .. KernelEnd - 1 \subseteq Fixed(m)
         /\ \A f \in 0 .. LowPages - 1 : f \in Fixed(m) \/ f \in AllFreed(m)
<1>1. Top(m) \in Nat /\ KernelEnd <= Top(m) /\ Top(m) < NFrames
  BY MapFacts
<1>2. AllFreed(m) \subseteq Frames \ (LowPages .. Top(m) - 1)
  BY AllFreedFacts
<1>3. Reserved(m) \subseteq Frames /\ NoPage \notin Reserved(m)
  BY <1>1, BootNumbers DEF Reserved
<1>4. Frames \ (LowPages .. Top(m) - 1) \subseteq Reserved(m)
  BY <1>1, BootNumbers DEF Reserved
<1>5. LowPages .. KernelEnd - 1 \subseteq Reserved(m)
      /\ LowPages .. KernelEnd - 1 \subseteq LowPages .. Top(m) - 1
      /\ 0 .. LowPages - 1 \subseteq Reserved(m)
  BY <1>1, BootNumbers DEF Reserved
<1>. QED  BY <1>2, <1>3, <1>4, <1>5 DEF Fixed

\* Pages of heaps are pages of callers.
LEMMA SoundPages ==
  ASSUME NEW s, NEW H, NEW kept, NEW m, Sound(s, H, kept, m)
  PROVE  H \subseteq UserPages /\ Good(Layout, s) /\ s.pm.used \subseteq Frames
<1>1. Good(Layout, s) /\ H \subseteq UserPages
  BY DEF Sound, Loose
<1>. QED  BY <1>1 DEF Good, VMType, PMType

LEMMA SoundTaken ==
  ASSUME NEW m, NEW s, NEW H, NEW kept, Sound(s, H, kept, m), kept \subseteq s.pm.used,
         NEW R, R \subseteq Loose(Layout) \ H, NEW t, Taken(Layout, s, t, R)
  PROVE  Sound(t, H \cup R, kept, m)
<1>1. H \subseteq UserPages \ R /\ R \subseteq UserPages
  BY SoundPages DEF Loose
<1>2. \A v \in H : Walk(t, v) = Walk(s, v) /\ Walk(t, v) \in s.pm.used \ kept
  BY <1>1 DEF Sound, Taken
<1>3. \A v \in R : Walk(t, v) \in Frames \ s.pm.used
  BY DEF Taken
<1>4. t.pm.used = s.pm.used \cup {Walk(t, w) : w \in R}
  BY DEF Taken
<1>5. \A v \in H \cup R : Walk(t, v) \in t.pm.used \ kept
  BY <1>2, <1>3, <1>4
<1>6. \A v, w \in H \cup R : Walk(t, v) = Walk(t, w) => v = w
  <2>1. \A v, w \in H : Walk(t, v) = Walk(t, w) => v = w
    BY <1>2 DEF Sound
  <2>2. \A v, w \in R : Walk(t, v) = Walk(t, w) => v = w
    BY DEF Taken
  <2>. QED  BY <1>2, <1>3, <2>1, <2>2
<1>7. \A v \in UserPages \ (H \cup R) : Walk(t, v) = Walk(s, v)
  BY DEF Taken
<1>8. \A v \in UserPages \ (H \cup R) :
        /\ Walk(t, v) \in kept \cup {NoPage}
        /\ LowPages <= v => Walk(t, v) \in (LowPages .. KernelEnd - 1) \cup {NoPage}
        /\ v \in Spare => Walk(t, v) = NoPage
  BY <1>7 DEF Sound
<1>9. Good(Layout, t) /\ H \cup R \subseteq Loose(Layout) /\ Fixed(m) \subseteq t.pm.used
  BY <1>4 DEF Sound, Taken
<1>10. t.pm.used \subseteq Reserved(m) \cup {Walk(t, v) : v \in H \cup R}
  <2>1. s.pm.used \subseteq Reserved(m) \cup {Walk(s, v) : v \in H}
    BY DEF Sound
  <2>. QED  BY <1>2, <1>4, <2>1
<1>. QED  BY <1>5, <1>6, <1>8, <1>9, <1>10 DEF Sound

LEMMA SoundReleased ==
  ASSUME NEW m, NEW s, NEW H, NEW kept, Sound(s, H, kept, m), Fixed(m) \subseteq kept,
         NEW R, R \subseteq H, NEW t, Released(Layout, s, t, R)
  PROVE  Sound(t, H \ R, kept, m)
<1>1. H \subseteq UserPages /\ R \subseteq UserPages
  BY SoundPages
<1>2. t.pm.used = s.pm.used \ {Walk(s, w) : w \in R}
  BY DEF Released
<1>3. \A v \in H \ R : Walk(t, v) = Walk(s, v) /\ \A w \in R : Walk(s, v) # Walk(s, w)
  BY <1>1 DEF Sound, Released
<1>4. \A v \in H \ R : Walk(t, v) \in t.pm.used \ kept
  BY <1>2, <1>3 DEF Sound
<1>5. \A v, w \in H \ R : Walk(t, v) = Walk(t, w) => v = w
  BY <1>3 DEF Sound
<1>6. \A v \in UserPages \ (H \ R) :
        /\ Walk(t, v) \in kept \cup {NoPage}
        /\ LowPages <= v => Walk(t, v) \in (LowPages .. KernelEnd - 1) \cup {NoPage}
        /\ v \in Spare => Walk(t, v) = NoPage
  <2>1. \A v \in R : Walk(t, v) = NoPage
    BY <1>1 DEF Released
  <2>2. \A v \in UserPages \ H : Walk(t, v) = Walk(s, v)
    BY DEF Released
  <2>. QED  BY <2>1, <2>2 DEF Sound
<1>7. Fixed(m) \subseteq t.pm.used
  <2>1. \A w \in R : Walk(s, w) \notin Fixed(m)
    BY DEF Sound
  <2>. QED  BY <1>2, <2>1 DEF Sound
<1>8. t.pm.used \subseteq Reserved(m) \cup {Walk(t, v) : v \in H \ R}
  <2>1. s.pm.used \subseteq Reserved(m) \cup {Walk(s, v) : v \in H}
    BY DEF Sound
  <2>. QED  BY <1>2, <1>3, <2>1
<1>9. Good(Layout, t) /\ H \ R \subseteq Loose(Layout)
  BY DEF Sound, Released
<1>. QED  BY <1>4, <1>5, <1>6, <1>7, <1>8, <1>9 DEF Sound

\* Pages of no heap are unmapped, or mapped below 1 MiB to what is kept, and frames
\* that are neither fixed nor of a heap are freed.
LEMMA SoundChanged ==
  ASSUME NEW m, NEW s, NEW H, NEW kept, Sound(s, H, kept, m), NEW t, Good(Layout, t),
         \A w \in UserPages : \/ Walk(t, w) = Walk(s, w)
                              \/ w \notin H /\ Walk(t, w) = NoPage
                              \/ w \notin H /\ w < LowPages /\ Walk(t, w) \in kept,
         NEW F, t.pm.used = s.pm.used \ F, F \cap Fixed(m) = {},
         \A v \in H : Walk(s, v) \notin F
  PROVE  Sound(t, H, kept, m)
<1>1. H \subseteq UserPages /\ \A v \in H : Walk(t, v) = Walk(s, v)
  BY SoundPages
<1>2. \A w \in Spare : LowPages <= w /\ w \in Int
  BY BootNumbers DEF Spare
<1>3. \A v \in UserPages \ H :
        /\ Walk(t, v) \in kept \cup {NoPage}
        /\ LowPages <= v => Walk(t, v) \in (LowPages .. KernelEnd - 1) \cup {NoPage}
        /\ v \in Spare => Walk(t, v) = NoPage
  <2>1. \A v \in UserPages : v \in Int
    BY BootNumbers DEF UserPages, Pages
  <2>2. LowPages \in Int
    BY BootNumbers
  <2>. QED  BY <1>2, <2>1, <2>2 DEF Sound
<1>4. \A v \in H : Walk(t, v) \in t.pm.used \ kept
  BY <1>1 DEF Sound
<1>5. \A v, w \in H : Walk(t, v) = Walk(t, w) => v = w
  BY <1>1 DEF Sound
<1>6. Fixed(m) \subseteq t.pm.used /\ H \subseteq Loose(Layout)
  BY DEF Sound
<1>7. t.pm.used \subseteq Reserved(m) \cup {Walk(t, v) : v \in H}
  <2>1. s.pm.used \subseteq Reserved(m) \cup {Walk(s, v) : v \in H}
    BY DEF Sound
  <2>. QED  BY <1>1, <2>1
<1>. QED  BY <1>3, <1>4, <1>5, <1>6, <1>7 DEF Sound

LEMMA SoundCleared ==
  ASSUME NEW m, NEW s, NEW H, NEW kept, Sound(s, H, kept, m),
         NEW R, R \cap H = {}, NEW t, Cleared(Layout, s, t, R)
  PROVE  Sound(t, H, kept, m)
<1>1. Good(Layout, t) /\ t.pm.used = s.pm.used \ {}
  BY DEF Cleared
<1>2. \A w \in UserPages : \/ Walk(t, w) = Walk(s, w)
                           \/ w \notin H /\ Walk(t, w) = NoPage
                           \/ w \notin H /\ w < LowPages /\ Walk(t, w) \in kept
  BY DEF Cleared
<1>3. {} \cap Fixed(m) = {} /\ \A v \in H : Walk(s, v) \notin {}
  OBVIOUS
<1>. QED  BY <1>1, <1>2, <1>3, SoundChanged

LEMMA SoundRemapped ==
  ASSUME NEW m, NEW s, NEW H, NEW kept, Sound(s, H, kept, m),
         NEW v \in UserPages \ H, v < LowPages, NEW e \in kept \cup {NoPage},
         NEW t, Remapped(Layout, s, t, v, e)
  PROVE  Sound(t, H, kept, m)
<1>1. Good(Layout, t) /\ t.pm.used = s.pm.used \ {}
  BY DEF Remapped
<1>2. \A w \in UserPages : \/ Walk(t, w) = Walk(s, w)
                           \/ w \notin H /\ Walk(t, w) = NoPage
                           \/ w \notin H /\ w < LowPages /\ Walk(t, w) \in kept
  BY DEF Remapped
<1>3. {} \cap Fixed(m) = {} /\ \A w \in H : Walk(s, w) \notin {}
  OBVIOUS
<1>. QED  BY <1>1, <1>2, <1>3, SoundChanged

LEMMA SoundFreed ==
  ASSUME NEW m, MapIsSound(m), \E i \in DOMAIN m : IsDram(m[i]),
         NEW s, NEW H, Sound(s, H, Reserved(m), m), NEW k \in DOMAIN m
  PROVE  Sound(FreeRegion(s, m[k]), H, Reserved(m), m)
<1> DEFINE t == FreeRegion(s, m[k])
<1>1. Good(Layout, s)
  BY SoundPages
<1>2. Good(Layout, t) /\ \A w \in UserPages : Walk(t, w) = Walk(s, w)
  BY <1>1, RegionFreed
<1>3. PICK F \in SUBSET AllFreed(m) : t.pm.used = s.pm.used \ F
  BY <1>1, RegionFreed
<1>. HIDE DEF t
<1>4. F \cap Fixed(m) = {}
  BY <1>3 DEF Fixed
<1>5. \A v \in H : Walk(s, v) \notin F
  <2>1. \A v \in H : Walk(s, v) \notin Reserved(m)
    BY DEF Sound
  <2>. QED  BY <1>3, <2>1, KeptFrames
<1>6. Sound(t, H, Reserved(m), m)
  BY <1>2, <1>3, <1>4, <1>5, SoundChanged
<1>. QED  BY <1>6 DEF t

\* When no page leads to a frame that was freed for the kernel to use.
LEMMA SoundStarts ==
  ASSUME NEW m, MapIsSound(m), \E i \in DOMAIN m : IsDram(m[i]),
         NEW s, NEW H, Sound(s, H, Reserved(m), m),
         \A v \in UserPages \ H : Walk(s, v) \in Fixed(m) \cup {NoPage}
  PROVE  Sound(s, H, Fixed(m), m)
BY KeptFrames DEF Sound
------------------------------------------------------------------------------
(***************************************************************************)
(* There is always a place for one more heap: the first table has more     *)
(* slots, as long as the longest heap and as far from each other, than     *)
(* there are heaps, and no heap reaches into two of them.                  *)
(***************************************************************************)
LEMMA Multiples ==
  ASSUME NEW w \in Nat, NEW i \in Nat, NEW j \in Nat
  PROVE  i * w \in Nat /\ (i < j => i * w + w <= j * w) /\ (i <= j => i * w <= j * w)
<1>1. i < j => (i + 1) * w <= j * w
  OBVIOUS
<1>. QED  BY <1>1

LEMMA SlotsApart ==
  ASSUME NEW g \in Nat \ {0}, NEW i \in Nat, NEW j \in Nat, NEW p \in Nat, NEW n \in Nat, n <= g,
         NEW v \in Nat, v \in p .. p + n - 1,
         v \in HhkEnd + i * (2 * g) .. HhkEnd + i * (2 * g) + g - 1,
         NEW u \in Nat, u \in p .. p + n - 1,
         u \in HhkEnd + j * (2 * g) .. HhkEnd + j * (2 * g) + g - 1
  PROVE  i = j
<1> DEFINE w == 2 * g
           a == i * w
           b == j * w
<1>1. w \in Nat /\ w = 2 * g
  OBVIOUS
<1>2. HhkEnd \in Nat
  BY BootNumbers
<1>. HIDE DEF w
<1>3. a \in Nat /\ b \in Nat /\ (i < j => a + w <= b) /\ (j < i => b + w <= a)
  BY <1>1, Multiples
<1>4. v \in HhkEnd + a .. HhkEnd + a + g - 1 /\ u \in HhkEnd + b .. HhkEnd + b + g - 1
  BY <1>1
<1>. HIDE DEF a, b
<1>5. ~(i < j)
  <2>. SUFFICES ASSUME i < j PROVE FALSE
    OBVIOUS
  <2>1. a + w <= b
    BY <1>3
  <2>. QED  BY <1>1, <1>2, <1>3, <1>4, <2>1
<1>6. ~(j < i)
  <2>. SUFFICES ASSUME j < i PROVE FALSE
    OBVIOUS
  <2>1. b + w <= a
    BY <1>3
  <2>. QED  BY <1>1, <1>2, <1>3, <1>4, <2>1
<1>. QED  BY <1>5, <1>6

LEMMA SlotFree ==
  ASSUME NEW h, HeapsShaped(h), HeapPage \in DOMAIN h, Cardinality(DOMAIN h) < MaxHeaps,
         NEW size \in Growths
  PROVE  \E c \in HhkEnd .. Fan - 1 :
           c + size <= Fan /\ \A v \in c .. c + size - 1 : v \notin PagesOf(h)
<1>1. PICK g \in Growths : (\A n \in Growths : n <= g) /\ HhkEnd + (2 * MaxHeaps - 3) * g <= Fan
  BY LayoutAssumption
<1>2. g \in Nat \ {0} /\ size \in Nat \ {0} /\ size <= g
  BY <1>1, KernelMemSpecAssumption
<1> DEFINE D == DOMAIN h \ {HeapPage}
           k == Cardinality(D)
           w == 2 * g
           c(j) == HhkEnd + j * w
           Met(j) == \E p \in D : (p .. p + h[p] - 1) \cap (c(j) .. c(j) + g - 1) # {}
<1>3. IsFiniteSet(D) /\ k \in Nat /\ k <= MaxHeaps - 2 /\ MaxHeaps \in Nat
  <2>1. IsFiniteSet(DOMAIN h) /\ MaxHeaps \in Nat
    BY KernelMemSpecAssumption DEF HeapsShaped
  <2>2. IsFiniteSet(D) /\ Cardinality(D) = Cardinality(DOMAIN h) - 1
    BY <2>1, FS_RemoveElement
  <2>3. Cardinality(DOMAIN h) \in Nat /\ Cardinality(D) \in Nat
    BY <2>1, <2>2, FS_CardinalityType
  <2>. QED  BY <2>1, <2>2, <2>3
<1>4. \A p \in D : p \in Nat /\ h[p] \in Nat \ {0} /\ h[p] <= g
  <2>1. \A p \in D : p \in 1 .. Fan - 1 /\ h[p] \in Growths
    BY DEF HeapsShaped
  <2>2. Growths \subseteq Nat \ {0} /\ 1 .. Fan - 1 \subseteq Nat
    BY BootNumbers, KernelMemSpecAssumption
  <2>. QED  BY <1>1, <2>1, <2>2
<1>5. \E j \in 0 .. k : ~Met(j)
  <2>. SUFFICES ASSUME \A j \in 0 .. k : Met(j) PROVE FALSE
    OBVIOUS
  <2> DEFINE pick(j) == CHOOSE p \in D : (p .. p + h[p] - 1) \cap (c(j) .. c(j) + g - 1) # {}
             f == [j \in 0 .. k |-> pick(j)]
  <2>1. \A j \in 0 .. k : /\ pick(j) \in D
                          /\ (pick(j) .. pick(j) + h[pick(j)] - 1) \cap (c(j) .. c(j) + g - 1) # {}
    OBVIOUS
  <2>. HIDE DEF pick
  <2>2. f \in [0 .. k -> D] /\ \A j \in 0 .. k : f[j] = pick(j)
    <3>. HIDE DEF D, k
    <3>. QED  BY <2>1
  <2>. HIDE DEF f
  <2>3. IsFiniteSet(D) /\ k \in Nat /\ Cardinality(D) = k
    BY <1>3
  <2>4. PICK i \in 0 .. k, j \in 0 .. k : i # j /\ f[i] = f[j]
    <3>. HIDE DEF D, k
    <3>. QED  BY <2>2, <2>3, SharedImage
  <2> DEFINE p == f[i]
  <2>5. p \in D /\ p \in Nat /\ h[p] \in Nat /\ h[p] <= g
    BY <1>4, <2>1, <2>2
  <2>6. PICK v : v \in p .. p + h[p] - 1 /\ v \in HhkEnd + i * (2 * g) .. HhkEnd + i * (2 * g) + g - 1
    BY <2>1, <2>2
  <2>7. PICK u : u \in p .. p + h[p] - 1 /\ u \in HhkEnd + j * (2 * g) .. HhkEnd + j * (2 * g) + g - 1
    BY <2>1, <2>2, <2>4
  <2>8. v \in Nat /\ u \in Nat /\ i \in Nat /\ j \in Nat
    BY <1>3, <2>5, <2>6, <2>7
  <2>. QED  BY <1>2, <2>4, <2>5, <2>6, <2>7, <2>8, SlotsApart
<1>6. PICK j \in 0 .. k : ~Met(j)
  BY <1>5
<1>7. c(j) \in Nat /\ HhkEnd <= c(j) /\ c(j) + g <= Fan
  <2>1. w \in Nat /\ j \in Nat /\ MaxHeaps - 2 \in Nat /\ j <= MaxHeaps - 2 /\ HhkEnd \in Nat
    BY <1>2, <1>3, BootNumbers
  <2>2. j * w \in Nat /\ j * w <= (MaxHeaps - 2) * w /\ (MaxHeaps - 2) * w \in Nat
    <3>. HIDE DEF w
    <3>. QED  BY <2>1, Multiples
  <2>3. (2 * MaxHeaps - 3) * g = (MaxHeaps - 2) * w + g
    BY <1>2, <1>3
  <2> DEFINE b == j * w
             e == (MaxHeaps - 2) * w
  <2>4. b \in Nat /\ e \in Nat /\ b <= e /\ HhkEnd + (e + g) <= Fan /\ g \in Nat
    BY <1>1, <1>2, <2>2, <2>3
  <2>5. c(j) = HhkEnd + b
    OBVIOUS
  <2>. HIDE DEF b, e, c
  <2>. QED  BY <2>1, <2>4, <2>5, BootNumbers
<1>8. c(j) \in HhkEnd .. Fan - 1 /\ c(j) + size <= Fan
  <2>. HIDE DEF c
  <2>. QED  BY <1>2, <1>7, BootNumbers
<1>9. ASSUME NEW v \in c(j) .. c(j) + size - 1
      PROVE  v \notin PagesOf(h)
  <2> DEFINE cj == c(j)
  <2>1. cj \in Nat /\ cj + g <= Fan /\ v \in cj .. cj + size - 1
    BY <1>7, <1>9
  <2>. HIDE DEF cj
  <2>2. v \in cj .. cj + g - 1 /\ v < Fan
    BY <1>2, <2>1, BootNumbers
  <2>. SUFFICES ASSUME v \in PagesOf(h) PROVE FALSE
    OBVIOUS
  <2>3. PICK p \in DOMAIN h : v \in p .. p + h[p] - 1
    BY DEF PagesOf
  <2>4. CASE p = HeapPage
    <3>1. HeapPage \in Nat /\ KernelBase + HhkEnd <= HeapPage /\ HeapPage < HeapPage + MaxPages
      BY BootNumbers
    <3>2. Fan <= HeapPage
      BY <3>1, HighPages
    <3>. QED  BY <2>2, <2>3, <2>4, <3>1, <3>2, BootNumbers
  <2>5. CASE p # HeapPage
    <3>1. Met(j)
      BY <2>2, <2>3, <2>5 DEF cj
    <3>. QED  BY <1>6, <3>1
  <2>. QED  BY <2>4, <2>5
<1>. QED  BY <1>8, <1>9
------------------------------------------------------------------------------
(***************************************************************************)
(* Heaps that come, grow and go.                                           *)
(***************************************************************************)
\* The heap that starts at page has size pages.
Extended(h, page, size) ==
  [p \in DOMAIN h \cup {page} |-> IF p = page THEN size ELSE h[p]]
Without(h, page) == [p \in DOMAIN h \ {page} |-> h[p]]

FitsAt(page, size) ==
  IF page = HeapPage THEN size <= MaxPages
  ELSE page \in 1 .. Fan - 1 /\ page + size <= Fan /\ size \in Growths

LEMMA HeapPageIsHigh == HeapPage \in Nat /\ Fan \in Nat /\ Fan <= HeapPage
<1>1. HeapPage \in Nat /\ KernelBase + HhkEnd <= HeapPage /\ HeapPage < HeapPage + MaxPages
  BY BootNumbers
<1>. QED  BY <1>1, HighPages, BootNumbers

LEMMA HeapsGrow ==
  ASSUME NEW h, HeapsShaped(h), NEW page \in Nat, NEW size \in Nat \ {0}, FitsAt(page, size),
         NEW old \in Nat, old < size, old = IF page \in DOMAIN h THEN h[page] ELSE 0,
         \A v \in page + old .. page + size - 1 : v \notin PagesOf(h)
  PROVE  /\ HeapsShaped(Extended(h, page, size))
         /\ PagesOf(Extended(h, page, size)) = PagesOf(h) \cup (page + old .. page + size - 1)
<1> DEFINE k == Extended(h, page, size)
           D == DOMAIN h
           N == page + old .. page + size - 1
<1>1. DOMAIN k = D \cup {page} /\ \A p \in D \cup {page} : k[p] = IF p = page THEN size ELSE h[p]
  BY DEF Extended
<1>. HIDE DEF k
<1>2. IsFiniteSet(D) /\ \A p \in D : h[p] \in Nat \ {0} /\ FitsAt(p, h[p])
  BY DEF HeapsShaped, FitsAt
<1>3. \A p \in D : p \in Nat
  BY <1>2, HeapPageIsHigh DEF FitsAt
<1>4. IsFiniteSet(DOMAIN k)
  BY <1>1, <1>2, FS_AddElement
<1>5. k \in [DOMAIN k -> Nat \ {0}]
  <2>1. k = [p \in DOMAIN k |-> IF p = page THEN size ELSE h[p]]
    BY <1>1 DEF k, Extended
  <2>. QED  BY <1>1, <1>2, <2>1
<1>6. \A p \in DOMAIN k : FitsAt(p, k[p])
  BY <1>1, <1>2
<1>7. page .. page + size - 1 = (page .. page + old - 1) \cup N
  OBVIOUS
<1>8. ASSUME NEW p \in D, p # page
      PROVE  (p .. p + h[p] - 1) \cap (page .. page + size - 1) = {}
  <2>1. (p .. p + h[p] - 1) \cap N = {}
    BY <1>8 DEF PagesOf
  <2>2. (p .. p + h[p] - 1) \cap (page .. page + old - 1) = {}
    <3>1. CASE page \in D
      BY <1>8, <3>1 DEF HeapsShaped
    <3>2. CASE page \notin D
      BY <3>2
    <3>. QED  BY <3>1, <3>2
  <2>. HIDE DEF N
  <2>. QED  BY <1>7, <2>1, <2>2
<1>9. ASSUME NEW p \in DOMAIN k, NEW q \in DOMAIN k, p # q
      PROVE  (p .. p + k[p] - 1) \cap (q .. q + k[q] - 1) = {}
  <2>1. CASE p = page
    BY <1>1, <1>8, <1>9, <2>1
  <2>2. CASE q = page
    BY <1>1, <1>8, <1>9, <2>2
  <2>3. CASE p # page /\ q # page
    <3>1. p \in D /\ q \in D /\ k[p] = h[p] /\ k[q] = h[q]
      BY <1>1, <2>3
    <3>. QED  BY <1>9, <3>1 DEF HeapsShaped
  <2>. QED  BY <2>1, <2>2, <2>3
<1>10. HeapsShaped(k)
  BY <1>4, <1>5, <1>6, <1>9 DEF HeapsShaped, FitsAt
<1>11. PagesOf(k) = PagesOf(h) \cup N
  <2>1. ASSUME NEW v, v \in PagesOf(k) PROVE v \in PagesOf(h) \cup N
    <3>1. PICK p \in DOMAIN k : v \in p .. p + k[p] - 1
      BY <2>1 DEF PagesOf
    <3>2. CASE p # page
      BY <1>1, <3>1, <3>2 DEF PagesOf
    <3>3. CASE p = page
      <4>1. v \in (page .. page + old - 1) \cup N
        BY <1>1, <1>7, <3>1, <3>3
      <4>2. CASE page \in D
        BY <4>1, <4>2 DEF PagesOf
      <4>3. CASE page \notin D
        BY <4>1, <4>3
      <4>. QED  BY <4>2, <4>3
    <3>. QED  BY <3>2, <3>3
  <2>2. ASSUME NEW v \in N PROVE v \in PagesOf(k)
    <3>1. v \in page .. page + k[page] - 1 /\ page \in DOMAIN k
      BY <1>1, <1>7
    <3>. QED  BY <3>1 DEF PagesOf
  <2>3. ASSUME NEW v \in PagesOf(h) PROVE v \in PagesOf(k)
    <3>1. PICK p \in D : v \in p .. p + h[p] - 1
      BY DEF PagesOf
    <3>2. p \in DOMAIN k /\ v \in p .. p + k[p] - 1
      <4>1. CASE p # page
        BY <1>1, <3>1, <4>1
      <4>2. CASE p = page
        BY <1>1, <3>1, <4>2
      <4>. QED  BY <4>1, <4>2
    <3>. QED  BY <3>2 DEF PagesOf
  <2>. QED  BY <2>1, <2>2, <2>3
<1>. QED  BY <1>10, <1>11 DEF k

LEMMA HeapsShrink ==
  ASSUME NEW h, HeapsShaped(h), NEW page \in DOMAIN h
  PROVE  /\ HeapsShaped(Without(h, page))
         /\ PagesOf(Without(h, page)) = PagesOf(h) \ (page .. page + h[page] - 1)
<1> DEFINE k == Without(h, page)
<1>1. DOMAIN k = DOMAIN h \ {page} /\ \A p \in DOMAIN k : k[p] = h[p]
  BY DEF Without
<1>2. IsFiniteSet(DOMAIN k)
  <2>1. IsFiniteSet(DOMAIN h)
    BY DEF HeapsShaped
  <2>. QED  BY <1>1, <2>1, FS_RemoveElement
<1>3. k \in [DOMAIN k -> Nat \ {0}]
  <2>1. k = [p \in DOMAIN k |-> h[p]]
    BY <1>1 DEF Without
  <2>2. \A p \in DOMAIN k : h[p] \in Nat \ {0}
    BY <1>1 DEF HeapsShaped
  <2>. QED  BY <2>1, <2>2
<1>. HIDE DEF k
<1>4. HeapsShaped(k)
  BY <1>1, <1>2, <1>3 DEF HeapsShaped
<1>5. PagesOf(k) = PagesOf(h) \ (page .. page + h[page] - 1)
  <2>1. \A p \in DOMAIN h : p # page =>
          (p .. p + h[p] - 1) \cap (page .. page + h[page] - 1) = {}
    BY DEF HeapsShaped
  <2>2. PagesOf(k) = UNION {p .. p + h[p] - 1 : p \in DOMAIN h \ {page}}
    BY <1>1 DEF PagesOf
  <2> DEFINE run(p) == p .. p + h[p] - 1
  <2>3. /\ PagesOf(k) = UNION {run(p) : p \in DOMAIN h \ {page}}
        /\ PagesOf(h) = UNION {run(p) : p \in DOMAIN h}
        /\ \A p \in DOMAIN h : p # page => run(p) \cap run(page) = {}
    BY <2>1, <2>2 DEF PagesOf
  <2>. HIDE DEF run
  <2>4. PagesOf(k) = PagesOf(h) \ run(page)
    BY <2>3
  <2>. QED  BY <2>4 DEF run
<1>. QED  BY <1>4, <1>5 DEF k

\* The pages of a heap are loose, and so are mapped to frames.
LEMMA SoundHeaps ==
  ASSUME NEW m, NEW s, NEW h, NEW kept, Sound(s, PagesOf(h), kept, m),
         NEW v, Walk(s, v) = NoPage
  PROVE  v \notin PagesOf(h)
<1>1. NoPage \notin s.pm.used
  BY SoundPages, BootNumbers
<1>. QED  BY <1>1 DEF Sound

\* What allocHeap answers when the heap that starts at page shall have size pages, the
\* first of them new at first: t is the memory then.
Given(s, h, kept, m, page, size, first, r, t) ==
  /\ r = [ok |-> TRUE, page |-> first, s |-> t]
  /\ Sound(t, PagesOf(Extended(h, page, size)), kept, m)
  /\ HeapsShaped(Extended(h, page, size))
  /\ Taken(Layout, s, t, first .. page + size - 1)

Refused(s, h, kept, m, r, t) ==
  /\ r = [ok |-> FALSE, page |-> NoPage, s |-> t]
  /\ Sound(t, PagesOf(h), kept, m)
  /\ Taken(Layout, s, t, {})

LEMMA AllocKeeps ==
  ASSUME NEW m, NEW s, NEW h, NEW kept, Sound(s, PagesOf(h), kept, m), kept \subseteq s.pm.used,
         HeapsShaped(h), NEW page \in Nat, NEW size \in Nat \ {0}, FitsAt(page, size),
         NEW old \in Nat, old < size, old = IF page \in DOMAIN h THEN h[page] ELSE 0,
         NEW first \in Nat, first = page + old, NEW n \in Nat, n = size - old,
         \A v \in first .. page + size - 1 : v \in Loose(Layout) /\ Walk(s, v) = NoPage
  PROVE  \E t : \/ Given(s, h, kept, m, page, size, first, AllocHeapAt(s, first, n), t)
                \/ Refused(s, h, kept, m, AllocHeapAt(s, first, n), t)
<1> DEFINE N == first .. page + size - 1
<1>1. n \in Nat \ {0} /\ N = first .. first + n - 1 /\ N = page + old .. page + size - 1
  OBVIOUS
<1>2. \A v \in N : v \notin PagesOf(h)
  BY SoundHeaps
<1>3. /\ HeapsShaped(Extended(h, page, size))
      /\ PagesOf(Extended(h, page, size)) = PagesOf(h) \cup N
  <2>1. \A v \in page + old .. page + size - 1 : v \notin PagesOf(h)
    BY <1>1, <1>2
  <2>. HIDE DEF N
  <2>2. /\ HeapsShaped(Extended(h, page, size))
        /\ PagesOf(Extended(h, page, size)) = PagesOf(h) \cup (page + old .. page + size - 1)
    BY <2>1, HeapsGrow
  <2>. QED  BY <1>1, <2>2
<1>4. Good(Layout, s) /\ N \subseteq Loose(Layout) /\ \A v \in N : Walk(s, v) = NoPage
  BY SoundPages
<1>. HIDE DEF N
<1>5. PICK t : \/ /\ AllocHeapAt(s, first, n) = [ok |-> TRUE, page |-> first, s |-> t]
                  /\ Taken(Layout, s, t, N)
               \/ /\ AllocHeapAt(s, first, n) = [ok |-> FALSE, page |-> NoPage, s |-> t]
                  /\ Taken(Layout, s, t, {})
  <2>1. first .. first + n - 1 \subseteq Loose(Layout)
        /\ \A v \in first .. first + n - 1 : Walk(s, v) = NoPage
    BY <1>1, <1>4
  <2>2. \E t : \/ /\ AllocHeapAt(s, first, n) = [ok |-> TRUE, page |-> first, s |-> t]
                   /\ Taken(Layout, s, t, first .. first + n - 1)
                \/ /\ AllocHeapAt(s, first, n) = [ok |-> FALSE, page |-> NoPage, s |-> t]
                   /\ Taken(Layout, s, t, {})
    BY <1>1, <1>4, <2>1, KernelLayout, AllocHeapCorrect
  <2>. QED  BY <1>1, <2>2
<1>6. Taken(Layout, s, t, N) => Sound(t, PagesOf(h) \cup N, kept, m)
  BY <1>2, <1>4, SoundTaken
<1>7. Taken(Layout, s, t, {}) => Sound(t, PagesOf(h) \cup {}, kept, m)
  <2>1. {} \subseteq Loose(Layout) \ PagesOf(h)
    OBVIOUS
  <2>. QED  BY <2>1, SoundTaken
<1>8. PagesOf(h) \cup {} = PagesOf(h)
  OBVIOUS
<1>. QED  BY <1>3, <1>5, <1>6, <1>7, <1>8 DEF Given, Refused, N
------------------------------------------------------------------------------
(***************************************************************************)
(* The steps of kernelMain.                                                *)
(***************************************************************************)
\* Frames that only devices answer.
Registers(m) == (Top(m) .. NFrames - 1) \ AllFreed(m)

LEMMA MachineFacts ==
  ASSUME MachinesAreSound,
         \E m \in Machines : map = m.map /\ acpi = [rsdps |-> m.rsdps, tables |-> m.tables]
  PROVE  /\ MapIsSound(map) /\ \E i \in DOMAIN map : IsDram(map[i])
         /\ Registers(map) \subseteq Fixed(map) \cap (Frames \ TablesOf(Layout))
         /\ LapicFrame \in Registers(map)
         /\ \A j \in DOMAIN acpi.rsdps :
              /\ acpi.rsdps[j] \in DOMAIN acpi.tables
              /\ TablesFit(Layout, acpi.rsdps[j], acpi.tables[acpi.rsdps[j]])
              /\ IoapicsOf(acpi.tables[acpi.rsdps[j]]) \subseteq Registers(map)
<1>1. PICK m \in Machines : map = m.map /\ acpi = [rsdps |-> m.rsdps, tables |-> m.tables]
  OBVIOUS
<1>2. acpi.rsdps = m.rsdps /\ acpi.tables = m.tables
  BY <1>1
<1>3. MachineIsSound(m)
  BY DEF MachinesAreSound
<1>4. MapIsSound(map) /\ LapicFrame \in Registers(map)
  BY <1>1, <1>3 DEF MachineIsSound, Registers
<1>5. \E i \in DOMAIN map : IsDram(map[i])
  BY <1>1, KernelMemSpecAssumption
<1>6. TablesOf(Layout) \subseteq LowPages .. KernelEnd - 1
  <2>1. HhkEnd .. KernelEnd - 1 \subseteq LowPages .. KernelEnd - 1
    BY BootNumbers
  <2>. QED  BY <2>1, BootTables
<1>7. Registers(map) \subseteq Fixed(map) \cap (Frames \ TablesOf(Layout))
  <2>1. Top(map) \in Nat /\ KernelEnd <= Top(map)
    BY <1>4, <1>5, MapFacts
  <2>2. Top(map) .. NFrames - 1 \subseteq Frames \ (LowPages .. KernelEnd - 1)
    BY <2>1, BootNumbers
  <2>. QED  BY <1>6, <2>2 DEF Registers, Fixed, Reserved
<1>8. ASSUME NEW j \in DOMAIN m.rsdps
      PROVE  /\ m.rsdps[j] \in DOMAIN m.tables
             /\ TablesFit(Layout, m.rsdps[j], m.tables[m.rsdps[j]])
             /\ IoapicsOf(m.tables[m.rsdps[j]]) \subseteq Registers(map)
  <2> DEFINE root == m.rsdps[j]
             tables == m.tables[root]
  <2>1. /\ root \in DOMAIN m.tables
        /\ {root, root + 1} \subseteq Frames \ (LowPages .. KernelEnd - 1)
        /\ TablesAreSound(tables, Registers(map))
    BY <1>1, <1>3 DEF MachineIsSound, Registers
  <2>2. FirmwareIsSound(tables)
    BY <2>1, KernelMemSpecAssumption
  <2>. HIDE DEF root, tables
  <2>3. TablesFit(Layout, root, tables)
    BY <1>6, <2>1, <2>2 DEF TablesFit, TablesAreSound, Item
  <2>. QED  BY <2>1, <2>3 DEF TablesAreSound, root, tables
<1>. QED  BY <1>2, <1>4, <1>5, <1>7, <1>8

LEMMA InvInit == Init => IInv
<1>. SUFFICES ASSUME Init PROVE IInv
  OBVIOUS
<1>1. vm = Booted(InitPhysMem)
  BY DEF Init, Booted
<1>2. apic.isReady = FALSE
  BY DEF Init, NoContext
<1>. QED  BY <1>1, <1>2 DEF Init, IInv, FirstStage, Steps

NoHeaps == [p \in {} |-> 0]

LEMMA NoHeapsShaped == HeapsShaped(NoHeaps) /\ PagesOf(NoHeaps) = {} /\ DOMAIN NoHeaps = {}
<1>1. DOMAIN NoHeaps = {} /\ NoHeaps \in [{} -> Nat \ {0}]
  BY DEF NoHeaps
<1>2. IsFiniteSet({})
  BY FS_EmptySet
<1>. QED  BY <1>1, <1>2 DEF HeapsShaped, PagesOf

\* Once everything but the memory behind the kernel is marked, the memory is sound.
LEMMA BootSound ==
  ASSUME NEW m, MapIsSound(m), \E i \in DOMAIN m : IsDram(m[i]),
         NEW q \in PMType, q.used = Reserved(m)
  PROVE  /\ Sound(Booted(q), {}, Reserved(m), m)
         /\ \A v \in 0 .. LowPages - 1 : Walk(Booted(q), v) = v
         /\ \A v \in HeapPage .. HeapPage + InitPages - 1 :
              v \in Loose(Layout) /\ Walk(Booted(q), v) = NoPage
<1> DEFINE s == Booted(q)
<1>1. Good(Layout, s)
  <2>1. HhkEnd .. KernelEnd - 1 \subseteq Reserved(m)
    BY BootNumbers DEF Reserved
  <2>. QED  BY <2>1, BootTables, BootGood
<1>2. s.pm.used = Reserved(m)
  BY DEF Booted
<1>. HIDE DEF s
<1>3. ASSUME NEW v \in UserPages
      PROVE  /\ v < HhkEnd => Walk(s, v) = v
             /\ v \in KernelRun => Walk(s, v) = v - KernelBase
             /\ v >= HhkEnd /\ v \notin KernelRun => Walk(s, v) = NoPage
  <2>1. v \in Nat /\ \A w \in KernelRun : ~(w < HhkEnd)
    BY BootNumbers DEF UserPages, Pages, KernelRun
  <2>. QED  BY <2>1, BootNumbers, BootWalks DEF s
<1>4. \A v \in Spare : v >= HhkEnd /\ v \notin KernelRun /\ v \in UserPages
  <2>1. \A v \in Spare : v >= HhkEnd
    BY BootNumbers DEF Spare
  <2>2. \A v \in Spare : v \in UserPages /\ v \notin KernelRun
    BY LoosePages, LayoutParts DEF Loose
  <2>. QED  BY <2>1, <2>2
<1>5. ASSUME NEW v \in UserPages
      PROVE  /\ Walk(s, v) \in Reserved(m) \cup {NoPage}
             /\ LowPages <= v => Walk(s, v) \in (LowPages .. KernelEnd - 1) \cup {NoPage}
             /\ v \in Spare => Walk(s, v) = NoPage
  <2>1. v \in Nat
    BY BootNumbers DEF UserPages, Pages
  <2>2. CASE v < HhkEnd
    <3>1. v \in 0 .. KernelEnd - 1 /\ (LowPages <= v => v \in LowPages .. KernelEnd - 1)
      BY <2>1, <2>2, BootNumbers
    <3>2. v \notin Spare
      BY <1>4, <2>1, <2>2, BootNumbers
    <3>. QED  BY <1>3, <2>2, <3>1, <3>2 DEF Reserved
  <2>3. CASE v \in KernelRun
    <3>1. v - KernelBase \in LowPages .. KernelEnd - 1 /\ v - KernelBase \in 0 .. KernelEnd - 1
      BY <2>3, BootNumbers DEF KernelRun
    <3>. QED  BY <1>3, <1>4, <2>3, <3>1 DEF Reserved
  <2>4. CASE v >= HhkEnd /\ v \notin KernelRun
    BY <1>3, <2>4
  <2>. QED  BY <2>1, <2>2, <2>3, <2>4, BootNumbers
<1>6. Sound(s, {}, Reserved(m), m)
  BY <1>1, <1>2, <1>5 DEF Sound, Fixed
<1>7. \A v \in 0 .. LowPages - 1 : Walk(s, v) = v
  <2>1. \A v \in 0 .. LowPages - 1 : v \in 0 .. Fan - 1 /\ v < HhkEnd
    BY BootNumbers
  <2>. QED  BY <1>3, <2>1, LowUserPages
<1>8. \A v \in HeapPage .. HeapPage + InitPages - 1 : v \in Loose(Layout) /\ Walk(s, v) = NoPage
  <2>1. HeapPage .. HeapPage + InitPages - 1 \subseteq Spare
    BY BootNumbers DEF Spare
  <2>. QED  BY <1>3, <1>4, <2>1, LoosePages
<1>. QED  BY <1>6, <1>7, <1>8 DEF s

LEMMA MemoryKeeps ==
  ASSUME MachinesAreSound, IInv, InitMemory
  PROVE  IInv'
<1> DEFINE q == Sectioned(InitPhysMem, DramUpper(map))
           s == Booted(q)
           r == AllocHeapAt(s, HeapPage, InitPages)
<1>1. /\ MapIsSound(map) /\ \E i \in DOMAIN map : IsDram(map[i])
  BY MachineFacts DEF IInv
<1>2. vm = Booted(InitPhysMem) /\ heaps = NoHeaps
  BY DEF IInv, InitMemory, FirstStage, NoHeaps
<1>3. KernelMemInit(vm, InitPages, DramUpper(map)) = r
  <2>1. vm.pm = InitPhysMem
    BY <1>2 DEF Booted
  <2>2. [vm EXCEPT !.pm = Sectioned(vm.pm, DramUpper(map))] = s
    <3>. HIDE DEF q
    <3>1. [Booted(InitPhysMem) EXCEPT !.pm = q] = Booted(q)
      <4>1. ASSUME NEW a, NEW b, NEW c, NEW d, NEW e
            PROVE  [[pm |-> a, mem |-> b, tlb |-> c, null |-> d, upiDir |-> e] EXCEPT !.pm = q] =
                     [pm |-> q, mem |-> b, tlb |-> c, null |-> d, upiDir |-> e]
        OBVIOUS
      <4> DEFINE tlb == [v \in Pages |-> NoPage]
                 no == FALSE
      <4>2. \A p : Booted(p) = [pm |-> p, mem |-> KernelPageInit, tlb |-> tlb,
                                null |-> no, upiDir |-> no]
        BY DEF Booted
      <4>. HIDE DEF tlb, no, s, r
      <4>. QED  BY <4>1, <4>2
    <3>. QED  BY <1>2, <2>1, <3>1 DEF q
  <2>. QED  BY <2>2 DEF KernelMemInit
<1>4. Granted(r, HeapPage, InitPages) /\ Goes(r.ok, "acpi")
      /\ UNCHANGED <<map, acpi, apic, mapAt, next>>
  BY <1>3 DEF InitMemory, machine
<1>5. q \in PMType /\ q.used = Reserved(map)
  BY <1>1, SectionedExactly
<1>. HIDE DEF q
<1>6. /\ Sound(s, {}, Reserved(map), map)
      /\ \A v \in 0 .. LowPages - 1 : Walk(s, v) = v
      /\ \A v \in HeapPage .. HeapPage + InitPages - 1 : v \in Loose(Layout) /\ Walk(s, v) = NoPage
  BY <1>1, <1>5, BootSound
<1>7. Reserved(map) \subseteq s.pm.used
  BY <1>5 DEF Booted
<1>. HIDE DEF s
<1>8. PICK t : \/ Given(s, NoHeaps, Reserved(map), map, HeapPage, InitPages, HeapPage, r, t)
               \/ Refused(s, NoHeaps, Reserved(map), map, r, t)
  <2>1. /\ HeapPage \in Nat /\ HeapPage = HeapPage + 0 /\ InitPages = InitPages - 0
        /\ InitPages \in Nat \ {0} /\ 0 \in Nat /\ 0 < InitPages /\ InitPages \in Nat
    BY BootNumbers
  <2>2. FitsAt(HeapPage, InitPages)
    BY BootNumbers DEF FitsAt
  <2>3. 0 = IF HeapPage \in DOMAIN NoHeaps THEN NoHeaps[HeapPage] ELSE 0
    BY NoHeapsShaped
  <2>4. Sound(s, PagesOf(NoHeaps), Reserved(map), map) /\ HeapsShaped(NoHeaps)
    BY <1>6, NoHeapsShaped
  <2>. QED  BY <1>6, <1>7, <2>1, <2>2, <2>3, <2>4, AllocKeeps
<1>9. CASE Given(s, NoHeaps, Reserved(map), map, HeapPage, InitPages, HeapPage, r, t)
  <2>1. /\ vm' = t /\ heaps' = Extended(NoHeaps, HeapPage, InitPages) /\ stage' = "acpi"
        /\ Taken(Layout, s, t, HeapPage .. HeapPage + InitPages - 1)
    BY <1>2, <1>4, <1>9 DEF Given, Granted, With, Extended, Goes
  <2>2. DOMAIN heaps' = {HeapPage}
    BY <2>1, NoHeapsShaped DEF Extended
  <2>3. \A v \in 0 .. LowPages - 1 : Walk(t, v) = v
    <3>1. \A v \in 0 .. LowPages - 1 : v \in 0 .. Fan - 1 /\ v \notin HeapPage .. HeapPage + InitPages - 1
      BY HeapPageIsHigh, BootNumbers
    <3>2. \A v \in 0 .. LowPages - 1 : v \in UserPages
      BY <3>1, LowUserPages
    <3>. QED  BY <1>6, <2>1, <3>1, <3>2 DEF Taken
  <2>4. LowIsSelf(t) /\ Walk(t, 0) = 0
    BY <2>3, BootNumbers DEF LowIsSelf
  <2>5. HeapsShaped(heaps') /\ Sound(t, PagesOf(heaps'), Reserved(map), map)
    BY <1>9, <2>1 DEF Given
  <2>6. LaterStage'
    BY <1>4, <2>1, <2>2, <2>4, <2>5 DEF LaterStage
  <2>. QED  BY <1>4, <2>1, <2>6 DEF IInv, InitMemory, Steps
<1>10. CASE Refused(s, NoHeaps, Reserved(map), map, r, t)
  <2>1. vm' = t /\ heaps' = NoHeaps /\ stage' = "halted"
    BY <1>2, <1>4, <1>10 DEF Refused, Granted, Goes
  <2>2. HeapsShaped(heaps') /\ Sound(t, PagesOf(heaps'), Reserved(map), map) /\ DOMAIN heaps' = {}
    BY <1>10, <2>1, NoHeapsShaped DEF Refused
  <2>3. LaterStage'
    BY <1>4, <2>1, <2>2 DEF LaterStage
  <2>. QED  BY <1>4, <2>1, <2>3 DEF IInv, InitMemory, Steps
<1>. QED  BY <1>8, <1>9, <1>10

\* Before the kernel runs only its own heap is there, behind the kernel.
LEMMA LowIsNoHeap ==
  ASSUME NEW h, HeapsShaped(h), DOMAIN h \subseteq {HeapPage}
  PROVE  \A v \in 0 .. Fan - 1 : v \notin PagesOf(h)
<1>. SUFFICES ASSUME NEW v \in 0 .. Fan - 1, v \in PagesOf(h) PROVE FALSE
  OBVIOUS
<1>1. v \in HeapPage .. HeapPage + h[HeapPage] - 1 /\ HeapPage \in DOMAIN h
  BY DEF PagesOf
<1>2. h[HeapPage] \in Nat
  BY <1>1 DEF HeapsShaped
<1>. QED  BY <1>1, <1>2, HeapPageIsHigh

LEMMA LowAreUser == \A v \in 0 .. LowPages - 1 : v \in UserPages /\ v \in 0 .. Fan - 1
<1>1. \A v \in 0 .. LowPages - 1 : v \in 0 .. Fan - 1
  BY BootNumbers
<1>. QED  BY <1>1, LowUserPages

LEMMA AcpiSteps ==
  ASSUME MachinesAreSound, IInv, InitAcpi
  PROVE  \/ stage' = "halted" /\ vm' = vm /\ apic' = NoContext
         \/ /\ stage' = "nullptr" /\ Cleared(Layout, vm, vm', {}) /\ apic' \in Context
            /\ apic'.isReady = TRUE =>
                 \E j \in DOMAIN acpi.rsdps :
                   apic'.ioapic \in IoapicsOf(acpi.tables[acpi.rsdps[j]])
<1> DEFINE found == FindRSDP(vm, map, acpi.rsdps)
           r == AcpiInit(vm, found, acpi.tables)
<1>1. /\ MapIsSound(map)
      /\ \A j \in DOMAIN acpi.rsdps :
           TablesFit(Layout, acpi.rsdps[j], acpi.tables[acpi.rsdps[j]])
  BY MachineFacts DEF IInv
<1>2. stage = "acpi" /\ vm' = r.s /\ apic' = r.context /\ Goes(r.ok, "nullptr")
  BY DEF InitAcpi, AcpiResult
<1>3. /\ Sound(vm, PagesOf(heaps), Reserved(map), map) /\ HeapsShaped(heaps)
      /\ DOMAIN heaps \subseteq {HeapPage} /\ Walk(vm, 0) = 0
  BY <1>2 DEF IInv, LaterStage
<1>4. found.root \in {NoPage} \cup {acpi.rsdps[j] : j \in DOMAIN acpi.rsdps}
  <2>1. map \in Seq([base : Nat, size : Nat, type : Nat])
    BY <1>1 DEF MapIsSound
  <2>. QED  BY <2>1, RootFound
<1>. HIDE DEF found
<1>5. found.root = NoPage \/ TablesFit(Layout, found.root, acpi.tables[found.root])
  BY <1>1, <1>4
<1>6. Good(Layout, vm)
  BY <1>3, SoundPages
<1>7. PageIsUsing(vm, 0)
  <2>1. 0 \in UserPages /\ Walk(vm, 0) # NoPage
    BY <1>3, LowAreUser, BootNumbers
  <2>. QED  BY <1>6, <2>1, KernelLayout, ReadsWalk
<1>8. \A v \in HhkEnd .. HhkEnd + 3 : Walk(vm, v) = NoPage
  <2>1. ASSUME NEW v \in HhkEnd .. HhkEnd + 3 PROVE Walk(vm, v) = NoPage
    <3>1. v \in HhkEnd .. Fan - 1 /\ v \in 0 .. Fan - 1
      BY BootNumbers
    <3>2. v \in Spare /\ v \in UserPages \ PagesOf(heaps)
      BY <1>3, <3>1, LowIsNoHeap, LowUserPages DEF Spare
    <3>. QED  BY <1>3, <3>2 DEF Sound
  <2>. QED  BY <2>1
<1>9. HhkEnd \in 1 .. Fan - 1 /\ HhkEnd + 4 <= Fan
  BY BootNumbers
<1>10. \/ r = NoRoot(vm)
       \/ \E t, k : /\ r = Reader(t, found.root, k)
                    /\ Cleared(Layout, vm, t, {}) /\ k \in Context
                    /\ k.isReady = TRUE => k.ioapic \in IoapicsOf(acpi.tables[found.root])
  BY <1>5, <1>6, <1>7, <1>8, <1>9, KernelLayout, AcpiCorrect
<1>11. CASE r = NoRoot(vm)
  BY <1>2, <1>11 DEF NoRoot, Goes
<1>12. CASE r # NoRoot(vm)
  <2>1. found.root # NoPage
    BY <1>12 DEF AcpiInit
  <2>. HIDE DEF r
  <2>2. PICK t, k : /\ r = Reader(t, found.root, k)
                    /\ Cleared(Layout, vm, t, {}) /\ k \in Context
                    /\ k.isReady = TRUE => k.ioapic \in IoapicsOf(acpi.tables[found.root])
    BY <1>10, <1>12
  <2>3. r.ok = TRUE /\ r.s = t /\ r.context = k
    BY <2>2 DEF Reader
  <2>4. stage' = "nullptr" /\ vm' = t /\ apic' = k
    BY <1>2, <2>3 DEF Goes
  <2>5. PICK j \in DOMAIN acpi.rsdps : found.root = acpi.rsdps[j]
    BY <1>4, <2>1
  <2>. QED  BY <2>2, <2>4, <2>5
<1>. QED  BY <1>11, <1>12

LEMMA AcpiKeeps ==
  ASSUME MachinesAreSound, IInv, InitAcpi
  PROVE  IInv'
<1>1. stage = "acpi" /\ UNCHANGED <<map, acpi, mapAt, heaps, next>>
  BY DEF InitAcpi, AcpiResult, machine
<1>2. /\ Sound(vm, PagesOf(heaps), Reserved(map), map) /\ HeapsShaped(heaps)
      /\ DOMAIN heaps \subseteq {HeapPage} /\ HeapPage \in DOMAIN heaps
      /\ LowIsSelf(vm) /\ Walk(vm, 0) = 0 /\ mapAt \in MapPages
  BY <1>1 DEF IInv, LaterStage
<1>3. CASE stage' = "halted" /\ vm' = vm /\ apic' = NoContext
  <2>1. apic'.isReady = FALSE
    BY <1>3 DEF NoContext
  <2>2. LaterStage'
    BY <1>1, <1>2, <1>3 DEF LaterStage
  <2>. QED  BY <1>1, <1>3, <2>1, <2>2 DEF IInv, Steps
<1>4. CASE /\ stage' = "nullptr" /\ Cleared(Layout, vm, vm', {}) /\ apic' \in Context
           /\ apic'.isReady = TRUE =>
                 \E j \in DOMAIN acpi.rsdps :
                   apic'.ioapic \in IoapicsOf(acpi.tables[acpi.rsdps[j]])
  <2>1. Sound(vm', PagesOf(heaps), Reserved(map), map)
    <3>1. {} \cap PagesOf(heaps) = {}
      OBVIOUS
    <3>. QED  BY <1>2, <1>4, <3>1, SoundCleared
  <2>2. \A w \in UserPages : Walk(vm', w) = Walk(vm, w)
    BY <1>4 DEF Cleared
  <2>3. \A v \in 1 .. LowPages - 1 : v \in 0 .. LowPages - 1
    OBVIOUS
  <2>4. LowIsSelf(vm') /\ Walk(vm', 0) = 0
    BY <1>2, <2>2, <2>3, LowAreUser, BootNumbers DEF LowIsSelf
  <2>5. LaterStage'
    BY <1>1, <1>2, <1>4, <2>1, <2>4 DEF LaterStage
  <2>6. apic'.isReady \in BOOLEAN
    BY <1>4 DEF Context
  <2>. QED  BY <1>1, <1>2, <1>4, <2>5, <2>6 DEF IInv, Steps
<1>. QED  BY <1>3, <1>4, AcpiSteps

LEMMA NullKeeps ==
  ASSUME MachinesAreSound, IInv, GiveUpNull
  PROVE  IInv'
<1> DEFINE u == Unmap(vm, 0)
<1>1. /\ stage = "nullptr" /\ stage' = "regions" /\ vm' = EnableNullptr(vm)
      /\ UNCHANGED <<map, acpi, apic, mapAt, heaps, next>>
  BY DEF GiveUpNull, machine
<1>2. /\ Sound(vm, PagesOf(heaps), Reserved(map), map) /\ HeapsShaped(heaps)
      /\ DOMAIN heaps \subseteq {HeapPage} /\ HeapPage \in DOMAIN heaps
      /\ LowIsSelf(vm) /\ mapAt \in MapPages
  BY <1>1 DEF IInv, LaterStage
<1>3. Good(Layout, vm) /\ 0 \in UserPages \ Layout.pinned /\ Pde(0) \in Dirs(Layout)
  BY <1>2, SoundPages, KernelLayout, LayoutFacts
<1>4. Remapped(Layout, vm, u, 0, NoPage)
  BY <1>3, KernelLayout, UnmapCorrect
<1>. HIDE DEF u
<1>5. vm' = [u EXCEPT !.null = TRUE]
  BY <1>1 DEF EnableNullptr, u
<1>6. /\ Good(Layout, vm') /\ vm'.null = TRUE /\ vm'.pm = u.pm
      /\ \A w \in Pages : Walk(vm', w) = Walk(u, w)
  <2>1. Good(Layout, u)
    BY <1>4 DEF Remapped
  <2>. QED  BY <1>5, <2>1, KernelLayout, NullOnly
<1>7. \A w \in UserPages : Walk(vm', w) = IF w = 0 THEN NoPage ELSE Walk(vm, w)
  BY <1>4, <1>6 DEF Remapped, UserPages
<1>8. Sound(vm', PagesOf(heaps), Reserved(map), map)
  <2>1. 0 \notin PagesOf(heaps)
    BY <1>2, LowIsNoHeap, BootNumbers
  <2>2. vm'.pm.used = vm.pm.used \ {} /\ {} \cap Fixed(map) = {}
        /\ \A v \in PagesOf(heaps) : Walk(vm, v) \notin {}
    BY <1>4, <1>6 DEF Remapped
  <2>3. \A w \in UserPages : \/ Walk(vm', w) = Walk(vm, w)
                             \/ w \notin PagesOf(heaps) /\ Walk(vm', w) = NoPage
                             \/ w \notin PagesOf(heaps) /\ w < LowPages /\ Walk(vm', w) \in Reserved(map)
    BY <1>7, <2>1
  <2>. QED  BY <1>2, <1>6, <2>2, <2>3, SoundChanged
<1>9. LowIsSelf(vm') /\ Walk(vm', 0) = NoPage
  <2>1. \A v \in 1 .. LowPages - 1 : v \in 0 .. LowPages - 1 /\ v # 0
    OBVIOUS
  <2>. QED  BY <1>2, <1>3, <1>7, <2>1, LowAreUser DEF LowIsSelf
<1>10. LaterStage'
  BY <1>1, <1>2, <1>6, <1>8, <1>9 DEF LaterStage
<1>. QED  BY <1>1, <1>10 DEF IInv, Steps

LEMMA RegionKeeps ==
  ASSUME MachinesAreSound, IInv, NextRegion
  PROVE  IInv'
<1>1. /\ stage = "regions" /\ stage' = "regions" /\ vm' = FreeRegion(vm, map[next])
      /\ next \in DOMAIN map /\ UNCHANGED <<map, acpi, apic, mapAt, heaps>>
  BY DEF NextRegion, machine
<1>2. /\ Sound(vm, PagesOf(heaps), Reserved(map), map) /\ HeapsShaped(heaps)
      /\ DOMAIN heaps \subseteq {HeapPage} /\ HeapPage \in DOMAIN heaps
      /\ LowIsSelf(vm) /\ vm.null = TRUE /\ Walk(vm, 0) = NoPage /\ mapAt \in MapPages
  BY <1>1, SoundPages DEF IInv, LaterStage, Good, VMType
<1>3. MapIsSound(map) /\ \E i \in DOMAIN map : IsDram(map[i])
  BY MachineFacts DEF IInv
<1>4. Sound(vm', PagesOf(heaps), Reserved(map), map)
  BY <1>1, <1>2, <1>3, SoundFreed
<1>5. vm'.null = vm.null /\ \A w \in UserPages : Walk(vm', w) = Walk(vm, w)
  BY <1>1, <1>2, <1>3, SoundPages, RegionFreed
<1>6. LowIsSelf(vm') /\ Walk(vm', 0) = NoPage
  <2>1. \A v \in 1 .. LowPages - 1 : v \in 0 .. LowPages - 1
    OBVIOUS
  <2>. QED  BY <1>2, <1>5, <2>1, LowAreUser, BootNumbers DEF LowIsSelf
<1>7. LaterStage'
  BY <1>1, <1>2, <1>4, <1>5, <1>6 DEF LaterStage
<1>. QED  BY <1>1, <1>7 DEF IInv, Steps

LEMMA RegionsKeep ==
  ASSUME MachinesAreSound, IInv, EndRegions
  PROVE  IInv'
<1>1. /\ stage = "regions" /\ stage' = "low" /\ next' = 1 /\ mapAt' = HeapPage
      /\ UNCHANGED <<vm, map, acpi, apic, heaps>>
  BY DEF EndRegions, machine, MapCopied
<1>2. /\ Sound(vm, PagesOf(heaps), Reserved(map), map) /\ HeapsShaped(heaps)
      /\ DOMAIN heaps \subseteq {HeapPage} /\ HeapPage \in DOMAIN heaps
      /\ LowIsSelf(vm) /\ vm.null /\ Walk(vm, 0) = NoPage
  BY <1>1 DEF IInv, LaterStage
<1>3. LowIsLost(vm, map, 0) /\ \A k \in 1 .. 0 : map[k].base < OneMiB
  BY DEF LowIsLost
<1>4. \A v \in 1 .. LowPages - 1 : Walk(vm, v) \in {v, NoPage}
  BY <1>2 DEF LowIsSelf
<1>5. 1 \in Nat \ {0} /\ 1 - 1 = 0
  OBVIOUS
<1>6. LaterStage'
  BY <1>1, <1>2, <1>3, <1>4, <1>5 DEF LaterStage
<1>. QED  BY <1>1, <1>6 DEF IInv, Steps

\* The loop over the regions below 1 MiB ends before DRAM.
LEMMA LowIsInMap ==
  ASSUME MachinesAreSound, IInv, stage = "low"
  PROVE  next \in DOMAIN map
<1>1. MapIsSound(map) /\ \E i \in DOMAIN map : IsDram(map[i])
  BY MachineFacts DEF IInv
<1>2. next \in Nat \ {0} /\ \A k \in 1 .. next - 1 : map[k].base < OneMiB
  BY DEF IInv, LaterStage
<1>3. PICK i \in DOMAIN map : map[i].base = OneMiB
  BY <1>1 DEF IsDram
<1>4. Len(map) \in Nat /\ DOMAIN map = 1 .. Len(map) /\ map[i].base \in Nat
  BY <1>1, MapFacts
<1>5. i \notin 1 .. next - 1
  BY <1>2, <1>3, <1>4
<1>. QED  BY <1>2, <1>4, <1>5

LEMMA LowKeeps ==
  ASSUME MachinesAreSound, IInv, NextLow
  PROVE  IInv'
<1>1. /\ stage = "low" /\ stage' = "low" /\ vm' = UnmapLow(vm, map[next])
      /\ map[next].base < OneMiB /\ next' = next + 1
      /\ UNCHANGED <<map, acpi, apic, mapAt, heaps>>
  BY DEF NextLow, machine
<1>2. /\ Sound(vm, PagesOf(heaps), Reserved(map), map) /\ HeapsShaped(heaps)
      /\ DOMAIN heaps \subseteq {HeapPage} /\ HeapPage \in DOMAIN heaps
      /\ vm.null /\ Walk(vm, 0) = NoPage
      /\ \A v \in 1 .. LowPages - 1 : Walk(vm, v) \in {v, NoPage}
      /\ next \in Nat \ {0} /\ LowIsLost(vm, map, next - 1)
      /\ \A k \in 1 .. next - 1 : map[k].base < OneMiB
      /\ mapAt = HeapPage
  BY <1>1 DEF IInv, LaterStage
<1>3. MapIsSound(map) /\ \E i \in DOMAIN map : IsDram(map[i])
  BY MachineFacts DEF IInv
<1>4. next \in DOMAIN map
  BY <1>1, LowIsInMap
<1>5. PICK R \in SUBSET (3 .. LowPages - 1) :
        /\ Cleared(Layout, vm, vm', R)
        /\ IsFreed(map[next]) => \A v \in 3 .. LowPages - 1 : v \in FreedFor(map[next]) => v \in R
  BY <1>1, <1>2, <1>3, <1>4, SoundPages, LowUnmapped
<1>6. \A w \in UserPages : Walk(vm', w) = IF w \in R THEN NoPage ELSE Walk(vm, w)
  BY <1>5 DEF Cleared
<1>7. \A v \in 3 .. LowPages - 1 : v \in 0 .. LowPages - 1
  OBVIOUS
<1>8. Sound(vm', PagesOf(heaps), Reserved(map), map)
  <2>1. R \cap PagesOf(heaps) = {}
    BY <1>2, <1>7, LowIsNoHeap, LowAreUser
  <2>. QED  BY <1>2, <1>5, <2>1, SoundCleared
<1>9. \A v \in 1 .. LowPages - 1 : Walk(vm', v) \in {v, NoPage}
  <2>1. \A v \in 1 .. LowPages - 1 : v \in 0 .. LowPages - 1
    OBVIOUS
  <2>. QED  BY <1>2, <1>6, <2>1, LowAreUser
<1>10. Walk(vm', 0) = NoPage
  <2>1. 0 \in UserPages /\ 0 \notin R
    BY LowAreUser, BootNumbers
  <2>. QED  BY <1>2, <1>6, <2>1
<1>11. \A k \in 1 .. next : k = next \/ k \in 1 .. next - 1
  BY <1>2
<1>12. LowIsLost(vm', map, next)
  <2>1. ASSUME NEW k \in 1 .. next, IsFreed(map[k]), NEW v \in 3 .. LowPages - 1, v \in FreedFor(map[k])
        PROVE  Walk(vm', v) = NoPage
    <3>1. v \in UserPages
      BY <1>7, LowAreUser
    <3>2. CASE k = next
      BY <1>5, <1>6, <2>1, <3>1, <3>2
    <3>3. CASE k \in 1 .. next - 1
      BY <1>2, <1>6, <2>1, <3>1, <3>3 DEF LowIsLost
    <3>. QED  BY <1>11, <3>2, <3>3
  <2>. QED  BY <2>1 DEF LowIsLost
<1>13. \A k \in 1 .. next : map[k].base < OneMiB
  BY <1>1, <1>2, <1>11
<1>14. vm'.null /\ next + 1 \in Nat \ {0} /\ (next + 1) - 1 = next
  <2>1. vm'.null = vm.null
    BY <1>5 DEF Cleared
  <2>. QED  BY <1>2, <2>1
<1>15. LaterStage'
  BY <1>1, <1>2, <1>8, <1>9, <1>10, <1>12, <1>13, <1>14 DEF LaterStage
<1>. QED  BY <1>1, <1>2, <1>15 DEF IInv, Steps

LEMMA EndLowKeeps ==
  ASSUME MachinesAreSound, IInv, EndLow
  PROVE  IInv'
<1>1. /\ stage = "low" /\ stage' = "apic" /\ map[next].base >= OneMiB
      /\ UNCHANGED <<vm, map, acpi, apic, mapAt, heaps, next>>
  BY DEF EndLow, machine
<1>2. /\ Sound(vm, PagesOf(heaps), Reserved(map), map) /\ HeapsShaped(heaps)
      /\ DOMAIN heaps \subseteq {HeapPage} /\ HeapPage \in DOMAIN heaps
      /\ vm.null /\ Walk(vm, 0) = NoPage
      /\ \A v \in 1 .. LowPages - 1 : Walk(vm, v) \in {v, NoPage}
      /\ next \in Nat \ {0} /\ LowIsLost(vm, map, next - 1)
  BY <1>1 DEF IInv, LaterStage
<1>3. MapIsSound(map) /\ \E i \in DOMAIN map : IsDram(map[i])
  BY MachineFacts DEF IInv
<1>4. next \in DOMAIN map
  BY <1>1, LowIsInMap
<1>5. /\ Len(map) \in Nat /\ DOMAIN map = 1 .. Len(map) /\ OneMiB \in Nat
      /\ \A i \in DOMAIN map : map[i].base \in Nat
  BY <1>3, MapFacts, BootNumbers, Scaled DEF OneMiB
<1>6. LowIsLost(vm, map, Len(map))
  <2>1. ASSUME NEW k \in 1 .. Len(map), IsFreed(map[k]), NEW v \in 3 .. LowPages - 1,
               v \in FreedFor(map[k])
        PROVE  Walk(vm, v) = NoPage
    <3>1. map[k].base < OneMiB
      <4>1. v < LowPages
        BY BootNumbers
      <4>. QED  BY <1>3, <1>5, <2>1, <4>1, LowIsFreedLow
    <3>2. next \notin 1 .. k
      <4>1. next \in 1 .. k => map[next].base < OneMiB
        BY <1>3, <1>5, <3>1 DEF MapIsSound
      <4>. QED  BY <1>1, <1>4, <1>5, <4>1
    <3>3. k \in 1 .. next - 1
      BY <1>2, <3>2
    <3>. QED  BY <1>2, <2>1, <3>3 DEF LowIsLost
  <2>. QED  BY <2>1 DEF LowIsLost
<1>7. LaterStage'
  BY <1>1, <1>2, <1>6 DEF LaterStage
<1>. QED  BY <1>1, <1>7 DEF IInv, Steps

\* A page below 1 MiB is mapped to registers.
LEMMA RegistersMapped ==
  ASSUME NEW m, NEW s, NEW h, Sound(s, PagesOf(h), Reserved(m), m), HeapsShaped(h),
         DOMAIN h \subseteq {HeapPage}, Registers(m) \subseteq Fixed(m) \cap (Frames \ TablesOf(Layout)),
         NEW v \in {1, 2}, NEW p \in Registers(m), NEW t, t = Map(s, v, p).s
  PROVE  /\ Sound(t, PagesOf(h), Reserved(m), m) /\ t.null = s.null
         /\ \A w \in UserPages : Walk(t, w) = IF w = v THEN p ELSE Walk(s, w)
<1>1. v \in 0 .. LowPages - 1 /\ v # 0 /\ v < LowPages
  BY BootNumbers
<1>2. v \in UserPages \ {0} /\ v \notin PagesOf(h)
  BY <1>1, LowAreUser, LowIsNoHeap
<1>3. Pde(v) \in Dirs(Layout)
  BY <1>1, LowAreUser, KernelLayout, FirstTable
<1>4. p \in Frames \ TablesOf(Layout) /\ p \in Reserved(m)
  BY DEF Fixed
<1>5. Remapped(Layout, s, t, v, p)
  BY <1>2, <1>3, <1>4, SoundPages, KernelLayout, MapCorrect
<1>6. Sound(t, PagesOf(h), Reserved(m), m)
  BY <1>1, <1>2, <1>4, <1>5, SoundRemapped
<1>. QED  BY <1>5, <1>6 DEF Remapped

LEMMA ApicKeeps ==
  ASSUME MachinesAreSound, IInv, InitApic
  PROVE  IInv'
<1> DEFINE lapic == Map(vm, 1, LapicFrame).s
           both == Map(lapic, 2, apic.ioapic).s
<1>1. /\ stage = "apic" /\ Goes(apic.isReady, "running")
      /\ vm' = IF apic.isReady THEN both ELSE lapic
      /\ UNCHANGED <<map, acpi, apic, mapAt, heaps, next>>
  BY DEF InitApic, machine
<1>2. /\ Sound(vm, PagesOf(heaps), Reserved(map), map) /\ HeapsShaped(heaps)
      /\ DOMAIN heaps \subseteq {HeapPage} /\ HeapPage \in DOMAIN heaps
      /\ vm.null /\ Walk(vm, 0) = NoPage
      /\ \A v \in 1 .. LowPages - 1 : Walk(vm, v) \in {v, NoPage}
      /\ LowIsLost(vm, map, Len(map))
  BY <1>1 DEF IInv, LaterStage
<1>3. /\ MapIsSound(map) /\ \E i \in DOMAIN map : IsDram(map[i])
      /\ Registers(map) \subseteq Fixed(map) \cap (Frames \ TablesOf(Layout))
      /\ LapicFrame \in Registers(map)
      /\ \A j \in DOMAIN acpi.rsdps :
           /\ acpi.rsdps[j] \in DOMAIN acpi.tables
           /\ IoapicsOf(acpi.tables[acpi.rsdps[j]]) \subseteq Registers(map)
  BY MachineFacts DEF IInv
<1>4. /\ Sound(lapic, PagesOf(heaps), Reserved(map), map) /\ lapic.null = vm.null
      /\ \A w \in UserPages : Walk(lapic, w) = IF w = 1 THEN LapicFrame ELSE Walk(vm, w)
  <2>1. 1 \in {1, 2} /\ lapic = Map(vm, 1, LapicFrame).s
    OBVIOUS
  <2>. HIDE DEF lapic
  <2>2. /\ Sound(vm, PagesOf(heaps), Reserved(map), map) /\ HeapsShaped(heaps)
        /\ DOMAIN heaps \subseteq {HeapPage} /\ LapicFrame \in Registers(map)
        /\ Registers(map) \subseteq Fixed(map) \cap (Frames \ TablesOf(Layout))
    BY <1>2, <1>3
  <2>. QED  BY ONLY <2>1, <2>2, RegistersMapped
<1>. HIDE DEF lapic
<1>5. CASE apic.isReady = FALSE
  <2>1. vm' = lapic /\ stage' = "halted"
    BY <1>1, <1>5 DEF Goes
  <2>2. LaterStage'
    BY <1>1, <1>2, <1>4, <2>1 DEF LaterStage
  <2>. QED  BY <1>1, <2>1, <2>2 DEF IInv, Steps
<1>6. CASE apic.isReady = TRUE
  <2>1. vm' = both /\ stage' = "running"
    BY <1>1, <1>6 DEF Goes
  <2>2. PICK j \in DOMAIN acpi.rsdps : apic.ioapic \in IoapicsOf(acpi.tables[acpi.rsdps[j]])
    BY <1>6 DEF IInv
  <2>3. apic.ioapic \in Registers(map) /\ apic.ioapic \in Ioapics
    BY <1>3, <2>2 DEF Ioapics
  <2>4. /\ Sound(both, PagesOf(heaps), Reserved(map), map) /\ both.null = lapic.null
        /\ \A w \in UserPages : Walk(both, w) = IF w = 2 THEN apic.ioapic ELSE Walk(lapic, w)
    <3>1. 2 \in {1, 2} /\ both = Map(lapic, 2, apic.ioapic).s
      OBVIOUS
    <3>. HIDE DEF both
    <3>2. /\ Sound(lapic, PagesOf(heaps), Reserved(map), map) /\ HeapsShaped(heaps)
          /\ DOMAIN heaps \subseteq {HeapPage} /\ apic.ioapic \in Registers(map)
          /\ Registers(map) \subseteq Fixed(map) \cap (Frames \ TablesOf(Layout))
      BY <1>2, <1>3, <1>4, <2>3
    <3>. QED  BY ONLY <3>1, <3>2, RegistersMapped
  <2>. HIDE DEF both
  <2>5. \A w \in UserPages : Walk(both, w) = IF w = 2 THEN apic.ioapic
                                             ELSE IF w = 1 THEN LapicFrame ELSE Walk(vm, w)
    BY <1>4, <2>4
  <2>6. 0 \in UserPages /\ 1 \in UserPages /\ 2 \in UserPages
    BY LowAreUser, BootNumbers
  <2>7. /\ Walk(both, 0) = NoPage /\ Walk(both, 1) = LapicFrame
        /\ Walk(both, 2) \in Ioapics \cap Fixed(map)
    BY <1>2, <1>3, <2>3, <2>5, <2>6
  <2>8. ASSUME NEW v \in UserPages \ PagesOf(heaps)
        PROVE  Walk(both, v) \in Fixed(map) \cup {NoPage}
    <3>1. v \in Nat /\ LowPages \in Nat
      BY BootNumbers DEF UserPages, Pages
    <3>2. CASE LowPages <= v
      BY <1>3, <2>4, <3>2, KeptFrames DEF Sound
    <3>3. CASE v \in {0, 1, 2}
      BY <1>3, <2>3, <2>5, <2>7, <3>3
    <3>4. CASE v < LowPages /\ v \notin {0, 1, 2}
      <4>1. v \in 3 .. LowPages - 1 /\ v \in 1 .. LowPages - 1 /\ v \in 0 .. LowPages - 1
        BY <3>1, <3>4
      <4>2. Walk(both, v) = Walk(vm, v) /\ Walk(vm, v) \in {v, NoPage}
        BY <1>2, <2>5, <3>4, <4>1
      <4>3. CASE v \in AllFreed(map)
        <5>1. PICK k \in DOMAIN map : IsFreed(map[k]) /\ v \in FreedFor(map[k])
          BY <1>3, <4>3, AllFreedFacts
        <5>2. k \in 1 .. Len(map)
          BY <1>3, MapFacts
        <5>. QED  BY <1>2, <4>1, <4>2, <5>1, <5>2 DEF LowIsLost
      <4>4. CASE v \notin AllFreed(map)
        BY <1>3, <4>1, <4>2, <4>4, KeptFrames
      <4>. QED  BY <4>3, <4>4
    <3>. QED  BY <3>1, <3>2, <3>3, <3>4
  <2>9. Sound(both, PagesOf(heaps), Fixed(map), map)
    BY <1>3, <2>4, <2>8, SoundStarts
  <2>10. both.null
    BY <1>2, <1>4, <2>4
  <2>11. Ioapics' = Ioapics
    BY <1>1 DEF Ioapics
  <2>12. LaterStage'
    BY <1>1, <1>2, <2>1, <2>7, <2>9, <2>10, <2>11 DEF LaterStage
  <2>. QED  BY <1>1, <2>1, <2>12 DEF IInv, Steps
<1>. QED  BY <1>5, <1>6 DEF IInv
------------------------------------------------------------------------------
(***************************************************************************)
(* The life of the heaps.                                                  *)
(***************************************************************************)
\* Neither a translation nor the bitmap differs.
Alike(s, t) ==
  t.pm.used = s.pm.used /\ \A w \in UserPages : Walk(t, w) = Walk(s, w)

LEMMA Running ==
  ASSUME MachinesAreSound, IInv, stage = "running"
  PROVE  /\ Sound(vm, PagesOf(heaps), Fixed(map), map) /\ HeapsShaped(heaps)
         /\ HeapPage \in DOMAIN heaps /\ vm.null = TRUE
         /\ Fixed(map) \subseteq vm.pm.used
         /\ \A w \in {0, 1, 2} : w \in UserPages \ PagesOf(heaps)
         /\ Walk(vm, 0) = NoPage /\ Walk(vm, 1) # NoPage /\ Walk(vm, 2) # NoPage
         /\ Walk(vm, 1) = LapicFrame /\ Walk(vm, 2) \in Ioapics \cap Fixed(map)
<1>1. /\ Sound(vm, PagesOf(heaps), Fixed(map), map) /\ HeapsShaped(heaps)
      /\ HeapPage \in DOMAIN heaps /\ vm.null
      /\ Walk(vm, 0) = NoPage /\ Walk(vm, 1) = LapicFrame
      /\ Walk(vm, 2) \in Ioapics \cap Fixed(map)
  BY DEF IInv, LaterStage
<1>2. /\ MapIsSound(map) /\ \E i \in DOMAIN map : IsDram(map[i])
      /\ LapicFrame \in Fixed(map)
  BY MachineFacts DEF IInv
<1>3. NoPage \notin Fixed(map)
  BY <1>2, KeptFrames
<1>4. 0 \in UserPages /\ 1 \in UserPages /\ 2 \in UserPages
  BY LowAreUser, BootNumbers
<1>5. 0 \notin PagesOf(heaps) /\ 1 \notin PagesOf(heaps) /\ 2 \notin PagesOf(heaps)
  BY <1>1, <1>2 DEF Sound, Loose
<1>6. vm.null = TRUE /\ Fixed(map) \subseteq vm.pm.used
  BY <1>1 DEF Sound, Good, VMType
<1>. QED  BY <1>1, <1>2, <1>3, <1>4, <1>5, <1>6

LEMMA RunningKeeps ==
  ASSUME MachinesAreSound, IInv, stage = "running",
         UNCHANGED <<map, acpi, apic, mapAt, stage, next>>,
         Sound(vm', PagesOf(heaps'), Fixed(map), map), HeapsShaped(heaps'),
         HeapPage \in DOMAIN heaps', vm'.null = vm.null,
         \A w \in {0, 1, 2} : Walk(vm', w) = Walk(vm, w)
  PROVE  IInv'
<1>1. vm'.null /\ Walk(vm', 0) = NoPage /\ Walk(vm', 1) = LapicFrame
      /\ Walk(vm', 2) \in Ioapics \cap Fixed(map)
  BY Running
<1>2. Ioapics' = Ioapics
  BY DEF Ioapics
<1>3. LaterStage'
  BY <1>1, <1>2 DEF LaterStage
<1>. QED  BY <1>3 DEF IInv, Steps

\* An expansion gives the heap more pages or changes nothing.
LEMMA ExpandKeeps ==
  ASSUME MachinesAreSound, IInv, NEW size \in Growths, Expand(size)
  PROVE  IInv' /\ (heaps' = heaps => Alike(vm, vm'))
<1> DEFINE old == heaps[HeapPage]
           pages == old + size
           first == HeapPage + old
           r == AllocHeapAt(vm, first, size)
<1>1. /\ stage = "running" /\ pages <= MaxPages /\ Granted(r, HeapPage, pages)
      /\ UNCHANGED <<map, acpi, apic, mapAt, stage, next>>
  BY DEF Expand, machine
<1>2. /\ Sound(vm, PagesOf(heaps), Fixed(map), map) /\ HeapsShaped(heaps)
      /\ HeapPage \in DOMAIN heaps /\ vm.null = TRUE
      /\ Fixed(map) \subseteq vm.pm.used
  BY <1>1, Running
<1>3. /\ old \in Nat \ {0} /\ size \in Nat \ {0} /\ HeapPage \in Nat /\ MaxPages \in Nat
  <2>1. heaps[HeapPage] \in Nat \ {0}
    BY <1>2 DEF HeapsShaped
  <2>2. size \in Nat \ {0} /\ MaxPages \in Nat
    BY KernelMemSpecAssumption
  <2>3. HeapPage \in Nat
    BY BootNumbers
  <2>. QED  BY <2>1, <2>2, <2>3
<1>. HIDE DEF old
<1>4. /\ pages \in Nat \ {0} /\ old < pages /\ first \in Nat /\ size = pages - old /\ old \in Nat
      /\ FitsAt(HeapPage, pages) /\ size \in Nat
      /\ old = IF HeapPage \in DOMAIN heaps THEN heaps[HeapPage] ELSE 0
  BY <1>1, <1>2, <1>3 DEF old, FitsAt
<1>5. ASSUME NEW v \in first .. HeapPage + pages - 1
      PROVE  v \in Loose(Layout) /\ Walk(vm, v) = NoPage /\ Fan <= v
  <2>1. v \in HeapPage .. HeapPage + MaxPages - 1 /\ HeapPage + old <= v /\ v \in Nat /\ Fan <= v
    BY <1>1, <1>3, HeapPageIsHigh
  <2>2. v \in Spare
    BY <2>1 DEF Spare
  <2>3. v \notin PagesOf(heaps)
    <3>. SUFFICES ASSUME v \in PagesOf(heaps) PROVE FALSE
      OBVIOUS
    <3>1. PICK p \in DOMAIN heaps : v \in p .. p + heaps[p] - 1
      BY DEF PagesOf
    <3>2. p # HeapPage
      BY <1>3, <2>1, <3>1 DEF old
    <3>3. p \in 1 .. Fan - 1 /\ p + heaps[p] <= Fan /\ heaps[p] \in Nat
      BY <1>2, <3>2 DEF HeapsShaped
    <3>. QED  BY <2>1, <3>1, <3>3, BootNumbers
  <2>4. v \in Loose(Layout) /\ v \in UserPages
    BY <2>2, LoosePages DEF Loose
  <2>. QED  BY <1>2, <2>1, <2>2, <2>3, <2>4 DEF Sound
<1>6. first = HeapPage + old
  OBVIOUS
<1>. HIDE DEF first, pages
<1>7. PICK t : \/ Given(vm, heaps, Fixed(map), map, HeapPage, pages, first, r, t)
               \/ Refused(vm, heaps, Fixed(map), map, r, t)
  BY <1>2, <1>3, <1>4, <1>5, <1>6, AllocKeeps
<1>8. \A w \in {0, 1, 2} : w \in UserPages /\ w \notin first .. HeapPage + pages - 1
  <2>1. \A w \in {0, 1, 2} : w \in UserPages
    BY <1>1, Running
  <2>2. \A w \in {0, 1, 2} : ~(Fan <= w)
    BY BootNumbers
  <2>. QED  BY <1>5, <2>1, <2>2
<1>. HIDE DEF r
<1>9. CASE Given(vm, heaps, Fixed(map), map, HeapPage, pages, first, r, t)
  <2>1. /\ vm' = t /\ heaps' = Extended(heaps, HeapPage, pages)
        /\ Sound(t, PagesOf(heaps'), Fixed(map), map) /\ HeapsShaped(heaps')
        /\ Taken(Layout, vm, t, first .. HeapPage + pages - 1)
    BY <1>1, <1>9 DEF Given, Granted, With, Extended
  <2>2. \A w \in {0, 1, 2} : Walk(t, w) = Walk(vm, w)
    BY <1>8, <2>1 DEF Taken
  <2>3. t.null = vm.null
    BY <2>1 DEF Taken
  <2>4. HeapPage \in DOMAIN heaps' /\ heaps'[HeapPage] = pages
    BY <2>1 DEF Extended
  <2>5. heaps' # heaps
    BY <1>4, <2>4 DEF old
  <2>. QED  BY <1>1, <2>1, <2>2, <2>3, <2>4, <2>5, RunningKeeps
<1>10. CASE Refused(vm, heaps, Fixed(map), map, r, t)
  <2>1. /\ vm' = t /\ heaps' = heaps
        /\ Sound(t, PagesOf(heaps'), Fixed(map), map) /\ HeapsShaped(heaps')
        /\ Taken(Layout, vm, t, {})
    BY <1>1, <1>2, <1>10 DEF Refused, Granted
  <2>2. t.null = vm.null /\ Alike(vm, t)
    BY <2>1 DEF Taken, Alike
  <2>3. \A w \in {0, 1, 2} : Walk(t, w) = Walk(vm, w)
    BY <1>8, <2>2 DEF Alike
  <2>. QED  BY <1>1, <1>2, <2>1, <2>2, <2>3, RunningKeeps
<1>. QED  BY <1>7, <1>9, <1>10

\* Pages for a new heap are found, and given to it or left alone.
LEMMA NewHeapKeeps ==
  ASSUME MachinesAreSound, IInv, NEW size \in Growths, NewHeap(size)
  PROVE  IInv' /\ (heaps' = heaps => Alike(vm, vm'))
<1> DEFINE g == VirtGetUsablePage(vm, size)
           u == g.s
           page == g.ret
           r == AllocHeap(vm, size)
<1>1. /\ stage = "running" /\ Cardinality(DOMAIN heaps) < MaxHeaps /\ Granted(r, r.page, size)
      /\ UNCHANGED <<map, acpi, apic, mapAt, stage, next>>
  BY DEF NewHeap, machine
<1>2. /\ Sound(vm, PagesOf(heaps), Fixed(map), map) /\ HeapsShaped(heaps)
      /\ HeapPage \in DOMAIN heaps /\ vm.null = TRUE
      /\ Fixed(map) \subseteq vm.pm.used
      /\ \A w \in {0, 1, 2} : w \in UserPages \ PagesOf(heaps)
      /\ Walk(vm, 1) # NoPage /\ Walk(vm, 2) # NoPage
  BY <1>1, Running
<1>3. size \in Nat \ {0}
  BY KernelMemSpecAssumption
<1>4. PICK c \in HhkEnd .. Fan - 1 :
        c + size <= Fan /\ \A v \in c .. c + size - 1 : v \notin PagesOf(heaps)
  BY <1>1, <1>2, SlotFree
<1>5. \A v \in c .. c + size - 1 : Walk(vm, v) = NoPage
  <2>1. ASSUME NEW v \in c .. c + size - 1 PROVE Walk(vm, v) = NoPage
    <3>1. v \in HhkEnd .. Fan - 1 /\ v \in 0 .. Fan - 1
      BY <1>3, <1>4, BootNumbers
    <3>2. v \in Spare /\ v \in UserPages \ PagesOf(heaps)
      BY <1>4, <3>1, LowUserPages DEF Spare
    <3>. QED  BY <1>2, <3>2 DEF Sound
  <2>. QED  BY <2>1
<1>6. Good(Layout, vm) /\ PageIsUsing(vm, 0) /\ c \in 1 .. Fan - 1
  <2>1. Good(Layout, vm)
    BY <1>2, SoundPages
  <2>. QED  BY <1>2, <2>1, BootNumbers DEF PageIsUsing
<1>7. /\ page \in 1 .. c /\ page # NoPage
      /\ \A v \in page .. page + size - 1 :
           v \in Loose(Layout) /\ v \in 1 .. Fan - 1 /\ Walk(vm, v) = NoPage
      /\ Cleared(Layout, vm, u, {})
  BY <1>3, <1>4, <1>5, <1>6, KernelLayout, SearchStays
<1>8. r = AllocHeapAt(u, page, size)
  BY <1>7 DEF AllocHeap, AllocFound
<1>. HIDE DEF g, r
<1>9. /\ Sound(u, PagesOf(heaps), Fixed(map), map) /\ u.null = vm.null /\ Alike(vm, u)
      /\ Fixed(map) \subseteq u.pm.used
  <2>1. {} \cap PagesOf(heaps) = {}
    OBVIOUS
  <2>2. Sound(u, PagesOf(heaps), Fixed(map), map)
    BY <1>2, <1>7, <2>1, SoundCleared
  <2>. QED  BY <1>2, <1>7, <2>2 DEF Cleared, Alike
<1>10. /\ page \in Nat /\ page \in page .. page + size - 1 /\ page # HeapPage
       /\ FitsAt(page, size)
  <2>1. page \in Nat /\ page <= c /\ c < Fan /\ page # HeapPage /\ page + size <= Fan
        /\ page \in 1 .. Fan - 1
    BY <1>3, <1>4, <1>6, <1>7, HeapPageIsHigh
  <2>. HIDE DEF page
  <2>. QED  BY <1>3, <2>1 DEF FitsAt
<1>. HIDE DEF page, u
<1>11. page \notin DOMAIN heaps
  <2>1. page \notin PagesOf(heaps)
    BY <1>2, <1>7, <1>10, SoundHeaps
  <2>2. ASSUME page \in DOMAIN heaps PROVE page \in PagesOf(heaps)
    <3>1. heaps[page] \in Nat \ {0}
      BY <1>2, <2>2 DEF HeapsShaped
    <3>2. page \in page .. page + heaps[page] - 1
      BY <1>10, <3>1
    <3>. QED  BY <2>2, <3>2 DEF PagesOf
  <2>. QED  BY <2>1, <2>2
<1>12. \A v \in page .. page + size - 1 : v \in Loose(Layout) /\ Walk(u, v) = NoPage
  BY <1>7, <1>9 DEF Alike, Loose
<1>13. PICK t : \/ Given(u, heaps, Fixed(map), map, page, size, page, r, t)
                \/ Refused(u, heaps, Fixed(map), map, r, t)
  <2>1. /\ 0 \in Nat /\ 0 < size /\ 0 = IF page \in DOMAIN heaps THEN heaps[page] ELSE 0
        /\ page = page + 0 /\ size = size - 0 /\ size \in Nat
    BY <1>3, <1>10, <1>11
  <2>. QED  BY <1>2, <1>3, <1>8, <1>9, <1>10, <1>12, <2>1, AllocKeeps
<1>14. \A w \in {0, 1, 2} : w \in UserPages /\ w \notin page .. page + size - 1
  <2>1. 0 \notin page .. page + size - 1
    BY <1>7
  <2>. QED  BY <1>2, <1>7, <2>1
<1>15. CASE Given(u, heaps, Fixed(map), map, page, size, page, r, t)
  <2>1. /\ vm' = t /\ heaps' = Extended(heaps, page, size)
        /\ Sound(t, PagesOf(heaps'), Fixed(map), map) /\ HeapsShaped(heaps')
        /\ Taken(Layout, u, t, page .. page + size - 1)
    BY <1>1, <1>15 DEF Given, Granted, With, Extended
  <2>2. \A w \in {0, 1, 2} : Walk(t, w) = Walk(vm, w)
    BY <1>9, <1>14, <2>1 DEF Taken, Alike
  <2>3. t.null = vm.null
    BY <1>9, <2>1 DEF Taken
  <2>4. DOMAIN heaps' = DOMAIN heaps \cup {page}
    BY <2>1 DEF Extended
  <2>5. heaps' # heaps /\ HeapPage \in DOMAIN heaps'
    BY <1>2, <1>11, <2>4
  <2>. QED  BY <1>1, <2>1, <2>2, <2>3, <2>5, RunningKeeps
<1>16. CASE Refused(u, heaps, Fixed(map), map, r, t)
  <2>1. /\ vm' = t /\ heaps' = heaps
        /\ Sound(t, PagesOf(heaps'), Fixed(map), map) /\ HeapsShaped(heaps')
        /\ Taken(Layout, u, t, {})
    BY <1>1, <1>2, <1>16 DEF Refused, Granted
  <2>2. t.null = vm.null /\ Alike(vm, t)
    BY <1>9, <2>1 DEF Taken, Alike
  <2>3. \A w \in {0, 1, 2} : Walk(t, w) = Walk(vm, w)
    BY <1>14, <2>2 DEF Alike
  <2>. QED  BY <1>1, <1>2, <2>1, <2>2, <2>3, RunningKeeps
<1>. QED  BY <1>13, <1>15, <1>16

LEMMA FreeHeapKeeps ==
  ASSUME MachinesAreSound, IInv, NEW page \in DOMAIN heaps, FreeHeap(page)
  PROVE  IInv' /\ heaps' # heaps
<1> DEFINE n == heaps[page]
           q == PageRun(page, n)
           R == page .. page + n - 1
<1>1. /\ stage = "running" /\ page # HeapPage /\ vm' = FoldLeft(ReleasePage, vm, q)
      /\ heaps' = Without(heaps, page)
      /\ UNCHANGED <<map, acpi, apic, mapAt, stage, next>>
  BY DEF FreeHeap, FreeHeapPages, machine, Without
<1>2. /\ Sound(vm, PagesOf(heaps), Fixed(map), map) /\ HeapsShaped(heaps)
      /\ HeapPage \in DOMAIN heaps
      /\ \A w \in {0, 1, 2} : w \in UserPages \ PagesOf(heaps)
  BY <1>1, Running
<1>3. n \in Nat /\ page \in Nat
  <2>1. n \in Nat /\ page \in 1 .. Fan - 1
    BY <1>1, <1>2 DEF HeapsShaped
  <2>. QED  BY <2>1
<1>4. R \subseteq PagesOf(heaps)
  BY DEF PagesOf
<1>. HIDE DEF n
<1>5. DOMAIN q = 1 .. n /\ \A i \in 1 .. n : q[i] = page + i - 1
  BY DEF PageRun
<1>6. {q[i] : i \in 1 .. n} = R
  <2>1. \A v \in R : v - page + 1 \in 1 .. n /\ page + (v - page + 1) - 1 = v
    BY <1>3
  <2>2. \A i \in 1 .. n : page + i - 1 \in R
    BY <1>3
  <2>. HIDE DEF q, R
  <2>. QED  BY <1>5, <2>1, <2>2
<1>. HIDE DEF q, R
<1>7. Good(Layout, vm) /\ PagesOf(heaps) \subseteq Loose(Layout)
  BY <1>2 DEF Sound
<1>8. \A i \in 1 .. n : q[i] \in Loose(Layout)
  BY <1>4, <1>6, <1>7
<1>9. Released(Layout, vm, vm', R)
  <2>1. Released(Layout, vm, FoldLeft(ReleasePage, vm, q), {q[i] : i \in 1 .. n})
    <3>1. IsLayout(Layout) /\ Good(Layout, vm) /\ n \in Nat /\ DOMAIN q = 1 .. n
          /\ \A i \in 1 .. n : q[i] \in Loose(Layout)
      BY <1>3, <1>5, <1>7, <1>8, KernelLayout
    <3>. QED  BY ONLY <3>1, ReleaseAll
  <2>. QED  BY <1>1, <1>6, <2>1
<1>10. HeapsShaped(heaps') /\ PagesOf(heaps') = PagesOf(heaps) \ R
  BY <1>1, <1>2, HeapsShrink DEF R, n
<1>11. Sound(vm', PagesOf(heaps'), Fixed(map), map)
  BY <1>2, <1>4, <1>9, <1>10, SoundReleased
<1>12. vm'.null = vm.null /\ \A w \in {0, 1, 2} : Walk(vm', w) = Walk(vm, w)
  BY <1>2, <1>4, <1>9 DEF Released
<1>13. DOMAIN heaps' = DOMAIN heaps \ {page}
  BY <1>1 DEF Without
<1>14. IInv'
  BY <1>1, <1>2, <1>10, <1>11, <1>12, <1>13, RunningKeeps
<1>. QED  BY <1>13, <1>14
------------------------------------------------------------------------------
(***************************************************************************)
(* The invariant holds all the time, and what follows from it.             *)
(***************************************************************************)
LEMMA InvNext ==
  ASSUME MachinesAreSound, IInv, [Next]_vars
  PROVE  IInv'
<1>1. CASE InitMemory
  BY <1>1, MemoryKeeps
<1>2. CASE InitAcpi
  BY <1>2, AcpiKeeps
<1>3. CASE GiveUpNull
  BY <1>3, NullKeeps
<1>4. CASE NextRegion
  BY <1>4, RegionKeeps
<1>5. CASE EndRegions
  BY <1>5, RegionsKeep
<1>6. CASE NextLow
  BY <1>6, LowKeeps
<1>7. CASE EndLow
  BY <1>7, EndLowKeeps
<1>8. CASE InitApic
  BY <1>8, ApicKeeps
<1>9. ASSUME NEW size \in Growths, Expand(size) PROVE IInv'
  BY <1>9, ExpandKeeps
<1>10. ASSUME NEW size \in Growths, NewHeap(size) PROVE IInv'
  BY <1>10, NewHeapKeeps
<1>11. ASSUME NEW page \in DOMAIN heaps, FreeHeap(page) PROVE IInv'
  BY <1>11, FreeHeapKeeps
<1>12. CASE UNCHANGED vars
  <2>1. /\ vm' = vm /\ map' = map /\ acpi' = acpi /\ apic' = apic /\ mapAt' = mapAt
        /\ heaps' = heaps /\ stage' = stage /\ next' = next
    BY <1>12 DEF vars
  <2>2. Ioapics' = Ioapics
    BY <2>1 DEF Ioapics
  <2>3. FirstStage' = FirstStage
    BY <2>1 DEF FirstStage
  <2>4. LaterStage' = LaterStage
    BY <2>1, <2>2 DEF LaterStage
  <2>. QED  BY <2>1, <2>3, <2>4 DEF IInv
<1>. QED  BY <1>1, <1>2, <1>3, <1>4, <1>5, <1>6, <1>7, <1>8, <1>9, <1>10, <1>11, <1>12
             DEF Next, Boot, Halted, SpinOn

\* The inductive invariant: the bitmap, the translations, the heaps and the step of
\* kernelMain that is next fit together after every step.
THEOREM MemoryIsSound ==
  ASSUME MachinesAreSound
  PROVE  Spec => []IInv
<1>1. Init => IInv
  BY InvInit
<1>2. IInv /\ [Next]_vars => IInv'
  BY InvNext
<1>. QED  BY <1>1, <1>2, PTL DEF Spec

\* What the theorems use of the invariant once kernelMemInit has run.
LEMMA LaterFacts ==
  ASSUME MachinesAreSound, IInv, stage # "memory"
  PROVE  /\ MapIsSound(map) /\ \E i \in DOMAIN map : IsDram(map[i])
         /\ HeapPages = PagesOf(heaps)
         /\ \A v \in HeapPages : Walk(vm, v) \in vm.pm.used \ Fixed(map)
         /\ \A v \in HeapPages : \A w \in UserPages : Walk(vm, w) = Walk(vm, v) => w = v
         /\ Fixed(map) \subseteq vm.pm.used /\ vm.pm.used \subseteq Frames
         /\ vm.pm.used \subseteq Reserved(map) \cup {Walk(vm, v) : v \in HeapPages}
         /\ NoPage \notin Frames
<1> DEFINE kept == IF stage = "running" THEN Fixed(map) ELSE Reserved(map)
<1>1. MapIsSound(map) /\ \E i \in DOMAIN map : IsDram(map[i])
  BY MachineFacts DEF IInv
<1>2. HeapPages = PagesOf(heaps)
  BY DEF HeapPages, PagesOf
<1>3. Sound(vm, PagesOf(heaps), kept, map)
  BY DEF IInv, LaterStage
<1>4. Fixed(map) \subseteq kept
  BY <1>1, KeptFrames
<1>5. vm.pm.used \subseteq Frames /\ NoPage \notin Frames
  BY <1>3, SoundPages, KernelLayout, LayoutFacts
<1>. HIDE DEF kept
<1>6. ASSUME NEW v \in HeapPages, NEW w \in UserPages, Walk(vm, w) = Walk(vm, v)
      PROVE  w = v
  <2>1. Walk(vm, v) \in vm.pm.used \ kept /\ Walk(vm, v) # NoPage
    BY <1>2, <1>3, <1>5 DEF Sound
  <2>2. w \in PagesOf(heaps)
    BY <1>3, <1>6, <2>1 DEF Sound
  <2>. QED  BY <1>2, <1>3, <1>6, <2>2 DEF Sound
<1>7. \A v \in HeapPages : Walk(vm, v) \in vm.pm.used \ Fixed(map)
  BY <1>2, <1>3, <1>4 DEF Sound
<1>8. /\ Fixed(map) \subseteq vm.pm.used
      /\ vm.pm.used \subseteq Reserved(map) \cup {Walk(vm, v) : v \in HeapPages}
  BY <1>2, <1>3 DEF Sound
<1>. QED  BY <1>1, <1>2, <1>5, <1>6, <1>7, <1>8

LEMMA FirstFacts ==
  ASSUME IInv, stage = "memory"
  PROVE  vm = Booted(InitPhysMem) /\ HeapPages = {}
<1>1. vm = Booted(InitPhysMem) /\ heaps = NoHeaps
  BY DEF IInv, FirstStage, NoHeaps
<1>2. HeapPages = PagesOf(heaps)
  BY DEF HeapPages, PagesOf
<1>. QED  BY <1>1, <1>2, NoHeapsShaped

\* Pages of the heaps, also of different heaps, stand for distinct frames that are
\* marked as used and belong neither to the kernel nor to its tables
\* (memManager.cpp:86-99, kernelMem.cpp:14-22).
THEOREM HeapsHaveTheirFrames ==
  ASSUME MachinesAreSound
  PROVE  Spec => []HeapsAreBacked
<1>1. IInv => HeapsAreBacked
  <2>. SUFFICES ASSUME IInv PROVE HeapsAreBacked
    OBVIOUS
  <2>1. CASE stage = "memory"
    BY <2>1, FirstFacts DEF HeapsAreBacked
  <2>2. CASE stage # "memory"
    <3>1. LowPages .. KernelEnd - 1 \subseteq Fixed(map)
      BY <2>2, LaterFacts, KeptFrames
    <3>. QED  BY <2>2, <3>1, LaterFacts DEF HeapsAreBacked, Used
  <2>. QED  BY <2>1, <2>2
<1>. QED  BY <1>1, MemoryIsSound, PTL

\* While the kernel runs no page leads to a frame that GetUsablePage may hand out
\* (kernel.cpp:64-90, memManager.cpp:86-117).
THEOREM FreeFramesAreNobodys ==
  ASSUME MachinesAreSound
  PROVE  Spec => []FreeFramesAreUnmapped
<1>1. IInv => FreeFramesAreUnmapped
  <2>. SUFFICES ASSUME IInv, stage = "running", NEW v \in UserPages
                PROVE  Walk(vm, v) \in Used \cup {NoPage}
    BY DEF FreeFramesAreUnmapped
  <2>1. Sound(vm, PagesOf(heaps), Fixed(map), map)
    BY Running
  <2>. QED  BY <2>1 DEF Sound, Used
<1>. QED  BY <1>1, MemoryIsSound, PTL

\* Whatever frame is free, or in a heap, lies in a region that the map calls memory
\* (kernelMem.cpp:14-22, kernel.cpp:71-76).
THEOREM FramesAreOfMemory ==
  ASSUME MachinesAreSound
  PROVE  Spec => []FramesAreMemory
<1>1. IInv => FramesAreMemory
  <2>. SUFFICES ASSUME IInv, stage # "memory",
                       NEW f \in (Frames \ Used) \cup {Walk(vm, v) : v \in HeapPages}
                PROVE  \E i \in DOMAIN map : map[i].type = 1 /\ InRegion(f, map[i])
    BY DEF FramesAreMemory
  <2>1. f \in Frames /\ f \notin Fixed(map)
    BY LaterFacts DEF Used
  <2>2. MapIsSound(map) /\ \E i \in DOMAIN map : IsDram(map[i])
    BY LaterFacts
  <2>3. CASE f \in AllFreed(map)
    BY <2>2, <2>3, AllFreedFacts
  <2>4. CASE f \notin AllFreed(map)
    <3>1. f \notin Reserved(map)
      BY <2>1, <2>4 DEF Fixed
    <3>2. Top(map) \in Nat /\ \E i \in DOMAIN map : Dram(map) = map[i] /\ map[i].type = 1
      BY <2>2, MapFacts
    <3>3. f \in LowPages .. Top(map) - 1 /\ f \in Nat
      BY <2>1, <3>1, <3>2, BootNumbers DEF Reserved
    <3>4. InRegion(f, Dram(map))
      BY <2>2, <3>3, FramesOfDram
    <3>. QED  BY <3>2, <3>4
  <2>. QED  BY <2>3, <2>4
<1>. QED  BY <1>1, MemoryIsSound, PTL

\* Nothing of DRAM behind the kernel is lost: it is free or a heap has it
\* (kernelMem.cpp:14-22).
THEOREM DramIsNotLost ==
  ASSUME MachinesAreSound
  PROVE  Spec => []DramIsUsable
<1>1. IInv => DramIsUsable
  <2>. SUFFICES ASSUME IInv, stage # "memory", NEW f \in KernelEnd .. NFrames - 1,
                       InRegion(f, Dram(map)), f \in Used
                PROVE  \E v \in HeapPages : Walk(vm, v) = f
    BY DEF DramIsUsable
  <2>1. MapIsSound(map) /\ \E i \in DOMAIN map : IsDram(map[i])
    BY LaterFacts
  <2>2. f \in Nat /\ KernelEnd <= f
    BY BootNumbers
  <2>3. f < Top(map) /\ Top(map) \in Nat
    BY <2>1, <2>2, FramesOfDram, MapFacts
  <2>4. f \notin Reserved(map)
    BY <2>2, <2>3, BootNumbers DEF Reserved
  <2>. QED  BY <2>4, LaterFacts DEF Used
<1>. QED  BY <1>1, MemoryIsSound, PTL

\* kernelMain never reads the memory map through a page that it, or ACPI::init, has
\* unmapped (kernel.cpp:28-90).
THEOREM MapStaysReadable ==
  ASSUME MachinesAreSound
  PROVE  Spec => []MapIsReadable
<1>1. IInv => MapIsReadable
  <2>. SUFFICES ASSUME IInv, stage \in {"memory", "acpi", "regions", "low"}
                PROVE  Walk(vm, mapAt) # NoPage
    BY DEF MapIsReadable
  <2>1. ASSUME mapAt \in MapPages
        PROVE  mapAt \in 1 .. HhkEnd - 1 /\ mapAt \in UserPages /\ mapAt # NoPage
    <3>1. mapAt \in 1 .. HhkEnd - 1
      BY <2>1, KernelMemSpecAssumption
    <3>2. mapAt \in 0 .. Fan - 1 /\ mapAt # NoPage
      BY <3>1, BootNumbers
    <3>. QED  BY <3>1, <3>2, LowUserPages
  <2>2. CASE stage = "memory"
    <3>1. mapAt \in UserPages /\ mapAt < HhkEnd /\ mapAt # NoPage
      BY <2>1, <2>2, BootNumbers DEF IInv
    <3>. QED  BY <2>2, <3>1, FirstFacts, BootWalks
  <2>3. CASE stage \in {"acpi", "regions"}
    <3>1. mapAt \in 1 .. HhkEnd - 1 /\ mapAt # NoPage
      BY <2>1, <2>3 DEF IInv
    <3>2. LowIsSelf(vm) /\ Good(Layout, vm)
      BY <2>3, SoundPages DEF IInv, LaterStage
    <3>3. mapAt \in 1 .. LowPages - 1 \/ mapAt \in Layout.pinned
      BY <3>1, BootNumbers, LayoutParts
    <3>. QED  BY <3>1, <3>2, <3>3 DEF LowIsSelf, Good
  <2>4. CASE stage = "low"
    <3>1. mapAt = HeapPage /\ HeapPage \in DOMAIN heaps /\ HeapsShaped(heaps)
      BY <2>4 DEF IInv, LaterStage
    <3>2. heaps[HeapPage] \in Nat \ {0}
      BY <3>1 DEF HeapsShaped
    <3>3. HeapPage \in HeapPage .. HeapPage + heaps[HeapPage] - 1
      BY <3>2, BootNumbers
    <3>4. HeapPage \in HeapPages
      BY <3>1, <3>3 DEF HeapPages
    <3>. QED  BY <2>4, <3>1, <3>4, LaterFacts
  <2>. QED  BY <2>2, <2>3, <2>4
<1>. QED  BY <1>1, MemoryIsSound, PTL

\* Pages 1 and 2 lead to the registers of the APICs for as long as the kernel runs
\* (LAPIC.cpp:17, IOAPIC.cpp:26-28).
THEOREM ApicStaysMapped ==
  ASSUME MachinesAreSound
  PROVE  Spec => []ApicIsMapped
<1>1. IInv => ApicIsMapped
  BY Running DEF ApicIsMapped
<1>. QED  BY <1>1, MemoryIsSound, PTL

\* The rollback of allocHeap is complete (memManager.cpp:92-98): a call that fails
\* changes neither a translation nor the bitmap.
THEOREM FailuresChangeNothing ==
  ASSUME MachinesAreSound
  PROVE  Spec => FailureChangesNothing
<1> DEFINE Failed == stage = "running" /\ heaps' = heaps => Space' = Space /\ Used' = Used
<1>1. IInv /\ [Next]_vars => [Failed]_vm
  <2>. SUFFICES ASSUME IInv, [Next]_vars, stage = "running", heaps' = heaps, vm' # vm
                PROVE  Space' = Space /\ Used' = Used
    OBVIOUS
  <2>1. PICK size \in Growths : Expand(size) \/ NewHeap(size)
    <3>1. ~Boot
      BY DEF Boot, InitMemory, InitAcpi, GiveUpNull, NextRegion, EndRegions, NextLow, EndLow,
             InitApic
    <3>2. ~(Halted \/ SpinOn \/ UNCHANGED vars)
      BY DEF Halted, SpinOn, vars
    <3>3. ~\E page \in DOMAIN heaps : FreeHeap(page)
      BY FreeHeapKeeps
    <3>. QED  BY <3>1, <3>2, <3>3 DEF Next
  <2>2. Alike(vm, vm')
    BY <2>1, ExpandKeeps, NewHeapKeeps
  <2>. QED  BY <2>2 DEF Alike, Space, Used
<1>. QED  BY <1>1, MemoryIsSound, PTL DEF Spec, FailureChangesNothing

\* ACPI::init takes back all it has mapped (ACPI.cpp:55-99).
THEOREM AcpiTakesAllBack ==
  ASSUME MachinesAreSound
  PROVE  Spec => AcpiLeavesNoTrace
<1> DEFINE Left == stage = "acpi" /\ stage' = "nullptr" => Space' = Space /\ Used' = Used
<1>1. IInv /\ [Next]_vars => [Left]_vars
  <2>. SUFFICES ASSUME IInv, [Next]_vars, stage = "acpi", stage' = "nullptr"
                PROVE  Space' = Space /\ Used' = Used
    OBVIOUS
  <2>1. InitAcpi
    BY DEF Next, Boot, Halted, SpinOn, vars, InitMemory, GiveUpNull, NextRegion, EndRegions, NextLow,
           EndLow, InitApic, Expand, NewHeap, FreeHeap
  <2>2. Cleared(Layout, vm, vm', {})
    BY <2>1, AcpiSteps
  <2>. QED  BY <2>2 DEF Cleared, Space, Used
<1>. QED  BY <1>1, MemoryIsSound, PTL DEF Spec, AcpiLeavesNoTrace
==============================================================================

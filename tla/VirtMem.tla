------------------------------- MODULE VirtMem -------------------------------
(***************************************************************************)
(* The virtual memory of the kernel: namespace VirtMem of                  *)
(* kernel/src/memManager/virtMem.cpp, on the processor's two-level page    *)
(* tables.                                                                 *)
(*                                                                         *)
(* A page table is the content of a physical frame: mem[f][i] is entry i   *)
(* of frame f, the frame it points at or NoPage when its present bit is 0. *)
(* Frame PageDir is the directory, and its last entry points at itself, so *)
(* the page <<Rec, d>> is a window onto the table of entry d: the code     *)
(* reads and writes tables through these windows only.                     *)
(*                                                                         *)
(* The processor caches translations: tlb[v] is what it remembers of page  *)
(* v, or NoPage.  It may cache any translation it can compute and forget   *)
(* any, at any time; only invlpg makes it forget one for certain.          *)
(*                                                                         *)
(* The state is a record                                                   *)
(*     s = [pm, mem, tlb, null, upiDir]                                    *)
(* where pm is the state of PhysMem.  usablePageIndexLast is never written *)
(* by the code (virtMem.cpp:7) and is the constant 0 here.                 *)
(***************************************************************************)
EXTENDS PhysMem

CONSTANTS
  Fan,      \* entries of a page table: 1024
  PageDir   \* the frame of the page directory

ASSUME VirtMemAssumption ==
  /\ Fan \in Nat
  /\ 2 <= Fan
  /\ PageDir \in Frames

Idx == 0 .. Fan - 1
Rec == Fan - 1
Pages == 0 .. Fan * Fan - 1
Entries == Frames \cup {NoPage}
Tables == [Idx -> Entries]

Pde(v) == v \div Fan
Pte(v) == v % Fan
PageOf(d, i) == d * Fan + i
WindowPage(d) == PageOf(Rec, d)

\* The pages that are not windows.
UserPages == {v \in Pages : Pde(v) # Rec}
------------------------------------------------------------------------------
(***************************************************************************)
(* The processor.                                                          *)
(***************************************************************************)
\* The translation of page v that the tables give.
Walk(s, v) ==
  IF s.mem[PageDir][Pde(v)] = NoPage THEN NoPage
  ELSE s.mem[s.mem[PageDir][Pde(v)]][Pte(v)]

\* The frame that an access to page v reaches.
Lookup(s, v) == IF s.tlb[v] # NoPage THEN s.tlb[v] ELSE Walk(s, v)

\* Mutant of the next definition: invlpg is not executed.
Invlpg_None(s, v) == s

Invlpg(s, v) == [s EXCEPT !.tlb[v] = NoPage]
------------------------------------------------------------------------------
(***************************************************************************)
(* Entries of the directory and of the tables.  The directory's own window *)
(* is never remapped, so an access to the directory reaches PageDir.       *)
(***************************************************************************)
PdeEntry(s, d) == s.mem[PageDir][d]

HasTable(s, d) == d # Rec /\ PdeEntry(s, d) # NoPage

PteEntry(s, d, i) ==
  IF HasTable(s, d) THEN s.mem[Lookup(s, WindowPage(d))][i] ELSE NoPage

SetPDEEntry(s, d, e) == [s EXCEPT !.mem[PageDir][d] = e]

SetPTEEntry(s, d, i, e) ==
  IF HasTable(s, d) THEN [s EXCEPT !.mem[Lookup(s, WindowPage(d))][i] = e] ELSE s

\* The loop that clears a table it has just put into the directory.
ClearTable(s, d) ==
  IF HasTable(s, d)
  THEN [s EXCEPT !.mem[Lookup(s, WindowPage(d))] = [i \in Idx |-> NoPage]]
  ELSE s

PageIsUsing(s, v) ==
  v \notin Pages \/ (s.null /\ v = 0) \/ PteEntry(s, Pde(v), Pte(v)) # NoPage

VirtPageToPhysPage(s, v) ==
  IF v \in Pages THEN PteEntry(s, Pde(v), Pte(v)) ELSE NoPage
------------------------------------------------------------------------------
(***************************************************************************)
(* map.  When the directory has no table for the page, a frame is taken    *)
(* for one; the frame that is then marked as used is not that frame but    *)
(* the one the caller asked to map (virtMem.cpp:135).  An existing entry   *)
(* is overwritten.                                                         *)
(***************************************************************************)
NewTable(s, d, p) ==
  LET r == GetUsablePage(s.pm)
      t == [s EXCEPT !.pm = SetPageUsage(r.pm, p, TRUE)]
  IN  [ok |-> r.ret # NoPage,
       s |-> IF r.ret = NoPage THEN [s EXCEPT !.pm = r.pm]
             ELSE ClearTable(SetPDEEntry(t, d, r.ret), d)]

\* Mutant: map does not look whether page 0 has been given up.
MapRefused_NoNull(s, v, p) == v \notin Pages \/ p \notin Frames

MapRefused(s, v, p) == v \notin Pages \/ p \notin Frames \/ (s.null /\ v = 0)

Enter(s, v, p) == Invlpg(SetPTEEntry(s, Pde(v), Pte(v), p), v)

\* Mutant: the page and the table entry are taken from the same bits.
Map_WrongEntry(s, v, p) ==
  [ok |-> TRUE, s |-> Invlpg(SetPTEEntry(s, Pde(v), Pde(v), p), v)]

Map(s, v, p) ==
  IF MapRefused(s, v, p) THEN [ok |-> FALSE, s |-> s]
  ELSE IF PdeEntry(s, Pde(v)) # NoPage THEN [ok |-> TRUE, s |-> Enter(s, v, p)]
  ELSE LET r == NewTable(s, Pde(v), p)
       IN  [ok |-> r.ok, s |-> IF r.ok THEN Enter(r.s, v, p) ELSE r.s]

(***************************************************************************)
(* unmap clears the entry, and gives the table back when it was the last   *)
(* one.  Neither the window of that table nor anything else but the page   *)
(* itself is flushed.                                                      *)
(***************************************************************************)
TableIsEmpty(s, d) == \A i \in Idx : PteEntry(s, d, i) = NoPage

\* Mutant: a table is given back when the entry just cleared was in use.
ReturnTable_Always(s, d) ==
  SetPDEEntry([s EXCEPT !.pm = SetPageUsage(@, PdeEntry(s, d), FALSE)], d, NoPage)

ReturnTable(s, d) ==
  IF TableIsEmpty(s, d)
  THEN SetPDEEntry([s EXCEPT !.pm = SetPageUsage(@, PdeEntry(s, d), FALSE)], d, NoPage)
  ELSE s

\* Mutant: the table entry cleared is not that of the page.
Unmap_WrongEntry(s, v) ==
  IF v \notin Pages \/ PdeEntry(s, Pde(v)) = NoPage THEN s
  ELSE Invlpg(ReturnTable(SetPTEEntry(s, Pde(v), Pde(v), NoPage), Pde(v)), v)

Unmap(s, v) ==
  IF v \notin Pages \/ PdeEntry(s, Pde(v)) = NoPage THEN s
  ELSE Invlpg(ReturnTable(SetPTEEntry(s, Pde(v), Pte(v), NoPage), Pde(v)), v)

EnableNullptr(s) == [Unmap(s, 0) EXCEPT !.null = TRUE]
------------------------------------------------------------------------------
(***************************************************************************)
(* getUsablePage(num) walks the pages one at a time from page 0 in the     *)
(* current direction, counting pages that are not in use; when it leaves   *)
(* the address space it turns round, once, and starts at page 0 again.     *)
(* The count is carried across the turn (virtMem.cpp:161-172).             *)
(***************************************************************************)
FreeRun(s, lo, hi) == \A v \in lo .. hi : ~PageIsUsing(s, v)

\* Pages at which an upward walk that starts with count `carry' has counted to
\* num: the end of a run of num pages, or of a run from page 0.
RunEnds(s, num, carry) ==
  {v \in Pages : \/ num <= v + 1 /\ FreeRun(s, v - num + 1, v)
                 \/ num <= v + 1 + carry /\ FreeRun(s, 0, v)}

Upward(s, num, carry) ==
  IF RunEnds(s, num, carry) = {} THEN NoPage
  ELSE LET end == Min(RunEnds(s, num, carry))
       IN  IF FreeRun(s, 0, end) THEN 0 ELSE end - num + 1

\* The count an upward walk ends with at the top of the address space.
TopCount(s) ==
  Max({n \in 0 .. Fan * Fan : FreeRun(s, Fan * Fan - n, Fan * Fan - 1)})

\* A downward walk that starts at page 0 looks at that page only.
Downward(s, num, carry) ==
  IF ~PageIsUsing(s, 0) /\ carry + 1 = num THEN 0 ELSE NoPage

\* Mutant: the pages are not looked at again after the turn.
FindRun_OneWay(s, num) ==
  [down |-> ~s.upiDir,
   ret |-> IF s.upiDir THEN Downward(s, num, 0) ELSE Upward(s, num, 0)]

FindRun(s, num) ==
  LET carry == IF PageIsUsing(s, 0) THEN 0 ELSE 1
      first == IF s.upiDir THEN Downward(s, num, 0) ELSE Upward(s, num, 0)
      second == IF s.upiDir THEN Upward(s, num, carry)
                ELSE Downward(s, num, TopCount(s))
  IN  IF first # NoPage THEN [down |-> s.upiDir, ret |-> first]
      ELSE [down |-> ~s.upiDir, ret |-> second]

VirtGetUsablePage(s, num) ==
  IF num = 0 \/ num > Fan * Fan THEN [s |-> s, ret |-> NoPage]
  ELSE LET r == FindRun(s, num)
       IN  [s |-> [s EXCEPT !.upiDir = r.down], ret |-> r.ret]
==============================================================================

------------------------------- MODULE MCLoader -------------------------------
(***************************************************************************)
(* How the kernel gets into memory, on machines with sectors of two bytes. *)
(***************************************************************************)
EXTENDS Loader, TLC

\* Disks: LOADER is in the first sector of the FAT; KERNEL goes to and fro between the
\* third and the second, and stays in the second for two of its clusters.
Entry(name, bytes, first) == [name |-> name, length |-> bytes, first |-> first]
ReadMe == Entry(<<"README    ", "D">>, 3, 10)
LoaderEntry == Entry(LoaderName, 3, 2)
KernelEntry == Entry(KernelName, 9, 8)
Chains == (2 :> 3) @@ (3 :> 65535) @@ (8 :> 5) @@ (5 :> 4) @@ (4 :> 9) @@ (9 :> 6) @@ (6 :> 65528)
          @@ (10 :> 65535)
Cells == (2 :> <<"l0", "l1">>) @@ (3 :> <<"l2", "l3">>) @@ (8 :> <<"elf", "k1">>) @@ (5 :> <<"k2", "k3">>)
         @@ (4 :> <<"k4", "k5">>) @@ (9 :> <<"k6", "k7">>) @@ (6 :> <<"k8", "k9">>)
MCFat == Chains @@ [c \in 0..11 |-> 0]
MCData == Cells @@ [c \in 0..11 |-> <<"r0", "r1">>]

\* Program headers: of a kernel, and of files with one fault each, which LOADER refuses or
\* which let it go wild; of one with nothing but zeros; and of two whose segments reach into
\* the file at the end of memory, behind its headers and over them.
Load(at, paddr, filesz, memsz) ==
  [type |-> "LOAD", offset |-> at, paddr |-> paddr, vaddr |-> 64 + paddr, align |-> 2,
   filesz |-> filesz, memsz |-> memsz]
MCHeaders ==
  "elf" :> <<Load(2, 16, 3, 5), [Load(0, 2, 0, 1) EXCEPT !.type = "NOTE"],
             Load(0, 22, 0, 2), Load(5, 24, 4, 4)>>
  @@ "low" :> <<Load(2, 14, 2, 2)>> @@ "odd" :> <<Load(2, 17, 2, 2)>>
  @@ "null" :> <<[Load(2, 16, 2, 2) EXCEPT !.vaddr = 0]>>
  @@ "zeros" :> <<Load(0, 16, 2, 2)>> @@ "short" :> <<Load(2, 16, 4, 2)>>
  @@ "none" :> <<>>
  @@ "align" :> <<[Load(2, 16, 2, 2) EXCEPT !.align = 0]>>
  @@ "nothing" :> <<Load(0, 16, 0, 0)>> @@ "bss" :> <<Load(4, 16, 2, 2), Load(6, 20, 0, 2)>>
  @@ "over" :> <<Load(0, 30, 0, 4), Load(2, 16, 3, 4)>> @@ "far" :> <<Load(2, 16, 3, 16)>>

Region(base, size) == [base |-> base, size |-> size]
Regions(size) == <<Region(0, 10), Region(OneMiB, size)>>

\* The file begins right behind the kernel; there is more memory; and more than is used.
PC == [dir |-> <<<<ReadMe, LoaderEntry>>, <<KernelEntry>>>>, fat |-> MCFat, data |-> MCData,
       regions |-> Regions(22), carry |-> FALSE, edx |-> 0]
With(header) == [PC EXCEPT !.data[8][1] = header]

MCHosts ==
  <<PC, [PC EXCEPT !.regions = Regions(24)], [PC EXCEPT !.regions = Regions(60)],
    [PC EXCEPT !.dir = <<<<LoaderEntry, KernelEntry>>, <<>>>>,
               !.regions = Append(Regions(22), Region(60, 4))],
    With("k0"), With("low"), With("odd"), With("null"), With("zeros"), With("short"),
    With("none"), With("align"), With("nothing"), With("bss"), With("over"), With("far"),
    [PC EXCEPT !.dir = <<<<ReadMe>>, <<LoaderEntry, KernelEntry>>>>],
    [PC EXCEPT !.dir = <<<<LoaderEntry>>, <<ReadMe>>>>],
    [PC EXCEPT !.dir[2][1].length = 0],
    [PC EXCEPT !.fat[5] = BadCluster], [PC EXCEPT !.fat[8] = LastCluster + 1],
    [PC EXCEPT !.regions = <<>>], [PC EXCEPT !.regions = <<Region(0, 10), Region(20, 20)>>],
    [PC EXCEPT !.regions = @ \o <<Region(60, 4), Region(70, 2)>>],
    [PC EXCEPT !.regions = Regions(8)], [PC EXCEPT !.carry = TRUE],
    [PC EXCEPT !.edx = 1], [PC EXCEPT !.edx = 12], [PC EXCEPT !.edx = 24]>>
MCComplete == 1..4
===============================================================================

-------------------------------- MODULE Loader --------------------------------
(***************************************************************************)
(* How the kernel gets into memory: the boot sector (boot/legacy/mbr.asm)  *)
(* reads LOADER, LOADER (LOADER.ASM) asks firmware for the memory map,     *)
(* reads KERNEL to the end of memory and copies its segments to where they *)
(* are linked, and boot.S checks the map; or GRUB does all this, and       *)
(* boot.S takes the map from it.                                           *)
(*                                                                         *)
(* The disk has a FAT and a root directory; a cluster is one sector, and a *)
(* sector is a sequence of cells, for bytes.  A cell that is a header      *)
(* stands for the ELF header and the program headers behind it.            *)
(*                                                                         *)
(* A machine goes `wild' where the code divides by 0 or runs a loop of     *)
(* 2^32 times over all of memory: of what it does then nothing is said.    *)
(***************************************************************************)
EXTENDS Integers, FiniteSets, Sequences

CONSTANTS
  Hosts,       \* machines by number: [dir, fat, data, regions, carry, edx]
  Complete,    \* the numbers of those that lack nothing
  Headers,     \* Headers[c]: the program headers that come with header c
  SectorSize,
  FatEntries,  \* entries of the FAT in a sector: 256
  DirSectors,  \* sectors of the root directory: 32
  OneMiB,
  MaxMemory,   \* 0xFFF00000
  Top,         \* end of the addresses that are modelled
  MaxRegions   \* MULTIBOOT_MMAP_MAX_LENGTH

FirstDir == 129
BadCluster == 65527    \* 0xFFF7; what is above ends a file
LastCluster == 32767

KernelName == <<"KERNEL    ", " ">>
LoaderName == <<"LOADER    ", " ">>

------------------------------------------------------------------------------
(***************************************************************************)
(* What is on a machine m: its directory, its files, where LOADER puts a   *)
(* file and what it accepts of a segment, and what the code takes for      *)
(* granted about all that.                                                 *)
(***************************************************************************)
Directory(m) == UNION {{m.dir[s][i] : i \in DOMAIN m.dir[s]} : s \in DOMAIN m.dir}
Files(m, name) == {e \in Directory(m) : e.name = name}
EntryOf(m, name) == CHOOSE e \in Directory(m) : e.name = name

\* The clusters of the file that begins with a cluster, counted from 0; how many of them a
\* file needs; and byte o of the file.
Clusters(m, first) ==
  LET cluster[k \in Nat] == IF k = 0 THEN first ELSE m.fat[cluster[k - 1]] IN cluster
ClustersOf(e) == (e.length + SectorSize - 1) \div SectorSize
FileByte(m, first, o) == m.data[Clusters(m, first)[o \div SectorSize]][(o % SectorSize) + 1]

\* The first n clusters of a file are on the disk, and what comes then is a mark.
EndsAfter(m, e, n) ==
  /\ \A k \in 0..n - 1 : Clusters(m, e.first)[k] \in DOMAIN m.data
  /\ Clusters(m, e.first)[n] > LastCluster
IsWhole(m, e) ==
  EndsAfter(m, e, ClustersOf(e)) /\ Clusters(m, e.first)[ClustersOf(e)] > BadCluster
IsDamaged(m, e) ==
  \E n \in 0..ClustersOf(e) : EndsAfter(m, e, n) /\ Clusters(m, e.first)[n] <= BadCluster

\* Where a file of so many bytes goes that is to end where memory ends.
Regions1MiB(map) == {i \in DOMAIN map : map[i].base = OneMiB}
MemoryEnd(map) ==
  LET i == CHOOSE k \in Regions1MiB(map) : \A l \in Regions1MiB(map) : k <= l
  IN  OneMiB + (IF map[i].size > MaxMemory THEN MaxMemory ELSE map[i].size)
FilePlace(map, bytes) == ((MemoryEnd(map) - 1 - bytes) \div SectorSize) * SectorSize

\* The three conditions on a segment.  One with no offset in the file is only zeros.
IsLoadable(g) ==
  /\ g.paddr >= OneMiB /\ g.align # 0 /\ g.paddr % g.align = 0
  /\ g.vaddr # 0 /\ g.vaddr % g.align = 0
  /\ g.filesz <= IF g.offset = 0 THEN 0 ELSE g.memsz
IsLoaded(g) == g.type = "LOAD" /\ IsLoadable(g)

\* A segment that is divided by 0; and one on which the loop that counts its bytes begins
\* at 0.
DividesByZero(g) == g.paddr >= OneMiB /\ g.align = 0
RunsOn(g) == IF g.offset = 0 THEN g.memsz = 0 ELSE g.filesz = 0

Addresses(g) == g.paddr..g.paddr + g.memsz - 1

\* The segments of KERNEL.
SegmentsOf(m) == Headers[FileByte(m, EntryOf(m, KernelName).first, 0)]

\* Headers are sequences of numbers.
HeadersAreSound ==
  \A c \in DOMAIN Headers :
    /\ Headers[c] = [n \in 1..Len(Headers[c]) |-> Headers[c][n]] /\ Len(Headers[c]) \in Nat
    /\ \A n \in DOMAIN Headers[c] :
         LET g == Headers[c][n] IN
         /\ g.paddr \in Nat /\ g.filesz \in Nat /\ g.offset \in Nat
         /\ g.memsz \in Nat /\ g.align \in Nat

\* Clusters are numbers up to the last, of a sector each, and so is the end of memory in
\* sectors.  The map begins at address 0, or its length, which is read together with that
\* address (LOADER.ASM:494), is another.
DiskIsSound(m) ==
  /\ DOMAIN m.dir = 1..DirSectors
  /\ \A s \in DOMAIN m.dir : DOMAIN m.dir[s] \subseteq Nat
  /\ \A e \in Directory(m) : e.first \in Nat /\ e.length \in Nat
  /\ DOMAIN m.data \subseteq 0..LastCluster /\ m.fat \in [DOMAIN m.data -> Nat]
  /\ \A c \in DOMAIN m.data :
       m.data[c] \in [1..SectorSize -> {m.data[c][i] : i \in 1..SectorSize}]
MapIsSound(m) ==
  /\ m.regions = [i \in 1..Len(m.regions) |-> m.regions[i]] /\ Len(m.regions) \in Nat
  /\ \A i \in DOMAIN m.regions : m.regions[i].size \in Nat
  /\ m.regions # <<>> => m.regions[1].base = 0
  /\ Regions1MiB(m.regions) # {} =>
       MemoryEnd(m.regions) <= Top /\ MemoryEnd(m.regions) % SectorSize = 0

\* The names of LOADER and KERNEL are there once, and other names differ from them before
\* their last character, which jcxz does not look at.  LOADER is whole, in reach of the one
\* sector of the FAT that the boot sector reads.  KERNEL has the clusters that it needs, or
\* one among them is marked.
FilesAreSound(m) ==
  /\ \A name \in {LoaderName, KernelName} :
       /\ \A e \in Directory(m) : e.name[1] = name[1] => e.name = name
       /\ \A e, f \in Files(m, name) : e = f
  /\ \A e \in Files(m, LoaderName) :
       IsWhole(m, e) /\ \A k \in 0..ClustersOf(e) - 1 : Clusters(m, e.first)[k] < FatEntries
  /\ \A e \in Files(m, KernelName) : e.length # 0 => IsWhole(m, e) \/ IsDamaged(m, e)

\* If there is room for KERNEL, its segments are in memory, apart from each other, and take
\* no more from the file than it has.
KernelIsSound(m) ==
  \A e \in Files(m, KernelName) :
    e.length # 0 /\ IsWhole(m, e) /\ Regions1MiB(m.regions) # {}
      /\ FilePlace(m.regions, e.length) >= OneMiB /\ FileByte(m, e.first, 0) \in DOMAIN Headers =>
      LET gs == SegmentsOf(m) IN
      \A n \in DOMAIN gs : IsLoaded(gs[n]) =>
        /\ gs[n].paddr + gs[n].memsz <= MemoryEnd(m.regions)
        /\ gs[n].offset + gs[n].filesz <= e.length
        /\ \A l \in DOMAIN gs \ {n} :
             IsLoaded(gs[l]) => Addresses(gs[n]) \cap Addresses(gs[l]) = {}

\* At the end of memory KERNEL is behind its segments.
FileIsClear(m) ==
  \A n \in DOMAIN SegmentsOf(m) :
    LET g == SegmentsOf(m)[n] IN
    IsLoaded(g) => g.paddr + g.memsz <= FilePlace(m.regions, EntryOf(m, KernelName).length)

\* Both files are there and whole, there is room for KERNEL, nothing is wrong with it or with
\* the map, and firmware tells its last region and GRUB leaves a 0 in edx.
LacksNothing(m) ==
  /\ \E i \in DOMAIN m.dir[1] : m.dir[1][i].name = LoaderName
  /\ \E e \in Files(m, KernelName) :
       e.length # 0 /\ IsWhole(m, e) /\ FilePlace(m.regions, e.length) >= OneMiB
  /\ m.regions # <<>> /\ Len(m.regions) <= MaxRegions /\ Regions1MiB(m.regions) # {}
  /\ FileByte(m, EntryOf(m, KernelName).first, 0) \in DOMAIN Headers
  /\ SegmentsOf(m) # <<>> /\ FileIsClear(m)
  /\ \A n \in DOMAIN SegmentsOf(m) :
       LET g == SegmentsOf(m)[n] IN g.type = "LOAD" => IsLoadable(g) /\ ~RunsOn(g)
  /\ ~m.carry /\ m.edx = 0

ASSUME LoaderAssumption ==
  /\ SectorSize \in Nat \ {0} /\ FatEntries \in Nat \ {0} /\ DirSectors \in Nat \ {0}
  /\ OneMiB \in Nat /\ Top \in Nat /\ MaxMemory \in Nat /\ MaxRegions \in Nat
  /\ HeadersAreSound
  /\ \A h \in DOMAIN Hosts :
       /\ DiskIsSound(Hosts[h]) /\ MapIsSound(Hosts[h]) /\ FilesAreSound(Hosts[h])
       /\ KernelIsSound(Hosts[h]) /\ Hosts[h].carry \in BOOLEAN /\ Hosts[h].edx \in Nat
  /\ \A h \in Complete : h \in DOMAIN Hosts /\ LacksNothing(Hosts[h])

VARIABLES
  host,     \* the machine
  stage,    \* what is done next
  buffer,   \* the sector at 0x7E00
  am,       \* what LOADER keeps behind itself: [sector, cluster, fatSector, writeAt, fileAt]
  program,  \* what has been read to 0x8000
  memory,   \* from 1 MiB on
  segment,  \* [n, at]: the program header, and how much of its segment is done
  kept      \* the memory map

loaderVars == <<host, stage, buffer, am, program, memory, segment, kept>>

Host == Hosts[host]

LoaderInit ==
  /\ host \in DOMAIN Hosts
  /\ stage \in {"mbr", "grub"}
  /\ buffer = 0
  /\ am = [sector |-> FirstDir, cluster |-> 0, fatSector |-> 0, writeAt |-> 0, fileAt |-> 0]
  /\ program = <<>>
  /\ memory = [a \in OneMiB..Top - 1 |-> "old"]
  /\ segment = [n |-> 1, at |-> 0]
  /\ kept = <<>>

\* The entries of a sector of the directory that are found under a name, and the first.
Matching(s, name) ==
  {i \in DOMAIN Host.dir[s - FirstDir + 1] : Host.dir[s - FirstDir + 1][i].name[1] = name[1]}
FoundEntry(s, name) ==
  Host.dir[s - FirstDir + 1][CHOOSE i \in Matching(s, name) : \A j \in Matching(s, name) : i <= j]

\* What entry i of a sector of the FAT says.
FatEntry(s, i) == Host.fat[(s - 1) * FatEntries + i]
------------------------------------------------------------------------------
(***************************************************************************)
(* The boot sector.  It knows one sector of the directory and one of the   *)
(* FAT, and LOADER is in reach of both.                                    *)
(***************************************************************************)
FindLoader ==
  /\ stage = "mbr"
  /\ Matching(FirstDir, LoaderName) # {}
  /\ am' = [am EXCEPT !.cluster = FoundEntry(FirstDir, LoaderName).first]
  /\ buffer' = 1
  /\ stage' = "mbrRead"
  /\ UNCHANGED <<host, program, memory, segment, kept>>

ReadLoader ==
  /\ stage = "mbrRead" /\ am.cluster <= BadCluster
  /\ program' = program \o Host.data[am.cluster]
  /\ am' = [am EXCEPT !.cluster = FatEntry(buffer, am.cluster)]
  /\ UNCHANGED <<host, stage, buffer, memory, segment, kept>>

StartLoader ==
  /\ stage = "mbrRead" /\ am.cluster > BadCluster
  /\ stage' = "map"
  /\ UNCHANGED <<host, buffer, am, program, memory, segment, kept>>
------------------------------------------------------------------------------
(***************************************************************************)
(* LOADER.                                                                 *)
(***************************************************************************)
\* One region of the map is copied, from firmware or from what GRUB has left of it.
CopyRegion(next) ==
  /\ Len(kept) < Len(Host.regions)
  /\ kept' = Append(kept, Host.regions[Len(kept) + 1])
  /\ stage' = IF Len(kept') < Len(Host.regions) THEN stage ELSE next
  /\ UNCHANGED <<host, buffer, am, program, memory, segment>>

\* With the last region firmware tells that it is the last, or it answers the call that
\* asks for one more with an error.
GetMemoryMap == stage = "map" /\ CopyRegion(IF Host.carry THEN "map" ELSE "directory")

\* One sector of the directory.
SearchDirectory ==
  /\ stage = "directory" /\ am.sector < FirstDir + DirSectors
  /\ buffer' = am.sector
  /\ IF Matching(am.sector, KernelName) = {}
     THEN am' = [am EXCEPT !.sector = @ + 1] /\ UNCHANGED stage
     ELSE stage' = "place" /\ UNCHANGED am
  /\ UNCHANGED <<host, program, memory, segment, kept>>

Found == FoundEntry(buffer, KernelName)

PlaceFile ==
  /\ stage = "place" /\ Found.length # 0 /\ Regions1MiB(kept) # {}
  /\ FilePlace(kept, Found.length) >= OneMiB
  /\ am' = [am EXCEPT !.cluster = Found.first, !.writeAt = FilePlace(kept, Found.length),
                      !.fileAt = FilePlace(kept, Found.length)]
  /\ stage' = "read"
  /\ UNCHANGED <<host, buffer, program, memory, segment, kept>>

FatSector == am.cluster \div FatEntries + 1

\* Mutant: any sector of the FAT is taken for the one that is needed.
HasFatSector_Any == am.fatSector # 0

\* The sector of the FAT that was read last is still at 0x7E00.
HasFatSector == am.fatSector = FatSector

ReadCluster ==
  /\ stage = "read" /\ am.cluster <= LastCluster
  /\ buffer' = IF HasFatSector THEN buffer ELSE FatSector
  /\ memory' = [a \in DOMAIN memory |->
       IF a \in am.writeAt..am.writeAt + SectorSize - 1
       THEN Host.data[am.cluster][a - am.writeAt + 1] ELSE memory[a]]
  /\ am' = [am EXCEPT !.fatSector = buffer', !.writeAt = @ + SectorSize,
                      !.cluster = FatEntry(buffer', @ % FatEntries)]
  /\ UNCHANGED <<host, stage, program, segment, kept>>

EndOfFile ==
  /\ stage = "read" /\ am.cluster > BadCluster
  /\ stage' = "header"
  /\ UNCHANGED <<host, buffer, am, program, memory, segment, kept>>

Header == memory[am.fileAt]
Segments == Headers[Header]
Current == Segments[segment.n]

CheckHeader ==
  /\ stage = "header" /\ Header \in DOMAIN Headers
  /\ stage' = "segments"
  /\ UNCHANGED <<host, buffer, am, program, memory, segment, kept>>

\* Mutant: ebx stays at the same header.
NextSegment_Same == [n |-> segment.n, at |-> 0]

NextSegment == [n |-> segment.n + 1, at |-> 0]

SkipSegment ==
  /\ stage = "segments" /\ segment.n \in DOMAIN Segments
  /\ Current.type # "LOAD"
  /\ segment' = NextSegment
  /\ UNCHANGED <<host, stage, buffer, am, program, memory, kept>>

BeginSegment ==
  /\ stage = "segments" /\ segment.n \in DOMAIN Segments
  /\ IsLoaded(Current) /\ ~RunsOn(Current)
  /\ stage' = "copy"
  /\ UNCHANGED <<host, buffer, am, program, memory, segment, kept>>

\* One byte of a segment: from the file, or a 0.  It may be written over the file's headers.
CopyByte ==
  /\ stage = "copy"
  /\ memory' = [memory EXCEPT ![Current.paddr + segment.at] =
       IF segment.at < Current.filesz THEN memory[am.fileAt + Current.offset + segment.at]
       ELSE "zero"]
  /\ segment' = IF segment.at + 1 < Current.memsz THEN [segment EXCEPT !.at = @ + 1] ELSE NextSegment
  /\ stage' = IF Current.paddr + segment.at = am.fileAt THEN "wild"
              ELSE IF segment.at + 1 < Current.memsz THEN stage ELSE "segments"
  /\ UNCHANGED <<host, buffer, am, program, kept>>
------------------------------------------------------------------------------
(***************************************************************************)
(* boot.S, and the ways to stop.                                           *)
(***************************************************************************)
\* All headers have been gone through; there was at least one.
EnterMain ==
  /\ stage = "segments" /\ Segments # <<>> /\ segment.n \notin DOMAIN Segments
  /\ Len(kept) <= MaxRegions
  /\ stage' = "main"
  /\ UNCHANGED <<host, buffer, am, program, memory, segment, kept>>

\* The length of the map in bytes is the low half of what is divided by the 24 of an entry,
\* and what GRUB has left in edx is the high half.  As a signed number the quotient is too
\* large or, from 12 on, negative; from 24 on it does not fit.
GrubEntry == 24
SaveGrubMap ==
  /\ stage = "grub" /\ Host.edx = 0 /\ Len(Host.regions) <= MaxRegions
  /\ CopyRegion("main")

\* A message is shown and the machine is stopped.
GiveUp ==
  /\ \/ stage = "mbr" /\ Matching(FirstDir, LoaderName) = {}
     \/ stage = "map" /\ Len(kept) = Len(Host.regions)
     \/ stage = "directory" /\ am.sector = FirstDir + DirSectors
     \/ stage = "place" /\ (Found.length = 0 \/ Regions1MiB(kept) = {})
     \/ stage = "read" /\ am.cluster \in LastCluster + 1..BadCluster
     \/ stage = "header" /\ Header \notin DOMAIN Headers
     \/ /\ stage = "segments" /\ segment.n \in DOMAIN Segments
        /\ Current.type = "LOAD" /\ ~IsLoadable(Current) /\ ~DividesByZero(Current)
     \/ /\ stage = "segments" /\ Segments # <<>> /\ segment.n \notin DOMAIN Segments
        /\ Len(kept) > MaxRegions
     \/ stage = "grub" /\ Host.edx = 0 /\ Len(Host.regions) > MaxRegions
     \/ stage = "grub" /\ 0 < Host.edx /\ 2 * Host.edx < GrubEntry
  /\ stage' = "stopped"
  /\ UNCHANGED <<host, buffer, am, program, memory, segment, kept>>

\* KERNEL does not fit above 1 MiB; what stands behind an empty table is taken for headers;
\* a segment is divided by 0 or has no bytes to count; no region is copied, or more than
\* there are.
GoWild ==
  /\ \/ /\ stage = "place" /\ Found.length # 0 /\ Regions1MiB(kept) # {}
        /\ FilePlace(kept, Found.length) < OneMiB
     \/ stage = "segments" /\ Segments = <<>>
     \/ /\ stage = "segments" /\ segment.n \in DOMAIN Segments /\ Current.type = "LOAD"
        /\ DividesByZero(Current) \/ (IsLoadable(Current) /\ RunsOn(Current))
     \/ stage = "grub" /\ Host.edx = 0 /\ Host.regions = <<>>
     \/ stage = "grub" /\ 2 * Host.edx >= GrubEntry
  /\ stage' = "wild"
  /\ UNCHANGED <<host, buffer, am, program, memory, segment, kept>>

LoaderNext ==
  \/ FindLoader \/ ReadLoader \/ StartLoader
  \/ GetMemoryMap \/ SearchDirectory \/ PlaceFile \/ ReadCluster \/ EndOfFile
  \/ CheckHeader \/ SkipSegment \/ BeginSegment \/ CopyByte
  \/ EnterMain \/ SaveGrubMap
  \/ GiveUp \/ GoWild

LoaderSpec == LoaderInit /\ [][LoaderNext]_loaderVars
------------------------------------------------------------------------------
(***************************************************************************)
(* What is in memory in the end, from what is on the disk.                 *)
(***************************************************************************)
\* What address a holds: a byte of a segment, a byte of the file, or what was there.
Expected(a) ==
  LET first == EntryOf(Host, KernelName).first
      segs == SegmentsOf(Host)
      within == {n \in DOMAIN segs : segs[n].type = "LOAD" /\ a \in Addresses(segs[n])}
      g == segs[CHOOSE n \in within : TRUE]
  IN  IF within # {}
      THEN IF a - g.paddr < g.filesz THEN FileByte(Host, first, g.offset + a - g.paddr) ELSE "zero"
      ELSE IF a \in am.fileAt..am.writeAt - 1 /\ a < MemoryEnd(kept)
      THEN FileByte(Host, first, a - am.fileAt)
      ELSE "old"

\* LOADER is there as a whole before it runs.  When boot.S hands over to the kernel, the map
\* is that of the firmware, and unless segments reach into the file at the end of memory,
\* every segment of the file KERNEL is where it is linked, byte for byte, however the file's
\* clusters lie on the disk, what the file does not have of it is zero, and nothing but the
\* segments and, at the end of memory, the file itself has been written.  A machine that
\* lacks nothing is not given up and does not go wild (mbr.asm:111-160, LOADER.ASM:165-503,
\* boot.S:64-131).
KernelIsLoaded ==
  /\ stage = "map" =>
       LET e == EntryOf(Host, LoaderName) IN
       \A o \in 0..e.length - 1 : program[o + 1] = FileByte(Host, e.first, o)
  /\ stage = "main" => kept = Host.regions
  /\ stage = "main" /\ program # <<>> /\ FileIsClear(Host) =>
       \A a \in DOMAIN memory : memory[a] = Expected(a)
  /\ stage \in {"stopped", "wild"} => host \notin Complete

\* A machine that lacks nothing gets as far as the kernel (mbr.asm:111-160,
\* LOADER.ASM:165-503, boot.S:64-131).
KernelIsEntered == host \in Complete ~> stage = "main"
==============================================================================

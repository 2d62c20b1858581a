------------------------------- MODULE Images -------------------------------
(***************************************************************************)
(* The files of the simulator and who reads them: elf2umps makes core,     *)
(* a.out and ROM files of a program (umps/elf2umps.cc), mkdev disk and     *)
(* flash images (umps/mkdev.cc); RamSpace and BiosSpace load the former    *)
(* (umps/memspace.cc), the disk and flash devices read and write the       *)
(* blocks of the latter (umps/blockdev.cc, umps/device.cc).                *)
(*                                                                         *)
(* A file is a sequence of words, a page or block Page words. A word of    *)
(* the program is its own address, counted in words from the bottom of RAM;*)
(* tags and headers are negative. Whatever the size of a disk or a flash   *)
(* device, its blocks are looked for at offsets of 32 bits.                *)
(***************************************************************************)
EXTENDS Integers, FiniteSets, Sequences

CONSTANTS
  Page,     \* words of a page and of a block
  Header,   \* words of the a.out header
  RamSize,  \* words of RAM
  MaxText,  \* bounds: words of a program's text
  MaxData,  \* ... and data
  Span,     \* words that 32 bits can address, byte by byte
  Geometries, \* cylinders, heads and sectors of the disks made
  Sizes,    \* blocks of the flash devices made
  MaxWritten \* bound: blocks written by the program at a time

VARIABLES
  program, \* sizes of text and data, and whether its text leaves room for the header
  file,    \* what elf2umps wrote last
  whole,   \* whether it wrote all of it
  memory,  \* what RamSpace or BiosSpace holds
  image,   \* the image of a block device
  params,  \* what DiskParams or FlashParams read of it
  blocks,  \* history: what each block was written last
  phase

vars == <<program, file, whole, memory, image, params, blocks, phase>>

COREFILEID  == -1
AOUTFILEID  == -2
BIOSFILEID  == -3
DISKFILEID  == -4
FLASHFILEID == -5
Garbage     == -9  \* memory nobody has written

DISKPNUM  == 6
FLASHPNUM == 2

Zeros(n) == [i \in 1..n |-> 0]
First(s, n) == SubSeq(s, 1, IF Len(s) < n THEN Len(s) ELSE n)
From(s, n)  == SubSeq(s, n, Len(s))

(* Sizes in the file are whole pages. *)
Up(n) == ((n + Page - 1) \div Page) * Page

(* As the linker scripts place them: the text on the second page, the data *)
(* on the next free one.                                                   *)
TextAddr    == Page
DataAddr(p) == TextAddr + Up(p.text)

Programs == {p \in [text : 1..MaxText, file : 0..MaxData, mem : 0..MaxData, room : BOOLEAN] : p.file <= p.mem}

(* The words of the text and data sections, in whole pages. *)
TextBuf(p) == [i \in 1..Up(p.text) |->
                 IF i <= p.text /\ ~(p.room /\ i <= Header) THEN TextAddr + i - 1 ELSE 0]
DataBuf(p, size) == [i \in 1..Up(size) |-> IF i <= p.file THEN DataAddr(p) + i - 1 ELSE 0]

-----------------------------------------------------------------------------
Init ==
  /\ program \in Programs
  /\ file = <<>> /\ whole = FALSE /\ memory = <<>> /\ image = <<>> /\ params = <<>> /\ blocks = <<>>
  /\ phase = "elf"

(* The file is written, or writing fails after some words. *)
Written(f, next) ==
  \/ file' = f /\ whole' = TRUE /\ phase' = next
  \/ \E n \in 0..Len(f)-1 : file' = SubSeq(f, 1, n) /\ whole' = FALSE /\ phase' = next

(* The segments: the header is put in the first words of the text; a core  *)
(* file has also the part of the data that is not initialised.             *)
Segments(isCore) ==
  [i \in 1..Up(program.text) |-> IF i <= Header THEN AOUTFILEID ELSE TextBuf(program)[i]]
    \o DataBuf(program, IF isCore THEN program.mem ELSE program.file)

elf2aout(isCore) ==
  /\ phase = "elf"
  /\ IF \E i \in 1..Header : TextBuf(program)[i] # 0
     THEN phase' = "No space for a.out header" /\ UNCHANGED <<file, whole>>
     ELSE Written(IF isCore THEN <<COREFILEID>> \o Zeros(Page) \o Segments(TRUE) ELSE Segments(FALSE),
                  IF isCore THEN "core" ELSE "aout")
  /\ UNCHANGED <<program, memory, image, params, blocks>>

elf2bios ==
  /\ phase = "elf"
  /\ Written(<<BIOSFILEID, program.text>> \o [i \in 1..program.text |-> TextAddr + i - 1], "rom")
  /\ UNCHANGED <<program, memory, image, params, blocks>>

(* RamSpace: a file that leaves nothing unread behind the RAM, not even    *)
(* its end, is taken to be too large.                                      *)
RamSpace ==
  /\ phase = "core"
  /\ IF file = <<>> THEN phase' = "Invalid core file" /\ UNCHANGED memory
     ELSE LET n == Len(file) - 1 IN
          /\ memory' = First(Tail(file), RamSize) \o [i \in 1..(IF n < RamSize THEN RamSize - n ELSE 0) |-> Garbage]
          /\ phase' = IF n >= RamSize THEN "CoreFileOverflow" ELSE "ram"
  /\ UNCHANGED <<program, file, whole, image, params, blocks>>

BiosSpace ==
  /\ phase = "rom"
  /\ IF Len(file) < 2 THEN phase' = "ROM file expected" /\ UNCHANGED memory
     ELSE /\ memory' = First(From(file, 3), file[2])
          /\ phase' = IF Len(From(file, 3)) < file[2] THEN "Wrong ROM file size" ELSE "bios"
  /\ UNCHANGED <<program, file, whole, image, params, blocks>>

-----------------------------------------------------------------------------
(* writeDisk: geometry and performance figures, then empty blocks.         *)
writeDisk(cyl, head, sect) ==
  /\ phase = "elf"
  /\ image' = <<DISKFILEID>> \o [i \in 1..DISKPNUM |-> <<cyl, head, sect, 0, 0, 0>>[i]]
                \o Zeros(cyl * head * sect * Page)
  /\ blocks' = [b \in (0..cyl-1) \X (0..head-1) \X (0..sect-1) |-> Zeros(Page)]
  /\ phase' = "disk image"
  /\ UNCHANGED <<program, file, whole, memory, params>>

(* The data of the flash device is the file without the tag of a core.     *)
Contents == IF file # <<>> /\ file[1] = COREFILEID THEN Tail(file) ELSE file

BlockOf(b) == [i \in 1..Page |-> IF b * Page + i <= Len(Contents) THEN Contents[b * Page + i] ELSE 0]

(* writeFlash: the file cut into blocks, the last filled up, then empty    *)
(* blocks; of a file too large the end is left out.                        *)
writeFlash(n) ==
  /\ phase \in {"core", "aout"}
  /\ image' = <<FLASHFILEID, n, 0>> \o [i \in 1..n * Page |-> BlockOf((i - 1) \div Page)[((i - 1) % Page) + 1]]
  /\ blocks' = [b \in (0..n-1) |-> [i \in 1..Page |->
                  IF b * Page + i <= Len(Contents) THEN Contents[b * Page + i] ELSE 0]]
  /\ phase' = "flash image"
  /\ UNCHANGED <<program, file, whole, memory, params>>

(* The device is made: it reads the parameters once. *)
DiskParams ==
  /\ phase = "disk image" /\ phase' = "disk"
  /\ params' = [i \in 0..DISKPNUM-1 |-> image[i + 2]]
  /\ UNCHANGED <<program, file, whole, memory, image, blocks>>

FlashParams ==
  /\ phase = "flash image" /\ phase' = "flash"
  /\ params' = [i \in 0..FLASHPNUM-1 |-> image[i + 2]]
  /\ UNCHANGED <<program, file, whole, memory, image, blocks>>

(* An offset in bytes is kept in 32 bits, and those of the upper half are  *)
(* negative.                                                               *)
SWord(words) == LET w == words % Span IN IF w < Span \div 2 THEN w ELSE w - Span

(* Mutant: heads are counted in cylinders.                                 *)
blkOfsSwapped(b) ==
  SWord(IF phase = "disk"
        THEN DISKPNUM + 1 + (b[1] * params[0] * params[2] + b[2] * params[2] + b[3]) * Page
        ELSE FLASHPNUM + 1 + b * Page)

(* The word where a block starts, behind the parameters. *)
blkOfs(b) ==
  SWord(IF phase = "disk"
        THEN DISKPNUM + 1 + (b[1] * params[1] * params[2] + b[2] * params[2] + b[3]) * Page
        ELSE FLASHPNUM + 1 + b * Page)

ReadBlock(b) == SubSeq(image, blkOfs(b) + 1, blkOfs(b) + Page)

(* A block is written, beyond the end of the file too if it must be.       *)
WriteBlock(b, w) ==
  /\ phase \in {"disk", "flash"} /\ blkOfs(b) >= 0
  /\ Cardinality({x \in DOMAIN blocks : blocks[x][1] = w} \cup {b}) <= MaxWritten
  /\ LET ofs == blkOfs(b) IN
     image' = [i \in 1..(IF Len(image) < ofs + Page THEN ofs + Page ELSE Len(image)) |->
                 IF ofs < i /\ i <= ofs + Page THEN w
                 ELSE IF i <= Len(image) THEN image[i] ELSE 0]
  /\ blocks' = [blocks EXCEPT ![b] = [i \in 1..Page |-> w]]
  /\ UNCHANGED <<program, file, whole, memory, params, phase>>

(* Before the beginning of the file there is nothing to read or to write.  *)
Panic(b) ==
  /\ phase \in {"disk", "flash"} /\ blkOfs(b) < 0
  /\ phase' = "Panic"
  /\ UNCHANGED <<program, file, whole, memory, image, params, blocks>>

Next ==
  \/ \E isCore \in BOOLEAN : elf2aout(isCore)
  \/ elf2bios \/ RamSpace \/ BiosSpace
  \/ \E g \in Geometries : writeDisk(g[1], g[2], g[3])
  \/ \E n \in Sizes : writeFlash(n)
  \/ DiskParams \/ FlashParams
  \/ \E b \in DOMAIN blocks : WriteBlock(b, 1) \/ Panic(b)

Spec == Init /\ [][Next]_vars
-----------------------------------------------------------------------------
(* A program made into a core file and loaded has every word of its text   *)
(* (but those the header took) and of its data where it was linked, and    *)
(* zeros where it has no initial data.                                     *)
Loaded ==
  phase = "ram" /\ whole =>
    LET text == TextAddr + Header .. TextAddr + program.text - 1
        data == DataAddr(program) .. DataAddr(program) + program.file - 1
        bss  == DataAddr(program) + program.file .. DataAddr(program) + program.mem - 1
    IN /\ \A a \in text \cup data : memory[a + 1] = a
       /\ \A a \in bss : memory[a + 1] = 0
       /\ \A a \in TextAddr .. TextAddr + Header - 1 : memory[a + 1] = AOUTFILEID

(* A ROM is loaded only if it is whole, however its file was cut.          *)
RomWhole ==
  phase = "bios" => /\ whole
                    /\ memory = [i \in 1..program.text |-> TextAddr + i - 1]

(* The blocks of a device lie in its image, apart from each other and from *)
(* the parameters: each reads as it was written last, at first as mkdev    *)
(* filled it. Of an image larger than the positive offsets this is so of   *)
(* the blocks that are found at all, and of one larger than all offsets    *)
(* of none for certain.                                                    *)
BlocksKept ==
  phase \in {"disk", "flash"} /\ Len(image) <= Span =>
    \A b \in DOMAIN blocks :
      /\ blkOfs(b) >= 0 => blkOfs(b) + Page <= Len(image) /\ ReadBlock(b) = blocks[b]
      /\ Len(image) <= Span \div 2 => blkOfs(b) >= 0

FilesRead == Loaded /\ RomWhole /\ BlocksKept
=============================================================================

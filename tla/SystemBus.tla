----------------------------- MODULE SystemBus -----------------------------
(***************************************************************************)
(* The physical address space: which store a bus address reaches, for the  *)
(* accesses of the cores, of the debugger's memory view and of devices     *)
(* that transfer blocks (umps/systembus.cc), and the registers of the      *)
(* multiprocessor controller (umps/mp_controller.cc).                      *)
(*                                                                         *)
(* Programs name what they access by the address formulas of umps/arch.h;  *)
(* the bus takes an address apart again. Addresses count words. A device   *)
(* is here the registers it has.                                           *)
(***************************************************************************)
EXTENDS Integers, FiniteSets

CONSTANTS
  RamWords, RomWords, DataWords, \* sizes of RAM, ROM and the BIOS data page
  Line, Dev, Field,   \* numbers of lines, of devices on a line and of their registers
  BLOCKSIZE, \* words of a block
  Fixed,     \* what ROM and the constant registers hold
  Value,     \* values written, from 1; 0 is what memory has at first
  MaxStored  \* bound: names that hold a value at a time

VARIABLES
  memory,   \* RAM and BIOS data, by place
  device,   \* the devices' registers
  control,  \* the registers of the multiprocessor controller, bootPC and bootSP
  block,    \* the buffer of a device
  stored,   \* history: what was stored last under each name
  ended     \* the program has ended, at a null pointer

vars == <<memory, device, control, block, stored, ended>>

-----------------------------------------------------------------------------
(* Names, and the address of each (DEV_REG_ADDR, IDEV_BITMAP_ADDR...). An  *)
(* unmapped word follows ROM, the devices' registers and those of a core,  *)
(* and precedes RAM. The page of BIOS data ends where the registers begin. *)
BIOSBASE     == 0
BIOSDATABASE == BIOSBASE + RomWords + 1
MMIO_BASE    == BIOSDATABASE + DataWords
IDEV_BITMAP_BASE == MMIO_BASE + 1 \* behind BUS_REG_RAM_SIZE
CDEV_BITMAP_BASE == IDEV_BITMAP_BASE + Line
DEV_REG_START    == CDEV_BITMAP_BASE + Line
DEV_REG_END      == DEV_REG_START + Line * Dev * Field
CPUCTL_BASE  == DEV_REG_END + 1
MCTL_BASE    == CPUCTL_BASE + 2
MMIO_END     == MCTL_BASE + 4   \* NCPUS, RESET_CPU, BOOT_PC, BOOT_SP
RAMBASE      == MMIO_END + 1

MemoryName == {<<"ram", i>> : i \in 0..RamWords-1} \cup {<<"data", i>> : i \in 0..DataWords-1}
DeviceName == {<<"dev", l, d, f>> : l \in 0..Line-1, d \in 0..Dev-1, f \in 0..Field-1}
BootName   == {<<"boot", "pc">>, <<"boot", "sp">>}
Constant   == {<<"rom", i>> : i \in 0..RomWords-1} \cup {<<"idev", l>> : l \in 0..Line-1}
                \cup {<<"ram size">>, <<"ncpus">>}
Name == MemoryName \cup DeviceName \cup BootName \cup Constant

AddressOf(n) ==
  CASE n[1] = "rom"      -> BIOSBASE + n[2]
    [] n[1] = "data"     -> BIOSDATABASE + n[2]
    [] n[1] = "ram size" -> MMIO_BASE
    [] n[1] = "idev"     -> IDEV_BITMAP_BASE + n[2]
    [] n[1] = "dev"      -> DEV_REG_START + n[2] * Dev * Field + n[3] * Field + n[4]
    [] n[1] = "ncpus"    -> MCTL_BASE
    [] n[1] = "boot"     -> MCTL_BASE + (IF n[2] = "pc" THEN 2 ELSE 3)
    [] n[1] = "ram"      -> RAMBASE + n[2]

Address == 0..RAMBASE + RamWords
Unnamed == Address \ {AddressOf(n) : n \in Name}

InBounds(a, from, end) == from <= a /\ a < end

-----------------------------------------------------------------------------
(* Mutant: lines alternate from device to device.                          *)
DeviceAreaAddressAlternating(a) ==
  LET word == a - DEV_REG_START  reg == word \div Field
  IN <<"dev", reg % Line, reg % Dev, word % Field>>

(* DeviceAreaAddress: line, device and field of a register. *)
DeviceAreaAddress(a) ==
  LET word == a - DEV_REG_START  reg == word \div Field
  IN <<"dev", reg \div Dev, reg % Dev, word % Field>>

(* busRead: the value at an address, MAXWORDVAL where there is nothing. The *)
(* registers that each core has for itself are in InterruptController.     *)
Invalid == -1
busRead(a) ==
  IF InBounds(a, RAMBASE, RAMBASE + RamWords) THEN memory[<<"ram", a - RAMBASE>>]
  ELSE IF InBounds(a, BIOSDATABASE, BIOSDATABASE + DataWords) THEN memory[<<"data", a - BIOSDATABASE>>]
  ELSE IF InBounds(a, BIOSBASE, BIOSBASE + RomWords) THEN Fixed[<<"rom", a - BIOSBASE>>]
  ELSE IF ~InBounds(a, MMIO_BASE, MMIO_END) THEN Invalid
  ELSE IF InBounds(a, DEV_REG_START, DEV_REG_END) THEN device[DeviceAreaAddress(a)]
  ELSE IF InBounds(a, IDEV_BITMAP_BASE, CDEV_BITMAP_BASE) THEN Fixed[<<"idev", a - IDEV_BITMAP_BASE>>]
  ELSE IF a = MMIO_BASE THEN Fixed[<<"ram size">>]
  ELSE IF a = MCTL_BASE THEN Fixed[<<"ncpus">>]
  ELSE IF a = MCTL_BASE + 2 THEN control[<<"boot", "pc">>]
  ELSE IF a = MCTL_BASE + 3 THEN control[<<"boot", "sp">>]
  ELSE 0

Writable(a) == \/ InBounds(a, RAMBASE, RAMBASE + RamWords)
               \/ InBounds(a, BIOSDATABASE, BIOSDATABASE + DataWords)
               \/ InBounds(a, MMIO_BASE, MMIO_END)
Readable(a) == Writable(a) \/ InBounds(a, BIOSBASE, BIOSBASE + RomWords)

(* The stores after words were written at addresses, [address -> value].   *)
MemoryWith(w) ==
  [n \in DOMAIN memory |->
     IF n[1] = "ram" /\ RAMBASE + n[2] \in DOMAIN w THEN w[RAMBASE + n[2]]
     ELSE IF n[1] = "data" /\ BIOSDATABASE + n[2] \in DOMAIN w THEN w[BIOSDATABASE + n[2]]
     ELSE memory[n]]

DeviceWith(w) ==
  LET hits == {a \in DOMAIN w : InBounds(a, DEV_REG_START, DEV_REG_END)}
      last(n) == CHOOSE a \in hits : DeviceAreaAddress(a) = n /\ \A b \in hits : DeviceAreaAddress(b) = n => b <= a
  IN [n \in DOMAIN device |-> IF \E a \in hits : DeviceAreaAddress(a) = n THEN w[last(n)] ELSE device[n]]

ControlWith(w) ==
  [n \in DOMAIN control |-> LET a == MCTL_BASE + (IF n[2] = "pc" THEN 2 ELSE 3) IN
                            IF a \in DOMAIN w THEN w[a] ELSE control[n]]

(* busWrite at writable addresses, in turn. Other registers are constant,  *)
(* or commands (a reset, the routing table) that store nothing here.       *)
busWrite(w) == memory' = MemoryWith(w) /\ device' = DeviceWith(w) /\ control' = ControlWith(w)

Init ==
  /\ memory = [n \in MemoryName |-> 0] /\ device = [n \in DeviceName |-> 0]
  /\ control = [n \in BootName |-> 0]
  /\ block = [i \in 0..BLOCKSIZE-1 |-> 0]
  /\ stored = [n \in Name \ Constant |-> 0]
  /\ ended = FALSE

-----------------------------------------------------------------------------
(* Bound: few names hold a value at a time. *)
Room(names) == Cardinality({n \in DOMAIN stored : stored[n] # 0} \cup names) <= MaxStored

(* A core, or the memory view of the debugger, stores to what has a name;  *)
(* a constant is not changed, and ROM causes a bus error.                  *)
DataWrite(n, v) ==
  /\ Room({n})
  /\ IF Writable(AddressOf(n)) THEN busWrite([a \in {AddressOf(n)} |-> v])
     ELSE UNCHANGED <<memory, device, control>>
  /\ stored' = IF n \in Constant THEN stored ELSE [stored EXCEPT ![n] = v]
  /\ UNCHANGED <<block, ended>>

(* A store to an address in Unnamed: a command register, words that are    *)
(* not mapped.                                                             *)
DataWriteElsewhere(a, v) ==
  /\ IF Writable(a) THEN busWrite([x \in {a} |-> v])
     ELSE UNCHANGED <<memory, device, control>>
  /\ UNCHANGED <<block, stored, ended>>

(* Fails for registers; elsewhere than in RAM it is a bus error. *)
CompareAndSet(n, old, new) ==
  /\ n[1] = "ram" /\ memory[n] = old /\ Room({n})
  /\ memory' = [memory EXCEPT ![n] = new]
  /\ stored' = [stored EXCEPT ![n] = new]
  /\ UNCHANGED <<device, control, block, ended>>

(* Registers that each core has for itself: its control registers, and the *)
(* bitmap of its interrupts, which can only be read.                       *)
OfCore(a, toMemory) ==
  \/ a = CPUCTL_BASE
  \/ ~toMemory /\ InBounds(a, CDEV_BITMAP_BASE, DEV_REG_START)

(* Addresses a transfer moves a word at: those before the first invalid.   *)
Moved(start, len, toMemory) ==
  {a \in start..start+len-1 : \A x \in start..a : IF toMemory THEN Writable(x) ELSE Readable(x)}

(* The words that a transfer into memory is to reach: it goes through      *)
(* memory and registers, up to the first word that is neither.             *)
Reached(start, len) ==
  {n \in DOMAIN stored :
     /\ AddressOf(n) \in start..start+len-1
     /\ \A a \in start..AddressOf(n) :
          InBounds(a, MMIO_BASE, MMIO_END) \/ \E m \in DOMAIN memory : AddressOf(m) = a}

DMAToMemory(start, len) ==
  LET reached == Reached(start, len) IN
  /\ Room(reached)
  /\ busWrite([a \in Moved(start, len, TRUE) |-> block[a - start]])
  /\ stored' = [n \in DOMAIN stored |-> IF n \in reached THEN block[AddressOf(n) - start] ELSE stored[n]]
  /\ UNCHANGED <<block, ended>>

(* The word that fails leaves the value of an invalid read in the buffer.  *)
DMAFromMemory(start, len) ==
  LET moved == Moved(start, len, FALSE) IN
  /\ block' = [i \in DOMAIN block |->
                 IF i < len /\ (i = 0 \/ start + i - 1 \in moved) THEN busRead(start + i) ELSE block[i]]
  /\ UNCHANGED <<memory, device, control, stored, ended>>

(* DMATransfer, DMAVarTransfer of the first len words of a block. No core  *)
(* makes it: at a register of a core the program reads a null pointer and  *)
(* ends, and the buffer with it.                                           *)
DMATransfer(start, len, toMemory) ==
  IF \E a \in Moved(start, len, toMemory) : OfCore(a, toMemory)
  THEN /\ ended' = TRUE /\ block' = [i \in DOMAIN block |-> 0]
       /\ UNCHANGED <<memory, device, control, stored>>
  ELSE IF toMemory THEN DMAToMemory(start, len) ELSE DMAFromMemory(start, len)

Next ==
  /\ ~ended
  /\ \/ \E n \in Name, v \in Value : DataWrite(n, v)
     \/ \E a \in Unnamed, v \in Value : DataWriteElsewhere(a, v)
     \/ \E n \in MemoryName, v \in Value \cup {0}, w \in Value : CompareAndSet(n, v, w)
     \/ \E a \in Address, len \in 1..BLOCKSIZE, t \in BOOLEAN : DMATransfer(a, len, t)

Spec == Init /\ [][Next]_vars
-----------------------------------------------------------------------------
(* Every name reads as what was stored under it last, by a core, by the    *)
(* debugger or by a device: no two names share a place, however line,      *)
(* device and field are packed into an address, constants never change,    *)
(* and a transfer, through memory and registers, has moved all its words   *)
(* or exactly those before the fault.                                      *)
ReadsLastStored ==
  \A n \in Name : busRead(AddressOf(n)) = IF n \in Constant THEN Fixed[n] ELSE stored[n]
=============================================================================

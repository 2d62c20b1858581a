--------------------------- MODULE Configuration ---------------------------
(***************************************************************************)
(* The machine configuration: the object (umps/machine_config.cc), its     *)
(* file, the dialog that edits it (qmps/machine_config_dialog.cc), the     *)
(* application that creates and loads it (qmps/application.cc) and the     *)
(* machine built from it (DebugSession::initializeMachine).                *)
(*                                                                         *)
(* Of the numbers that are merely clamped, cpus stands for all; of the     *)
(* files, one ROM and one network device. Json shows that the text of a    *)
(* file keeps the values put into it.                                      *)
(***************************************************************************)
EXTENDS Integers

CONSTANTS
  Path,          \* names of configuration files
  MinTlb, MaxTlb,
  MinRam, MaxRam, DefaultRam,
  MaxCpus,
  Device         \* settings of the network device: [file, enabled, mac]

VARIABLES
  config,  \* the current configuration, or NoConfig
  path,    \* its file
  files,   \* what each file holds
  machine, \* the configuration the running machine was built from, or NoConfig
  clean,   \* history: the current file was last written from, or read as, config
  byHand,  \* history: the files last written by another program
  handmade \* history: config was loaded from such a file

vars == <<config, path, files, machine, clean, byHand, handmade>>

NoConfig   == [none |-> TRUE]
Broken == [broken |-> TRUE]  \* text that is not a configuration
Absent == [absent |-> TRUE]  \* no such file

(* Floor addresses: RAMTOP is the word 0, VMOFF the largest word, Middle   *)
(* stands for the other entries of TLB_FLOOR_ADDRESS; a machine of n       *)
(* frames has its top at Top(n).                                           *)
RAMTOP == 0
Top(n) == n
Middle == MaxRam + 1
VMOFF  == MaxRam + 2
Listed == {RAMTOP, Middle, VMOFF}

bump(min, v, max) == IF v < min THEN min ELSE IF v > max THEN max ELSE v

(* setTLBFloorAddress, with the RAM the configuration has by then.         *)
setTLBFloorAddress(addr, ram) == IF addr = RAMTOP THEN Top(ram) ELSE addr

NoDevice == [file |-> "", enabled |-> FALSE, mac |-> ""]

(* resetToFactorySettings, which leaves the devices of a new object empty. *)
Factory == [cpus |-> 1, tlb |-> bump(MinTlb, 2 * MinTlb, MaxTlb), floor |-> VMOFF,
            ram |-> DefaultRam, rom |-> "kernel", dev |-> NoDevice]

-----------------------------------------------------------------------------
(* Save: the text of a configuration, a record of the members it has.      *)
(* A device without file is left out.                                      *)
(* Mutant: the address of a network device is written only when enabled.   *)
TextOfDisabled(c) ==
  [cpus |-> {c.cpus}, tlb |-> {c.tlb}, floor |-> {c.floor}, ram |-> {c.ram}, rom |-> {c.rom},
   dev |-> IF c.dev.file = "" THEN {} ELSE {[c.dev EXCEPT !.mac = IF c.dev.enabled THEN @ ELSE ""]}]

TextOf(c) ==
  [cpus |-> {c.cpus}, tlb |-> {c.tlb}, floor |-> {c.floor}, ram |-> {c.ram}, rom |-> {c.rom},
   dev |-> IF c.dev.file = "" THEN {} ELSE {c.dev}]

(* LoadFromFile: members that are missing keep the factory setting. The    *)
(* floor is read before the size of the RAM.                               *)
Or(m, default) == IF m = {} THEN default ELSE CHOOSE v \in m : TRUE
LoadFromFile(t) ==
  [cpus  |-> bump(1, Or(t.cpus, Factory.cpus), MaxCpus),
   tlb   |-> bump(MinTlb, Or(t.tlb, Factory.tlb), MaxTlb),
   floor |-> setTLBFloorAddress(Or(t.floor, Factory.floor), DefaultRam),
   ram   |-> bump(MinRam, Or(t.ram, DefaultRam), MaxRam),
   rom   |-> Or(t.rom, Factory.rom),
   dev   |-> Or(t.dev, NoDevice)]

(* What a save and a load keep of a configuration. *)
Persistent(c) == IF c.dev.file = "" THEN [c EXCEPT !.dev = NoDevice] ELSE c

Readable(t) == t # Broken /\ t # Absent

Unusable == {[TextOf(Factory) EXCEPT !.rom = {""}], [x \in DOMAIN TextOf(Factory) |-> {}], Broken}
Texts == {TextOf([Factory EXCEPT !.tlb = s, !.floor = f, !.ram = r]) :
            s \in {MinTlb + 1, MaxTlb + 1}, f \in {RAMTOP, VMOFF}, r \in {MaxRam, MaxRam + 1}}
           \cup Unusable

(* Saving: the file is written, cannot be opened, or is emptied without    *)
(* being written.                                                          *)
Save(p, c) ==
  \/ files' = [files EXCEPT ![p] = TextOf(c)] /\ byHand' = byHand \ {p} /\ clean' = TRUE
  \/ UNCHANGED <<files, byHand>> /\ clean' = FALSE
  \/ files' = [files EXCEPT ![p] = Broken] /\ clean' = FALSE /\ UNCHANGED byHand

-----------------------------------------------------------------------------
Init ==
  /\ config = NoConfig /\ machine = NoConfig
  /\ path \in Path /\ files = [p \in Path |-> Absent]
  /\ clean = FALSE /\ byHand = {} /\ handmade = FALSE

(* setCurrentConfig halts the session first. *)
setCurrentConfig(p, c) == machine' = NoConfig /\ config' = c /\ path' = p

(* CreateConfig: a configuration that cannot be saved is not made current. *)
CreateConfig(p) ==
  \/ /\ files' = [files EXCEPT ![p] = TextOf(Factory)] /\ byHand' = byHand \ {p}
     /\ setCurrentConfig(p, Factory)
     /\ clean' = TRUE /\ handmade' = FALSE
  \/ /\ files' \in {files, [files EXCEPT ![p] = Broken]}
     /\ clean' = (clean /\ p # path)
     /\ UNCHANGED <<config, path, machine, byHand, handmade>>

LoadConfig(p) ==
  /\ Readable(files[p])
  /\ setCurrentConfig(p, LoadFromFile(files[p]))
  /\ clean' = TRUE /\ handmade' = (p \in byHand)
  /\ UNCHANGED <<files, byHand>>

(* What the dialog shows of a configuration: a TLB size that is no power   *)
(* of two as the smallest, a floor that is not listed as RAMTOP.           *)
TlbSizes == {MinTlb * 2^i : i \in 0..MaxTlb} \cap (MinTlb..MaxTlb)
ShownTlb(c)   == IF c.tlb \in TlbSizes THEN c.tlb ELSE MinTlb
ShownFloor(c) == IF c.floor \in Listed THEN c.floor ELSE RAMTOP

(* The fields e of the dialog put into the configuration c, the size of    *)
(* the RAM before the floor.                                               *)
saveConfigChanges(c, e) == [e EXCEPT !.floor = setTLBFloorAddress(e.floor, e.ram)]

(* editConfig: the dialog is accepted, and the result saved. It opens only *)
(* while no machine is on.                                                 *)
editConfig ==
  /\ config # NoConfig /\ machine = NoConfig
  /\ \E e \in [tlb : TlbSizes, ram : MinRam..MaxRam, floor : Listed, cpus : 1..MaxCpus, rom : {Factory.rom, ""}, dev : Device] :
       /\ config' = saveConfigChanges(config, e)
       /\ Save(path, config')
  /\ handmade' = FALSE
  /\ UNCHANGED <<path, machine>>

(* initializeMachine, unless the configuration is incomplete. *)
Validate(c) == c.rom # ""
PowerOn ==
  /\ config # NoConfig /\ Validate(config)
  /\ machine' = config
  /\ UNCHANGED <<config, path, files, clean, byHand, handmade>>

PowerOff ==
  /\ machine # NoConfig /\ machine' = NoConfig
  /\ UNCHANGED <<config, path, files, clean, byHand, handmade>>

(* The user edits a file with another program. *)
EditFile(p) ==
  /\ \E t \in Texts : files' = [files EXCEPT ![p] = t]
  /\ clean' = (clean /\ p # path) /\ byHand' = byHand \cup {p}
  /\ UNCHANGED <<config, path, machine, handmade>>

Next ==
  \/ \E p \in Path : CreateConfig(p) \/ LoadConfig(p) \/ EditFile(p)
  \/ editConfig \/ PowerOn \/ PowerOff

Spec == Init /\ [][Next]_vars
-----------------------------------------------------------------------------
(* A configuration survives a save and a load: the current file, unless a  *)
(* save failed or another program wrote it, reads back as the current      *)
(* configuration, up to devices without a file.                            *)
Kept == clean => Readable(files[path]) /\ LoadFromFile(files[path]) = Persistent(config)

(* A configuration that no other program wrote has its TLB floor at a      *)
(* listed address or at the top of its own RAM, whatever sizes it had      *)
(* when RAMTOP was chosen; and accepting the dialog as it opens changes    *)
(* nothing of it.                                                          *)
FloorFollowsRam ==
  config # NoConfig /\ ~handmade =>
    /\ config.floor \in {Middle, VMOFF, Top(config.ram)}
    /\ saveConfigChanges(config, [config EXCEPT !.tlb = ShownTlb(config), !.floor = ShownFloor(config)]) = config

(* A running machine has the current configuration, every size within its  *)
(* bounds whatever the file said.                                          *)
MachineAsConfigured ==
  machine # NoConfig => /\ machine = config
                    /\ machine.cpus \in 1..MaxCpus /\ machine.tlb \in MinTlb..MaxTlb
                    /\ machine.ram \in MinRam..MaxRam
=============================================================================

-------------------------------- MODULE Disk --------------------------------
(***************************************************************************)
(* Disk drivers: IdeDisk (disk/ide.rs) and AhciDisk (disk/ahci), whose     *)
(* requests are carried out by a controller that moves sectors between the *)
(* drive and memory on its own, following a table the driver has built.    *)
(* A request runs to its end before the next one is made.                  *)
(*                                                                         *)
(* Sizes are in sectors.  A sector count of MaxCmd does not fit the u16 in *)
(* which a command carries it and is sent as 0.                            *)
(***************************************************************************)
EXTENDS Integers, Sequences

CONSTANTS MaxCmd,   \* largest command, 65536 in the code
          PerPrd,   \* sectors of a full entry of the table of IDE, 128 in the code
          PrdtMax,  \* at this size the byte count of an entry of AHCI wraps: 4 MB, 8192
          Octet,    \* values of an octet of a block number, 256 in the code
          Slots,    \* command slots of AHCI, 32
          Blocks, MaxSectors, MaxRequests \* size of the drive, of a request; number of requests

(* A block number has six octets; MaxCmd, PerPrd and PrdtMax are powers of two. *)
Square == Octet * Octet
Cube == Square * Octet
ASSUME DiskAssumption ==
  /\ {MaxCmd, PerPrd, PrdtMax, Slots} \subseteq Nat \ {0} /\ MaxCmd % PerPrd = 0 /\ MaxCmd % PrdtMax = 0
  /\ Octet \in Nat \ {0, 1} /\ Blocks \in 0..Cube * Cube /\ {MaxSectors, MaxRequests} \subseteq Nat

VARIABLES ctl,     \* "ide" or "ahci"
          drive,   \* contents of the drive, and how it answers
          ram,     \* sectors of memory; the buffer of a request begins at 1
          req,     \* the request and how far the driver is
          engine,  \* the command that the controller works on
          ci,      \* AHCI: slots with a command
          halted,  \* AHCI: the port has stopped at an error
          before,  \* history: drive and memory when the request was made
          requests

diskVars == <<ctl, drive, ram, req, engine, ci, halted, before, requests>>

Idle == [at |-> "idle"]
NoEngine == [at |-> "off"]
Weight == <<1, Octet, Square, Cube, Cube * Octet, Cube * Square>>
Digit(n, k) == (n \div Weight[k + 1]) % Octet

(* What a drive answers when the driver looks for it: its status bits (IDE), its
   signature (AHCI). *)
IdeAnswers == {"floating", "none", "err", "fault", "no data", "data"}
AhciAnswers == {"absent", "SATA", "SATAPI", "PM", "SEMB", "unknown"}

DiskInit ==
  /\ ctl \in {"ide", "ahci"}
  /\ \E s \in (IF ctl = "ide" THEN IdeAnswers ELSE AhciAnswers) :
       drive = [sts |-> s, data |-> [b \in 0..(Blocks - 1) |-> b + 100]]
  /\ ram = [i \in 0..(MaxSectors + 1) |-> i]
  /\ req = [at |-> "probe"]
  /\ engine = NoEngine /\ ci = {} /\ halted = TRUE
  /\ before = <<>> /\ requests = 0

ide_poll == CASE drive.sts = "err" -> 2 [] drive.sts = "fault" -> 1 [] drive.sts = "no data" -> 3 [] OTHER -> 0
identify == drive.sts \notin {"floating", "none"} /\ ide_poll = 0

(* Ide::disks: the drives that identify accepts. *)
Disks ==
  /\ ctl = "ide" /\ req.at = "probe"
  /\ req' = IF identify THEN Idle ELSE [at |-> "absent"]
  /\ halted' = FALSE
  /\ UNCHANGED <<ctl, drive, ram, engine, ci, before, requests>>

(* Ahci::disks: the ports with a SATA drive, which init starts. *)
probe == IF drive.sts = "absent" THEN "None" ELSE drive.sts
Disks_ahci ==
  /\ ctl = "ahci" /\ req.at = "probe"
  /\ req' = IF probe = "SATA" THEN [at |-> "init"] ELSE [at |-> "absent"]
  /\ UNCHANGED <<ctl, drive, ram, engine, ci, halted, before, requests>>
Start ==
  /\ req.at = "init"
  /\ req' = Idle /\ halted' = FALSE
  /\ UNCHANGED <<ctl, drive, ram, engine, ci, before, requests>>

(* Disk::read and Disk::write; an empty request, or one without a buffer, fails.
   fault is history: the drive has reported an error that nobody has looked at. *)
Request ==
  /\ req.at = "idle" /\ requests < MaxRequests /\ requests' = requests + 1
  /\ \E b \in 0..(Blocks - 1), n \in 0..MaxSectors, w \in BOOLEAN :
       /\ b + n <= Blocks
       /\ before' = <<drive.data, ram>>
       /\ req' = [at |-> IF n = 0 THEN "done" ELSE "setup", block |-> b, sectors |-> n, write |-> w, sector |-> 0,
                  ok |-> FALSE, fault |-> FALSE]
  /\ UNCHANGED <<ctl, drive, ram, engine, ci, halted>>

----------------------------------------------------------------------------
(* ata: the block number goes out in two writes to each register, high octets
   first; the drive puts it together again. The octets of a FIS have a place each. *)
ata(block) == [high |-> [k \in 0..2 |-> Digit(block, k + 3)], low |-> [k \in 0..2 |-> Digit(block, k)]]
fis(block) == LET lba == [k \in 0..5 |-> Digit(block, k)]
              IN [high |-> [k \in 0..2 |-> lba[k + 3]], low |-> [k \in 0..2 |-> lba[k]]]
Lba(a) == a.low[0] + Octet * a.low[1] + Square * a.low[2] + Cube * (a.high[0] + Octet * a.high[1] + Square * a.high[2])

(* Mutant: the remainder is forgotten if there are full entries. *)
Prdt_Short(buf, sectors) ==
  LET entries == IF sectors = 0 THEN MaxCmd \div PerPrd ELSE sectors \div PerPrd
      full == [i \in 1..entries |-> [addr |-> buf + (i - 1) * PerPrd, size |-> PerPrd, eot |-> i = entries]]
  IN IF entries = 0 THEN <<[addr |-> buf, size |-> sectors % PerPrd, eot |-> TRUE]>> ELSE full

(* ata_dma_small: full entries, and one for the remainder; the last has the mark.
   A count of 0 is the largest command. *)
Prdt(buf, sectors) ==
  LET entries == IF sectors = 0 THEN MaxCmd \div PerPrd ELSE sectors \div PerPrd
      remainder == sectors % PerPrd
      full == [i \in 1..entries |-> [addr |-> buf + (i - 1) * PerPrd, size |-> PerPrd,
                                     eot |-> i = entries /\ remainder = 0]]
  IN IF remainder = 0 THEN full
     ELSE Append(full, [addr |-> buf + entries * PerPrd, size |-> remainder, eot |-> TRUE])

(* ata_dma: commands of MaxCmd, then one with what is left. *)
Chunk == LET left == req.sectors - req.sector IN IF left >= MaxCmd THEN MaxCmd ELSE left

ata_dma_ide ==
  /\ ctl = "ide" /\ req.at = "setup"
  /\ engine' = [at |-> "run", a |-> ata(req.block + req.sector), count |-> Chunk % MaxCmd, write |-> req.write,
                prdt |-> Prdt(1 + req.sector, Chunk % MaxCmd), moved |-> 0, slot |-> 0,
                entry |-> 1, off |-> 0]
  /\ req' = [req EXCEPT !.at = "wait"]
  /\ UNCHANGED <<ctl, drive, ram, ci, halted, before, requests>>

(* HbaPort::slot and ata_dma: the first free slot, and one entry, whose byte count
   has no more than 22 bits. *)
slot == {i \in 0..(Slots - 1) : i \notin ci /\ \A j \in 0..(i - 1) : j \in ci}
ata_dma_ahci ==
  /\ ctl = "ahci" /\ req.at = "setup"
  /\ \/ \E i \in slot :
          /\ engine' = [at |-> "run", a |-> fis(req.block), count |-> req.sectors % MaxCmd, write |-> req.write,
                        prdt |-> <<[addr |-> 1, size |-> req.sectors % PrdtMax, eot |-> TRUE]>>, moved |-> 0,
                        slot |-> i, entry |-> IF req.sectors % PrdtMax = 0 THEN 0 ELSE 1, off |-> 0]
          /\ ci' = ci \cup {i}
          /\ req' = [req EXCEPT !.at = "wait"]
     \/ /\ slot = {}
        /\ req' = [req EXCEPT !.at = "done", !.sector = req.sectors, !.ok = FALSE]
        /\ UNCHANGED <<engine, ci>>
  /\ UNCHANGED <<ctl, drive, ram, halted, before, requests>>

----------------------------------------------------------------------------
(* The controller (external): sector by sector along the table up to the entry
   with the mark; at any point it may fail, and halts (AHCI) or sets its error bit.
   entry is 0 behind the end. *)
Along(e) ==
  LET p == e.prdt[e.entry]
      more == e.off + 1 < p.size
  IN [e EXCEPT !.moved = @ + 1, !.off = IF more THEN @ + 1 ELSE 0,
               !.entry = IF more THEN @ ELSE IF p.eot \/ @ = Len(e.prdt) THEN 0 ELSE @ + 1]
Count == IF engine.count = 0 THEN MaxCmd ELSE engine.count

Move ==
  /\ engine.at = "run" /\ ~halted /\ engine.moved < Count /\ engine.entry # 0
  /\ LET b == Lba(engine.a) + engine.moved
         m == engine.prdt[engine.entry].addr + engine.off
     IN IF engine.write THEN drive' = [drive EXCEPT !.data[b] = ram[m]] /\ UNCHANGED ram
        ELSE ram' = [ram EXCEPT ![m] = drive.data[b]] /\ UNCHANGED drive
  /\ engine' = Along(engine)
  /\ UNCHANGED <<ctl, req, ci, halted, before, requests>>

Finish ==
  /\ engine.at = "run" /\ ~halted
  /\ engine.moved = Count \/ engine.entry = 0
  /\ engine' = [engine EXCEPT !.at = "int"]
  /\ ci' = ci \ {engine.slot}
  /\ UNCHANGED <<ctl, drive, ram, req, halted, before, requests>>

Fail ==
  /\ engine.at = "run" /\ ~halted
  /\ engine' = [engine EXCEPT !.at = "err"]
  /\ halted' = (ctl = "ahci")
  /\ UNCHANGED <<ctl, drive, ram, req, ci, before, requests>>

(* The drive fails: with IDE it raises the interrupt of one that is done, and only
   its own status, which ata_dma_small does not read, tells the difference. *)
DriveFails ==
  /\ ctl = "ide" /\ engine.at = "run"
  /\ engine' = [engine EXCEPT !.at = "int"]
  /\ req' = [req EXCEPT !.fault = TRUE]
  /\ UNCHANGED <<ctl, drive, ram, ci, halted, before, requests>>

----------------------------------------------------------------------------
(* ata_dma_small polls until the command is over. An error of the bus master ends
   the request; the rest of the request, if any, is the next command. *)
Complete ==
  /\ ctl = "ide" /\ req.at = "wait" /\ engine.at \in {"int", "err"}
  /\ LET moved == req.sector + Chunk
     IN req' = IF engine.at = "int" /\ moved < req.sectors THEN [req EXCEPT !.at = "setup", !.sector = moved]
               ELSE [req EXCEPT !.at = "done", !.sector = moved, !.ok = (engine.at = "int")]
  /\ engine' = NoEngine
  /\ UNCHANGED <<ctl, drive, ram, ci, halted, before, requests>>

(* The port's ata_dma waits for its slot to be cleared or for TFES; after an error
   the slot keeps its bit and nobody starts the port again. *)
Complete_ahci ==
  /\ ctl = "ahci" /\ req.at = "wait" /\ (engine.slot \notin ci \/ engine.at = "err")
  /\ req' = [req EXCEPT !.at = "done", !.sector = req.sectors, !.ok = (engine.at # "err")]
  /\ engine' = NoEngine
  /\ UNCHANGED <<ctl, drive, ram, ci, halted, before, requests>>

Returns ==
  /\ req.at = "done"
  /\ req' = Idle
  /\ UNCHANGED <<ctl, drive, ram, engine, ci, halted, before, requests>>

DiskNext == Disks \/ Disks_ahci \/ Start \/ Request \/ ata_dma_ide \/ ata_dma_ahci \/ Move \/ Finish \/ Fail \/ DriveFails \/ Complete \/ Complete_ahci \/ Returns
DiskSpec == DiskInit /\ [][DiskNext]_diskVars

----------------------------------------------------------------------------
(* The sectors that the tables of a request lead through. *)
Described == IF ctl = "ahci" THEN req.sectors % PrdtMax ELSE req.sectors

(* A request touches the sectors it names and no others, on the drive and in
   memory, even if it fails. One that reports success, if the drive itself reported
   no error, has moved what its tables describe, each sector to its place: with IDE
   all, whatever the size is to that of a table entry or a command; with AHCI all of a
   request of less than 4 MB. *)
TransferExact ==
  req.at \in {"setup", "wait", "done"} =>
    LET d0 == before[1]
        m0 == before[2]
        inside(b) == b \in req.block..(req.block + req.sectors - 1)
    IN /\ \A b \in DOMAIN d0 : drive.data[b] # d0[b] => req.write /\ inside(b) /\ drive.data[b] = m0[b - req.block + 1]
       /\ \A i \in DOMAIN m0 : ram[i] # m0[i] => ~req.write /\ i \in 1..req.sectors /\ ram[i] = d0[req.block + i - 1]
       /\ req.at = "done" /\ req.ok /\ ~req.fault =>
            \A i \in 1..Described : drive.data[req.block + i - 1] = ram[i]

============================================================================

------------------------------ MODULE BootProofs ------------------------------
(***************************************************************************)
(* Proofs that the safety properties of the boot hold for any number of    *)
(* power losses and storage errors, any sizes of certificates, and         *)
(* whichever partitions the host writes to.                                *)
(***************************************************************************)
EXTENDS Boot, TLAPS

\* What the place of aboot says about the message, the flags and USB.
InPlace ==
  /\ dev.pc = "reset" => ~dev.rec /\ ~dev.chrome
  /\ dev.pc = "clear" => disk.cmd = "recovery"
  /\ dev.pc = "update" => disk.cmd = "update"
  /\ dev.pc = "updated" =>
       /\ disk.cmd = "update" /\ hist.owed # "update"
       /\ disk.loader = "mixed" => hist.waived
  /\ dev.pc \in {"reset", "wipe", "keys", "message", "clear", "update", "updated"} =>
       dev.usb = "off"

\* What has been loaded so far is what storage holds for the flags.
Loaded ==
  /\ dev.pc \in {"ramdisk", "verify", "tree", "start"} => mem.kernel = Stored
  /\ dev.pc \in {"verify", "tree", "start"} => (~dev.chrome => mem.ramdisk = Stored)
  /\ dev.pc = "start" => mem.tree

BootInv == BootTypeOK /\ UpdateKept /\ RequestKept /\ InPlace /\ Loaded

-----------------------------------------------------------------------------
(* Types, taken apart.                                                     *)

Disks == [cmd : Commands, loader : {"old", "new", "mixed"}, image : [Partitions -> Images]]
Pcs == {"reset", "wipe", "keys", "message", "clear", "update", "updated", "header", "kernel",
        "ramdisk", "verify", "tree", "start", "running", "fastboot", "halted"}
Devices == [pc : Pcs, rec : BOOLEAN, chrome : BOOLEAN, usb : {"off", "on", "stopped"},
            os : Partitions \cup {"none", "host"}]
Sources == (Partitions \cup {""}) \X Images
Memories == [kernel : Sources, ramdisk : Sources, tree : BOOLEAN]
Histories == [faults : 0..MaxFaults, owed : Commands, waived : BOOLEAN, lost : BOOLEAN]
Sessions == [pc : {"idle", "send", "wait", "over", "overrun"}, command : 0..Signature,
             full : 0..MaxChunks, rest : BOOLEAN]

LEMMA TypesApart ==
  BootTypeOK <=> /\ disk \in Disks /\ usts \in 0..3 /\ dev \in Devices
                 /\ mem \in Memories
                 /\ hist \in Histories /\ g3 \in Sessions
                 /\ dev.os # "none" <=> dev.pc = "running"
                 /\ g3.pc # "idle" => dev.pc = "verify"
                 /\ dev.pc \in {"message", "clear", "update", "updated"} => dev.usb = "off"
BY DEF BootTypeOK, G3TypeOK, Disks, Devices, Pcs, Sources, Memories, Histories, Sessions

LEMMA TypesTogether ==
  ASSUME disk' \in Disks, usts' \in 0..3, dev' \in Devices,
         mem' \in Memories,
         hist' \in Histories, g3' \in Sessions,
         dev'.os # "none" <=> dev'.pc = "running",
         g3'.pc # "idle" => dev'.pc = "verify",
         dev'.pc \in {"message", "clear", "update", "updated"} => dev'.usb = "off"
  PROVE  BootTypeOK'
BY DEF BootTypeOK, G3TypeOK, Disks, Devices, Pcs, Sources, Memories, Histories, Sessions

LEMMA StoredType == ASSUME disk \in Disks, dev \in Devices PROVE Stored \in Sources
BY DEF Stored, Selected, Sources, Disks, Devices, Partitions

LEMMA FaultyType ==
  ASSUME hist \in Histories, Fault
  PROVE  /\ Faulty(hist) \in Histories
         /\ Faulty(hist).owed = hist.owed /\ Faulty(hist).waived = hist.waived
         /\ Faulty(hist).lost = hist.lost
BY BootAssumption DEF BootAssumption, Histories, Fault, Faulty

LEMMA AskedType ==
  ASSUME hist \in Histories, NEW c \in Commands
  PROVE  /\ Asked(hist, c) \in Histories
         /\ Asked(hist, c).owed = c /\ ~Asked(hist, c).lost
         /\ Asked(hist, c).waived = (hist.waived \/ (disk.loader = "mixed" /\ c # "update"))
BY DEF Histories, Asked

-----------------------------------------------------------------------------
(* Resets.                                                                 *)

\* A reset from any place, with the storage left as disk' and h as history.
LEMMA ResetOK ==
  ASSUME BootInv, NEW h \in Histories, Reset(h), disk' \in Disks, usts' \in 0..3,
         disk'.loader = "mixed" => disk'.cmd = "update" \/ h.waived,
         h.owed = "recovery" => dev.rec \/ h.lost \/ Pending,
         Pending => disk'.cmd \in {"recovery", "update"},
         h.owed = "update" => disk'.cmd = "update"
  PROVE  BootInv'
<1>1. /\ dev' = PowerOnDevice /\ mem' = EmptyMemory /\ g3' = NoSession
      /\ hist' = [h EXCEPT !.lost = @ \/ (h.owed = "recovery" /\ ~Pending /\ dev.rec)]
  BY DEF Reset
<1>2. /\ hist' \in Histories /\ hist'.owed = h.owed /\ hist'.waived = h.waived
      /\ hist'.lost = (h.lost \/ (h.owed = "recovery" /\ ~Pending /\ dev.rec))
  <2> DEFINE l == h.lost \/ (h.owed = "recovery" /\ ~Pending /\ dev.rec)
  <2>1. hist' = [h EXCEPT !.lost = l] /\ l \in BOOLEAN
    BY <1>1
  <2> HIDE DEF l
  <2>2. hist' \in Histories /\ hist'.owed = h.owed /\ hist'.waived = h.waived /\ hist'.lost = l
    BY <2>1 DEF Histories
  <2> QED
    BY <2>2 DEF l
<1>3. BootTypeOK'
  <2>1. dev' \in Devices /\ dev'.os = "none" /\ dev'.pc = "reset" /\ dev'.usb = "off"
    BY <1>1 DEF PowerOnDevice, Devices, Pcs
  <2>2. mem' \in Memories
    BY <1>1 DEF EmptyMemory, Missing, Memories, Sources, Images
  <2>3. g3' \in Sessions /\ g3'.pc = "idle"
    BY <1>1, VerifyAssumption DEF NoSession, Sessions, Signature, VerifyAssumption
  <2> QED
    BY <1>2, <2>1, <2>2, <2>3, TypesTogether
<1>4. UpdateKept'
  BY <1>2 DEF UpdateKept
<1>5. RequestKept'
  <2>1. hist'.owed = "recovery" => Pending' \/ hist'.lost
    BY <1>2 DEF Pending
  <2>2. hist'.owed = "update" => disk'.cmd = "update"
    BY <1>2
  <2> QED
    BY <2>1, <2>2 DEF RequestKept
<1>6. InPlace' /\ Loaded'
  BY <1>1 DEF InPlace, Loaded, PowerOnDevice
<1> QED
  BY <1>3, <1>4, <1>5, <1>6 DEF BootInv

LEMMA PowerLossOK == ASSUME BootInv, PowerLoss PROVE BootInv'
<1>1. /\ Faulty(hist) \in Histories /\ Faulty(hist).owed = hist.owed
      /\ Faulty(hist).waived = hist.waived /\ Faulty(hist).lost = hist.lost
  BY FaultyType, TypesApart DEF PowerLoss, BootInv
<1>2. disk' \in Disks /\ usts' \in 0..3
  BY TypesApart DEF PowerLoss, BootInv
<1> QED
  BY <1>1, <1>2, ResetOK DEF PowerLoss, BootInv, UpdateKept, RequestKept, Pending

LEMMA RebootOK == ASSUME BootInv, Reboot \/ Restart PROVE BootInv'
<1>1. Reset(hist) /\ disk' = disk /\ hist \in Histories /\ disk' \in Disks /\ usts' \in 0..3
  BY TypesApart DEF Reboot, Restart, BootInv
<1> QED
  BY <1>1, ResetOK DEF BootInv, UpdateKept, RequestKept, Pending

-----------------------------------------------------------------------------
(* aboot_init and recovery_init.                                           *)

LEMMA ConsoleOK == ASSUME BootInv, Console PROVE BootInv'
<1>1. disk \in Disks /\ dev \in Devices /\ hist \in Histories /\ g3 \in Sessions
      /\ dev.pc = "reset" /\ dev.usb = "off" /\ dev.os = "none" /\ ~dev.rec /\ g3.pc = "idle"
  BY TypesApart DEF Console, BootInv, InPlace
<1>2. /\ dev' \in Devices /\ dev'.os = "none" /\ dev'.pc \in {"fastboot", "keys", "wipe"}
      /\ dev'.pc # "fastboot" => dev'.usb = "off"
  BY <1>1 DEF Console, Devices, Pcs, Goto
<1>3. UNCHANGED <<disk, usts, mem, hist, g3>>
  BY DEF Console
<1>4. BootTypeOK'
  BY <1>1, <1>2, <1>3, TypesApart, TypesTogether DEF BootInv
<1> QED
  BY <1>1, <1>2, <1>3, <1>4 DEF BootInv, UpdateKept, RequestKept, InPlace, Loaded, Pending

\* The types at a place before the image is verified.
LEMMA Before ==
  ASSUME BootInv, dev.pc # "verify"
  PROVE  /\ disk \in Disks /\ usts \in 0..3 /\ dev \in Devices /\ hist \in Histories
         /\ mem \in Memories
         /\ g3 \in Sessions /\ g3.pc = "idle"
         /\ dev.os # "none" <=> dev.pc = "running"
BY TypesApart DEF BootInv

LEMMA FactoryResetOK == ASSUME BootInv, FactoryReset PROVE BootInv'
<1>1. dev.pc = "wipe" /\ dev.usb = "off" /\ UNCHANGED <<usts, mem, g3>>
  BY DEF FactoryReset, BootInv, InPlace
<1>2. dev' \in Devices /\ dev'.pc = "keys" /\ dev'.usb = "off" /\ dev'.os = "none" /\ dev'.rec = dev.rec
  BY <1>1, Before DEF FactoryReset, Goto, Devices, Pcs
<1>3. CASE disk' = [disk EXCEPT !.cmd = "recovery"] /\ hist' = Asked(hist, "recovery")
  <2>1. /\ disk' \in Disks /\ disk'.cmd = "recovery" /\ disk'.loader = disk.loader
        /\ disk'.image = disk.image
    BY <1>1, <1>3, Before DEF Disks, Commands
  <2>2. /\ hist' \in Histories /\ hist'.owed = "recovery"
        /\ disk.loader = "mixed" => hist'.waived
    BY <1>1, <1>3, Before, AskedType DEF Commands
  <2>3. BootTypeOK'
    BY <1>1, <1>2, <2>1, <2>2, Before, TypesTogether
  <2> QED
    BY <1>2, <2>1, <2>2, <2>3 DEF BootInv, UpdateKept, RequestKept, InPlace, Loaded, Pending
<1>4. CASE Fault /\ hist' = Faulty(hist) /\ UNCHANGED disk
  <2>1. /\ hist' \in Histories /\ hist'.owed = hist.owed /\ hist'.waived = hist.waived
        /\ hist'.lost = hist.lost
    BY <1>1, <1>4, Before, FaultyType
  <2>2. BootTypeOK'
    BY <1>1, <1>2, <1>4, <2>1, Before, TypesTogether
  <2> QED
    BY <1>2, <1>4, <2>1, <2>2 DEF BootInv, UpdateKept, RequestKept, InPlace, Loaded, Pending
<1> QED
  BY <1>3, <1>4 DEF FactoryReset

LEMMA KeysOK == ASSUME BootInv, Keys PROVE BootInv'
<1>1. dev.pc = "keys" /\ dev.usb = "off" /\ UNCHANGED <<disk, usts, mem, hist, g3>>
  BY DEF Keys, BootInv, InPlace
<1>2. /\ dev' \in Devices /\ dev'.pc \in {"fastboot", "message"} /\ dev'.os = "none"
      /\ dev'.pc = "message" => dev'.usb = "off"
      /\ dev.rec => dev'.rec
  <2>1. PICK chrome, up, down \in BOOLEAN :
          dev' = IF (~(dev.rec \/ up) /\ down) \/ usts = 1
                 THEN [dev EXCEPT !.pc = "fastboot", !.usb = "on",
                                  !.rec = dev.rec \/ up, !.chrome = chrome]
                 ELSE [dev EXCEPT !.pc = "message",
                                  !.rec = (dev.rec \/ up) \/ usts = 2, !.chrome = chrome]
    BY DEF Keys
  <2>2. dev \in Devices /\ dev.os = "none"
    BY <1>1, Before
  <2>3. CASE dev' = [dev EXCEPT !.pc = "fastboot", !.usb = "on",
                                !.rec = dev.rec \/ up, !.chrome = chrome]
    BY <2>2, <2>3 DEF Devices, Pcs
  <2>4. CASE dev' = [dev EXCEPT !.pc = "message",
                                !.rec = (dev.rec \/ up) \/ usts = 2, !.chrome = chrome]
    BY <1>1, <2>2, <2>4 DEF Devices, Pcs
  <2> QED
    BY <2>1, <2>3, <2>4
<1>3. BootTypeOK'
  BY <1>1, <1>2, Before, TypesTogether
<1> QED
  BY <1>1, <1>2, <1>3 DEF BootInv, UpdateKept, RequestKept, InPlace, Loaded, Pending

LEMMA GotoOK ==
  ASSUME dev \in Devices, NEW l \in Pcs, Goto(l)
  PROVE  /\ dev' \in Devices /\ dev'.pc = l /\ dev'.rec = dev.rec /\ dev'.chrome = dev.chrome
         /\ dev'.usb = dev.usb /\ dev'.os = dev.os
BY DEF Goto, Devices

LEMMA ReadMessageOK == ASSUME BootInv, ReadMessage PROVE BootInv'
<1>1. dev.pc = "message" /\ dev.usb = "off" /\ UNCHANGED <<disk, usts, mem, g3>>
  BY DEF ReadMessage, BootInv, InPlace
<1>2. /\ hist' \in Histories /\ hist'.owed = hist.owed /\ hist'.waived = hist.waived
      /\ hist'.lost = hist.lost
  BY <1>1, Before, FaultyType DEF ReadMessage
<1>3. PICK l \in {"clear", "update", "header"} :
        /\ Goto(l) /\ (l = "clear" => disk.cmd = "recovery") /\ (l = "update" => disk.cmd = "update")
  BY DEF ReadMessage
<1>4. /\ dev' \in Devices /\ dev'.pc = l /\ dev'.rec = dev.rec /\ dev'.usb = "off"
      /\ dev'.os = "none"
  BY <1>1, <1>3, Before, GotoOK DEF Pcs
<1>5. BootTypeOK'
  BY <1>1, <1>2, <1>4, Before, TypesTogether
<1> QED
  BY <1>1, <1>2, <1>3, <1>4, <1>5 DEF BootInv, UpdateKept, RequestKept, InPlace, Loaded, Pending

LEMMA ClearMessageOK == ASSUME BootInv, ClearMessage PROVE BootInv'
<1>1. /\ dev.pc = "clear" /\ dev.usb = "off" /\ disk.cmd = "recovery"
      /\ UNCHANGED <<usts, mem, g3>>
  BY DEF ClearMessage, BootInv, InPlace
<1>2. dev' \in Devices /\ dev'.pc = "header" /\ dev'.rec /\ dev'.os = "none"
  BY <1>1, Before DEF ClearMessage, Devices, Pcs
<1>3. /\ hist' \in Histories /\ hist'.owed = hist.owed /\ hist'.waived = hist.waived
      /\ hist'.lost = hist.lost
  BY <1>1, Before, FaultyType DEF ClearMessage
<1>4. disk' \in Disks /\ disk'.loader = disk.loader
  BY <1>1, Before DEF ClearMessage, Disks, Commands
<1>5. BootTypeOK'
  BY <1>1, <1>2, <1>3, <1>4, Before, TypesTogether
<1> QED
  BY <1>1, <1>2, <1>3, <1>4, <1>5 DEF BootInv, UpdateKept, RequestKept, InPlace, Loaded

\* The bootloader is replaced, half or whole.
LEMMA LoaderType ==
  ASSUME disk \in Disks, NEW l \in {"new", "mixed"}, disk' = [disk EXCEPT !.loader = l]
  PROVE  disk' \in Disks /\ disk'.loader = l /\ disk'.cmd = disk.cmd /\ disk'.image = disk.image
BY DEF Disks

LEMMA UpdateBootloaderOK == ASSUME BootInv, UpdateBootloader PROVE BootInv'
<1>1. dev.pc = "update" /\ dev.usb = "off" /\ disk.cmd = "update" /\ UNCHANGED usts
  BY DEF UpdateBootloader, BootInv, InPlace
<1>2. /\ disk \in Disks /\ usts' \in 0..3 /\ dev \in Devices /\ hist \in Histories
      /\ g3.pc = "idle" /\ dev.os = "none" /\ g3 \in Sessions
  BY <1>1, Before
<1>3. CASE /\ disk' = [disk EXCEPT !.loader = "new"]
           /\ Goto("updated")
           /\ hist' = [hist EXCEPT !.owed = IF @ = "update" THEN "recovery" ELSE @,
                                   !.waived = FALSE]
           /\ UNCHANGED <<mem, g3>>
  <2>1. disk' \in Disks /\ disk'.loader = "new" /\ disk'.cmd = "update"
    BY <1>1, <1>2, <1>3, LoaderType
  <2>2. /\ dev' \in Devices /\ dev'.pc = "updated" /\ dev'.usb = "off" /\ dev'.os = "none"
        /\ dev'.rec = dev.rec
    BY <1>1, <1>2, <1>3, GotoOK DEF Pcs
  <2>3. hist' \in Histories /\ hist'.owed # "update"
    BY <1>2, <1>3 DEF Histories, Commands
  <2>4. BootTypeOK'
    BY <1>1, <1>2, <1>3, <2>1, <2>2, <2>3, Before, TypesTogether
  <2> QED
    BY <2>1, <2>2, <2>3, <2>4 DEF BootInv, UpdateKept, RequestKept, InPlace, Loaded, Pending
<1>4. CASE /\ UpdateFails /\ disk' \in {disk, [disk EXCEPT !.loader = "mixed"]}
           /\ UNCHANGED <<mem, g3>>
  <2>1. disk' \in Disks /\ disk'.cmd = "update"
    BY <1>1, <1>2, <1>4, LoaderType
  <2>2. /\ dev' \in Devices /\ dev'.pc = "header" /\ dev'.usb = "off" /\ dev'.os = "none"
        /\ dev'.rec = dev.rec
    BY <1>1, <1>2, <1>4, GotoOK DEF UpdateFails, Pcs
  <2>3. hist' \in Histories /\ hist'.owed = hist.owed /\ hist'.lost = hist.lost
    BY <1>2, <1>4, FaultyType DEF UpdateFails
  <2>4. BootTypeOK'
    BY <1>1, <1>2, <1>4, <2>1, <2>2, <2>3, Before, TypesTogether
  <2> QED
    BY <2>1, <2>2, <2>3, <2>4 DEF BootInv, UpdateKept, RequestKept, InPlace, Loaded, Pending
<1>5. CASE /\ Fault
           /\ disk' = [disk EXCEPT !.loader = "mixed"]
           /\ Goto("updated")
           /\ hist' = [Faulty(hist) EXCEPT !.owed = "recovery", !.waived = TRUE]
           /\ UNCHANGED <<mem, g3>>
  <2>1. disk' \in Disks /\ disk'.loader = "mixed" /\ disk'.cmd = "update"
    BY <1>1, <1>2, <1>5, LoaderType
  <2>2. /\ dev' \in Devices /\ dev'.pc = "updated" /\ dev'.usb = "off" /\ dev'.os = "none"
        /\ dev'.rec = dev.rec
    BY <1>1, <1>2, <1>5, GotoOK DEF Pcs
  <2>3. hist' \in Histories /\ hist'.owed = "recovery" /\ hist'.waived
    <3>1. Faulty(hist) \in Histories
      BY <1>2, <1>5, FaultyType
    <3> QED
      BY <1>5, <3>1 DEF Histories, Commands
  <2>4. BootTypeOK'
    BY <1>1, <1>2, <1>5, <2>1, <2>2, <2>3, Before, TypesTogether
  <2> QED
    BY <2>1, <2>2, <2>3, <2>4 DEF BootInv, UpdateKept, RequestKept, InPlace, Loaded, Pending
<1>6. CASE Fault /\ disk' = [disk EXCEPT !.loader = "mixed"] /\ Reset(Faulty(hist))
  <2>1. disk' \in Disks /\ disk'.cmd = "update"
    BY <1>1, <1>2, <1>6, LoaderType
  <2>2. Faulty(hist) \in Histories /\ Faulty(hist).owed = hist.owed
    BY <1>2, <1>6, FaultyType
  <2>3. Pending
    BY <1>1 DEF Pending
  <2> QED
    BY <1>2, <1>6, <2>1, <2>2, <2>3, ResetOK
<1> QED
  BY <1>3, <1>4, <1>5, <1>6 DEF UpdateBootloader

LEMMA FinishUpdateOK == ASSUME BootInv, FinishUpdate PROVE BootInv'
<1>1. /\ dev.pc = "updated" /\ disk.cmd = "update" /\ usts' \in 0..3 /\ Pending
      /\ hist.owed # "update" /\ (disk.loader = "mixed" => hist.waived)
      /\ disk \in Disks /\ hist \in Histories
  BY Before DEF FinishUpdate, BootInv, InPlace, Pending
<1>2. CASE disk' = [disk EXCEPT !.cmd = "recovery"] /\ Reset(hist)
  <2>1. disk' \in Disks /\ disk'.cmd = "recovery" /\ disk'.loader = disk.loader
    BY <1>1, <1>2 DEF Disks, Commands
  <2> QED
    BY <1>1, <1>2, <2>1, ResetOK
<1>3. CASE Fault /\ Reset(Faulty(hist)) /\ UNCHANGED disk
  <2>1. Faulty(hist) \in Histories /\ Faulty(hist).owed = hist.owed
    BY <1>1, <1>3, FaultyType
  <2> QED
    BY <1>1, <1>3, <2>1, ResetOK
<1> QED
  BY <1>2, <1>3 DEF FinishUpdate

-----------------------------------------------------------------------------
(* boot_linux_from_storage.                                                *)

\* A step of the loading that leaves storage, flags and requests as they are.
LEMMA LoadingOK ==
  ASSUME BootInv, UNCHANGED <<disk, usts>>, Loaded',
         hist' \in Histories, hist'.owed = hist.owed, hist'.waived = hist.waived,
         hist'.lost = hist.lost,
         dev' \in Devices, dev'.rec = dev.rec, dev'.os = "none",
         dev'.pc \in {"header", "kernel", "ramdisk", "verify", "tree", "start", "fastboot", "halted"},
         g3' \in Sessions, g3'.pc # "idle" => dev'.pc = "verify",
         mem' \in Memories
  PROVE  BootInv'
<1>1. disk' \in Disks /\ usts' \in 0..3
  BY TypesApart DEF BootInv
<1>2. BootTypeOK'
  BY <1>1, TypesTogether
<1>3. UpdateKept' /\ RequestKept'
  BY DEF BootInv, UpdateKept, RequestKept, Pending
<1>4. InPlace'
  BY DEF InPlace
<1> QED
  BY <1>2, <1>3, <1>4 DEF BootInv

LEMMA BootFailsOK ==
  ASSUME dev \in Devices, BootFails
  PROVE  /\ dev' \in Devices /\ dev'.pc = "fastboot" /\ dev'.rec = dev.rec /\ dev'.os = dev.os
BY DEF BootFails, Devices, Pcs

LEMMA ReadFailsOK ==
  ASSUME BootInv, dev.os = "none", g3.pc = "idle", ReadFails, UNCHANGED <<disk, usts, g3>>
  PROVE  BootInv'
<1>1. /\ dev \in Devices /\ hist \in Histories /\ g3 \in Sessions
      /\ mem \in Memories
  BY TypesApart DEF BootInv
<1>2. dev' \in Devices /\ dev'.pc = "fastboot" /\ dev'.rec = dev.rec /\ dev'.os = "none"
  BY <1>1, BootFailsOK DEF ReadFails
<1>3. /\ hist' \in Histories /\ hist'.owed = hist.owed /\ hist'.waived = hist.waived
      /\ hist'.lost = hist.lost /\ mem' = mem
  BY <1>1, FaultyType DEF ReadFails
<1>4. Loaded'
  BY <1>2 DEF Loaded
<1> QED
  BY <1>1, <1>2, <1>3, <1>4, LoadingOK

LEMMA LoadHeaderOK == ASSUME BootInv, LoadHeader PROVE BootInv'
<1>1. dev.pc = "header" /\ UNCHANGED <<disk, usts, g3>>
  BY DEF LoadHeader
<1>2. /\ dev \in Devices /\ hist \in Histories /\ g3 \in Sessions /\ g3.pc = "idle"
      /\ mem \in Memories /\ dev.os = "none"
  BY <1>1, Before
<1>3. CASE ReadFails
  BY <1>1, <1>2, <1>3, ReadFailsOK
<1>4. CASE (BootFails \/ Goto("kernel")) /\ UNCHANGED <<mem, hist>>
  <2>1. dev' \in Devices /\ dev'.pc \in {"fastboot", "kernel"} /\ dev'.rec = dev.rec /\ dev'.os = "none"
    BY <1>2, <1>4, BootFailsOK, GotoOK DEF Pcs
  <2>2. Loaded'
    BY <2>1 DEF Loaded
  <2> QED
    BY <1>1, <1>2, <1>4, <2>1, <2>2, LoadingOK
<1> QED
  BY <1>3, <1>4 DEF LoadHeader

\* What is stored does not change while the flags and the storage do not.
LEMMA SameStored ==
  ASSUME dev'.rec = dev.rec, dev'.chrome = dev.chrome, disk' = disk
  PROVE  Stored' = Stored
BY DEF Stored, Selected

LEMMA LoadKernelOK == ASSUME BootInv, LoadKernel PROVE BootInv'
<1>1. dev.pc = "kernel" /\ UNCHANGED <<disk, usts, g3>>
  BY DEF LoadKernel
<1>2. /\ dev \in Devices /\ hist \in Histories /\ g3 \in Sessions /\ g3.pc = "idle"
      /\ mem \in Memories /\ dev.os = "none" /\ Stored \in Sources
  BY <1>1, Before, StoredType
<1>3. CASE ReadFails
  BY <1>1, <1>2, <1>3, ReadFailsOK
<1>4. CASE Goto("ramdisk") /\ mem' = [mem EXCEPT !.kernel = Stored] /\ UNCHANGED hist
  <2>1. /\ dev' \in Devices /\ dev'.pc = "ramdisk" /\ dev'.rec = dev.rec /\ dev'.os = "none"
        /\ dev'.chrome = dev.chrome
    BY <1>2, <1>4, GotoOK DEF Pcs
  <2>2. mem' \in Memories /\ mem'.kernel = Stored
    BY <1>2, <1>4 DEF Memories
  <2>3. Loaded'
    BY <1>1, <2>1, <2>2, SameStored DEF Loaded
  <2> QED
    BY <1>1, <1>2, <1>4, <2>1, <2>2, <2>3, LoadingOK
<1> QED
  BY <1>3, <1>4 DEF LoadKernel

LEMMA LoadRamdiskOK == ASSUME BootInv, LoadRamdisk PROVE BootInv'
<1>1. dev.pc = "ramdisk" /\ UNCHANGED <<disk, usts, g3>> /\ mem.kernel = Stored
  BY DEF LoadRamdisk, BootInv, Loaded
<1>2. /\ dev \in Devices /\ hist \in Histories /\ g3 \in Sessions /\ g3.pc = "idle"
      /\ mem \in Memories /\ dev.os = "none" /\ Stored \in Sources
  BY <1>1, Before, StoredType
<1>3. CASE ReadFails
  BY <1>1, <1>2, <1>3, ReadFailsOK
<1>4. CASE /\ Goto("verify") /\ UNCHANGED hist
           /\ \/ dev.chrome /\ UNCHANGED mem
              \/ mem' = [mem EXCEPT !.ramdisk = Stored]
  <2>1. /\ dev' \in Devices /\ dev'.pc = "verify" /\ dev'.rec = dev.rec /\ dev'.os = "none"
        /\ dev'.chrome = dev.chrome
    BY <1>2, <1>4, GotoOK DEF Pcs
  <2>2. /\ mem' \in Memories /\ mem'.kernel = Stored
        /\ ~dev.chrome => mem'.ramdisk = Stored
    BY <1>1, <1>2, <1>4 DEF Memories
  <2>3. Loaded'
    BY <1>1, <2>1, <2>2, SameStored DEF Loaded
  <2> QED
    BY <1>1, <1>2, <1>4, <2>1, <2>2, <2>3, LoadingOK
<1> QED
  BY <1>3, <1>4 DEF LoadRamdisk

LEMMA SessionTypes ==
  NoSession \in Sessions /\ SessionOver \in Sessions /\ NoSession.pc = "idle"
<1>1. 0 \in 0..MaxChunks /\ 0 \in 0..Signature
  BY VerifyAssumption DEF VerifyAssumption, Signature
<1>2. NoSession \in Sessions /\ NoSession.pc = "idle"
  BY <1>1 DEF NoSession, Sessions
<1>3. SessionOver \in Sessions
  BY <1>2 DEF SessionOver, Sessions
<1> QED
  BY <1>2, <1>3

LEMMA VerifiedOK == ASSUME BootInv, Verified PROVE BootInv'
<1>1. /\ dev.pc = "verify" /\ UNCHANGED <<disk, usts, mem, hist>> /\ mem.kernel = Stored
      /\ ~dev.chrome => mem.ramdisk = Stored
  BY DEF Verified, BootInv, Loaded
<1>2. dev \in Devices /\ hist \in Histories /\ mem \in Memories /\ dev.os = "none"
  BY <1>1, TypesApart DEF BootInv
<1>3. g3' \in Sessions /\ g3'.pc = "idle"
  BY SessionTypes DEF Verified
<1>4. /\ dev' \in Devices /\ dev'.pc \in {"tree", "halted"} /\ dev'.rec = dev.rec
      /\ dev'.os = "none" /\ dev'.chrome = dev.chrome
  BY <1>2, GotoOK DEF Verified, Pcs
<1>5. Loaded'
  BY <1>1, <1>4, SameStored DEF Loaded
<1> QED
  BY <1>1, <1>2, <1>3, <1>4, <1>5, LoadingOK

LEMMA LoadTreeOK == ASSUME BootInv, LoadTree PROVE BootInv'
<1>1. /\ dev.pc = "tree" /\ UNCHANGED <<disk, usts, g3>> /\ mem.kernel = Stored
      /\ ~dev.chrome => mem.ramdisk = Stored
  BY DEF LoadTree, BootInv, Loaded
<1>2. /\ dev \in Devices /\ hist \in Histories /\ g3 \in Sessions /\ g3.pc = "idle"
      /\ mem \in Memories /\ dev.os = "none"
  BY <1>1, Before
<1>3. CASE ReadFails
  BY <1>1, <1>2, <1>3, ReadFailsOK
<1>4. CASE Goto("start") /\ mem' = [mem EXCEPT !.tree = TRUE] /\ UNCHANGED hist
  <2>1. /\ dev' \in Devices /\ dev'.pc = "start" /\ dev'.rec = dev.rec /\ dev'.os = "none"
        /\ dev'.chrome = dev.chrome
    BY <1>2, <1>4, GotoOK DEF Pcs
  <2>2. mem' \in Memories /\ mem'.kernel = mem.kernel /\ mem'.ramdisk = mem.ramdisk /\ mem'.tree
    BY <1>2, <1>4 DEF Memories
  <2>3. Loaded'
    BY <1>1, <2>1, <2>2, SameStored DEF Loaded
  <2> QED
    BY <1>1, <1>2, <1>4, <2>1, <2>2, <2>3, LoadingOK
<1> QED
  BY <1>3, <1>4 DEF LoadTree

\* A kernel is entered: the only request that this ends is one for recovery.
LEMMA StartedOK ==
  ASSUME BootInv, NEW os \in Partitions \cup {"host"}, Started(os), g3.pc = "idle",
         UNCHANGED <<disk, usts, mem, g3>>
  PROVE  BootInv'
<1>1. /\ disk \in Disks /\ usts \in 0..3 /\ dev \in Devices /\ hist \in Histories
      /\ mem \in Memories /\ g3 \in Sessions
  BY TypesApart DEF BootInv
<1>2. dev' \in Devices /\ dev'.pc = "running" /\ dev'.os = os /\ dev'.rec = dev.rec
  BY <1>1 DEF Started, Devices, Pcs
<1>3. /\ hist' \in Histories /\ hist'.waived = hist.waived /\ hist'.lost = hist.lost
      /\ hist'.owed \in {hist.owed, "none"}
  BY <1>1 DEF Started, Histories, Commands
<1>4. os # "none"
  BY DEF Partitions
<1>5. BootTypeOK'
  BY <1>1, <1>2, <1>3, <1>4, TypesTogether
<1> QED
  BY <1>2, <1>3, <1>5 DEF BootInv, UpdateKept, RequestKept, InPlace, Loaded, Pending

LEMMA StartKernelOK == ASSUME BootInv, StartKernel PROVE BootInv'
<1>1. dev.pc = "start" /\ UNCHANGED <<disk, usts, mem, g3>>
  BY DEF StartKernel
<1>2. /\ dev \in Devices /\ hist \in Histories /\ g3 \in Sessions /\ g3.pc = "idle"
      /\ mem \in Memories /\ dev.os = "none"
  BY <1>1, Before
<1>3. CASE Started(Selected)
  BY <1>1, <1>2, <1>3, StartedOK DEF Selected, Partitions
<1>4. CASE Goto("halted") /\ UNCHANGED hist
  <2>1. dev' \in Devices /\ dev'.pc = "halted" /\ dev'.rec = dev.rec /\ dev'.os = "none"
    BY <1>2, <1>4, GotoOK DEF Pcs
  <2>2. Loaded'
    BY <2>1 DEF Loaded
  <2> QED
    BY <1>1, <1>2, <1>4, <2>1, <2>2, LoadingOK
<1> QED
  BY <1>3, <1>4 DEF StartKernel

-----------------------------------------------------------------------------
(* The session with the chip.                                              *)

\* No session, and none that the chip drives, goes past the signature.
LEMMA SessionOK ==
  ASSUME g3 \in Sessions, VerifyBegin \/ G3Send \/ G3Answer \/ G3TimeOut
  PROVE  g3' \in Sessions
<1>1. CASE VerifyBegin
  BY <1>1, SessionTypes DEF VerifyBegin, Sessions
<1>2. CASE G3Send
  BY <1>2, SessionTypes DEF G3Send, Sessions
<1>3. CASE G3Answer
  <2>1. CASE g3' = SessionOver
    BY <2>1, SessionTypes
  <2>2. CASE g3.command \in 0..10 /\ NextCommand
    <3> DEFINE n == g3.command + 1
    <3>1. n \in 0..Signature /\ g3' = [g3 EXCEPT !.pc = "send", !.command = n]
      BY <2>2 DEF NextCommand, Signature, Sessions
    <3> HIDE DEF n
    <3> QED
      BY <3>1 DEF Sessions
  <2>3. CASE LoadCertificate
    BY <2>3 DEF LoadCertificate, Sessions, FirstPart, Signature
  <2>4. CASE LoadSignature
    <3>1. PICK p \in {"send", "overrun"} : g3' = [NoSession EXCEPT !.pc = p, !.command = Signature]
      BY <2>4 DEF LoadSignature
    <3>2. Signature \in 0..Signature
      BY DEF Signature
    <3> QED
      BY <3>1, <3>2, SessionTypes DEF Sessions
  <2> QED
    <3>1. g3.command \in 0..11
      BY DEF Sessions, Signature
    <3> QED
      BY <1>3, <2>1, <2>2, <2>3, <2>4, <3>1
      DEF G3Answer, GoOn, LastAuth, FirstPart, LastPart
<1>4. CASE G3TimeOut
  BY <1>4, SessionTypes DEF G3TimeOut
<1> QED
  BY <1>1, <1>2, <1>3, <1>4

LEMMA VerifyImageOK ==
  ASSUME BootInv, VerifyImage, VerifyBegin \/ G3Send \/ G3Answer \/ G3TimeOut
  PROVE  BootInv'
<1>1. dev.pc = "verify" /\ UNCHANGED <<disk, usts, dev, mem, hist>>
  BY DEF VerifyImage
<1>2. dev \in Devices /\ hist \in Histories /\ mem \in Memories /\ dev.os = "none" /\ g3 \in Sessions
  BY <1>1, TypesApart DEF BootInv
<1>3. Loaded'
  BY <1>1, SameStored DEF BootInv, Loaded
<1> QED
  BY <1>1, <1>2, <1>3, SessionOK, LoadingOK

-----------------------------------------------------------------------------
(* Fastboot and the kernels.                                               *)

LEMMA FlashImageOK == ASSUME BootInv, FlashImage PROVE BootInv'
<1>1. dev.pc = "fastboot" /\ UNCHANGED usts
  BY DEF FlashImage, Served
<1>2. /\ disk \in Disks /\ usts' \in 0..3 /\ dev \in Devices /\ hist \in Histories
      /\ g3 \in Sessions /\ g3.pc = "idle" /\ mem \in Memories /\ dev.os = "none"
  BY <1>1, Before
<1>3. /\ disk' \in Disks /\ disk'.cmd = disk.cmd /\ disk'.loader = disk.loader
  BY <1>2, BootAssumption DEF FlashImage, Disks, Images, BootAssumption
<1>4. CASE UNCHANGED <<dev, mem, g3>> /\ (UNCHANGED hist \/ (Fault /\ hist' = Faulty(hist)))
  <2>1. /\ hist' \in Histories /\ hist'.owed = hist.owed /\ hist'.waived = hist.waived
        /\ hist'.lost = hist.lost
    BY <1>2, <1>4, FaultyType
  <2>2. BootTypeOK'
    BY <1>1, <1>2, <1>3, <1>4, <2>1, TypesTogether
  <2> QED
    BY <1>1, <1>3, <1>4, <2>1, <2>2 DEF BootInv, UpdateKept, RequestKept, InPlace, Loaded, Pending
<1>5. CASE Fault /\ Reset(Faulty(hist))
  <2>1. /\ Faulty(hist) \in Histories /\ Faulty(hist).owed = hist.owed
        /\ Faulty(hist).waived = hist.waived /\ Faulty(hist).lost = hist.lost
    BY <1>2, <1>5, FaultyType
  <2> QED
    BY <1>2, <1>3, <1>5, <2>1, ResetOK DEF BootInv, UpdateKept, RequestKept, Pending
<1> QED
  BY <1>4, <1>5 DEF FlashImage

LEMMA FlashBootloaderOK == ASSUME BootInv, FlashBootloader PROVE BootInv'
<1>1. dev.pc = "fastboot" /\ UNCHANGED usts
  BY DEF FlashBootloader, Served
<1>2. /\ disk \in Disks /\ usts' \in 0..3 /\ dev \in Devices /\ hist \in Histories
      /\ g3 \in Sessions /\ g3.pc = "idle" /\ mem \in Memories /\ dev.os = "none"
  BY <1>1, Before
<1>3. disk' \in Disks /\ disk'.cmd = disk.cmd
  BY <1>2, LoaderType DEF FlashBootloader
<1>4. CASE /\ disk' = [disk EXCEPT !.loader = "new"]
           /\ hist' = [hist EXCEPT !.waived = FALSE]
           /\ UNCHANGED <<dev, mem, g3>>
  <2>1. hist' \in Histories /\ hist'.owed = hist.owed /\ hist'.lost = hist.lost
    BY <1>2, <1>4 DEF Histories
  <2>2. disk'.loader = "new"
    BY <1>2, <1>4, LoaderType
  <2>3. BootTypeOK'
    BY <1>1, <1>2, <1>3, <1>4, <2>1, TypesTogether
  <2> QED
    BY <1>1, <1>3, <1>4, <2>1, <2>2, <2>3
       DEF BootInv, UpdateKept, RequestKept, InPlace, Loaded, Pending
<1>5. CASE /\ Fault
           /\ LET h == [Faulty(hist) EXCEPT !.waived = TRUE]
              IN  (hist' = h /\ UNCHANGED <<dev, mem, g3>>) \/ Reset(h)
  <2> DEFINE h == [Faulty(hist) EXCEPT !.waived = TRUE]
  <2>1. h \in Histories /\ h.owed = hist.owed /\ h.waived /\ h.lost = hist.lost
    <3>1. /\ Faulty(hist) \in Histories /\ Faulty(hist).owed = hist.owed
          /\ Faulty(hist).lost = hist.lost
      BY <1>2, <1>5, FaultyType
    <3> QED
      BY <3>1 DEF Histories
  <2>2. (hist' = h /\ UNCHANGED <<dev, mem, g3>>) \/ Reset(h)
    BY <1>5
  <2> HIDE DEF h
  <2>3. CASE hist' = h /\ UNCHANGED <<dev, mem, g3>>
    <3>1. BootTypeOK'
      BY <1>1, <1>2, <1>3, <2>1, <2>3, TypesTogether
    <3> QED
      BY <1>1, <1>3, <2>1, <2>3, <3>1
         DEF BootInv, UpdateKept, RequestKept, InPlace, Loaded, Pending
  <2>4. CASE Reset(h)
    BY <1>2, <1>3, <2>1, <2>4, ResetOK DEF BootInv, UpdateKept, RequestKept, Pending
  <2> QED
    BY <2>2, <2>3, <2>4
<1> QED
  BY <1>4, <1>5 DEF FlashBootloader

\* Someone writes the message in misc.
LEMMA MessageOK ==
  ASSUME BootInv, dev.pc \in {"fastboot", "running"}, NEW c \in Commands,
         disk' = [disk EXCEPT !.cmd = c], hist' = Asked(hist, c), UNCHANGED <<usts, dev, mem, g3>>
  PROVE  BootInv'
<1>1. /\ disk \in Disks /\ usts \in 0..3 /\ dev \in Devices /\ hist \in Histories
      /\ g3 \in Sessions /\ g3.pc = "idle" /\ mem \in Memories
      /\ dev.os # "none" <=> dev.pc = "running"
  BY Before
<1>2. disk' \in Disks /\ disk'.cmd = c /\ disk'.loader = disk.loader
  BY <1>1 DEF Disks
<1>3. /\ hist' \in Histories /\ hist'.owed = c
      /\ hist'.waived = (hist.waived \/ (disk.loader = "mixed" /\ c # "update"))
  BY <1>1, AskedType
<1>4. BootTypeOK'
  BY <1>1, <1>2, <1>3, TypesTogether
<1> QED
  BY <1>2, <1>3, <1>4 DEF BootInv, UpdateKept, RequestKept, InPlace, Loaded, Pending

LEMMA ContinueOK == ASSUME BootInv, Continue PROVE BootInv'
<1>1. dev.pc = "fastboot" /\ UNCHANGED <<disk, usts, mem, hist, g3>>
  BY DEF Continue, Served
<1>2. /\ disk \in Disks /\ usts \in 0..3 /\ dev \in Devices /\ hist \in Histories
      /\ g3 \in Sessions /\ g3.pc = "idle" /\ mem \in Memories /\ dev.os = "none"
  BY <1>1, Before
<1>3. dev' \in Devices /\ dev'.pc = "header" /\ dev'.os = "none" /\ dev'.rec = dev.rec
  BY <1>2 DEF Continue, Devices, Pcs
<1>4. Loaded'
  BY <1>3 DEF Loaded
<1> QED
  BY <1>1, <1>2, <1>3, <1>4, LoadingOK

LEMMA BootFromHostOK == ASSUME BootInv, BootFromHost PROVE BootInv'
<1>1. dev.pc = "fastboot" /\ UNCHANGED <<disk, usts, mem, g3>>
  BY DEF BootFromHost, Served
<1>2. /\ dev \in Devices /\ hist \in Histories /\ g3 \in Sessions /\ g3.pc = "idle"
      /\ mem \in Memories /\ dev.os = "none"
  BY <1>1, Before
<1>3. CASE Started("host")
  BY <1>1, <1>2, <1>3, StartedOK
<1>4. CASE Goto("halted") /\ UNCHANGED hist
  <2>1. dev' \in Devices /\ dev'.pc = "halted" /\ dev'.rec = dev.rec /\ dev'.os = "none"
    BY <1>2, <1>4, GotoOK DEF Pcs
  <2>2. Loaded'
    BY <2>1 DEF Loaded
  <2> QED
    BY <1>1, <1>2, <1>4, <2>1, <2>2, LoadingOK
<1> QED
  BY <1>3, <1>4 DEF BootFromHost

-----------------------------------------------------------------------------
(* The theorems.                                                           *)

LEMMA BootInitOK == ASSUME BootInit PROVE BootInv
<1>1. disk \in Disks /\ disk.loader = "old" /\ usts \in 0..3
  BY DEF BootInit, Disks, Commands, Images
<1>2. dev \in Devices /\ dev.os = "none" /\ dev.pc = "reset" /\ dev.usb = "off" /\ ~dev.rec /\ ~dev.chrome
  BY DEF BootInit, PowerOnDevice, Devices, Pcs
<1>3. mem \in Memories
  BY DEF BootInit, EmptyMemory, Missing, Memories, Sources, Images
<1>4. hist \in Histories /\ hist.owed = "none"
  BY BootAssumption DEF BootInit, Histories, Commands, BootAssumption
<1>5. g3 \in Sessions /\ g3.pc = "idle"
  BY SessionTypes DEF BootInit, VerifyInit
<1> QED
  BY <1>1, <1>2, <1>3, <1>4, <1>5, TypesApart
     DEF BootInv, UpdateKept, RequestKept, InPlace, Loaded

LEMMA StutterOK == ASSUME BootInv, UNCHANGED bootvars PROVE BootInv'
<1>1. disk' = disk /\ usts' = usts /\ dev' = dev /\ mem' = mem /\ hist' = hist /\ g3' = g3
  BY DEF bootvars
<1>2. BootTypeOK'
  BY <1>1, TypesApart, TypesTogether DEF BootInv
<1>3. UpdateKept' /\ RequestKept'
  BY <1>1 DEF BootInv, UpdateKept, RequestKept, Pending
<1>4. InPlace'
  BY <1>1 DEF BootInv, InPlace
<1>5. Loaded'
  <2>1. Stored' = Stored
    BY <1>1 DEF Stored, Selected
  <2> QED
    BY <1>1, <2>1 DEF BootInv, Loaded
<1> QED
  BY <1>2, <1>3, <1>4, <1>5 DEF BootInv

\* The invariant of the boot holds wherever the power is lost and whatever the
\* storage, the chip, the host and the kernels do.
THEOREM BootInvariant == BootSpec => []BootInv
<1>1. BootInit => BootInv
  BY BootInitOK
<1>2. BootInv /\ [BootNext]_bootvars => BootInv'
  <2> SUFFICES ASSUME BootInv, [BootNext]_bootvars PROVE BootInv'
    OBVIOUS
  <2>1. CASE Aboot
    <3>1. CASE Console \/ FactoryReset \/ Keys
      BY <3>1, ConsoleOK, FactoryResetOK, KeysOK
    <3>2. CASE ReadMessage \/ ClearMessage \/ UpdateBootloader \/ FinishUpdate
      BY <3>2, ReadMessageOK, ClearMessageOK, UpdateBootloaderOK, FinishUpdateOK
    <3>3. CASE LoadHeader \/ LoadKernel \/ LoadRamdisk \/ Verified \/ LoadTree \/ StartKernel
      BY <3>3, LoadHeaderOK, LoadKernelOK, LoadRamdiskOK, VerifiedOK, LoadTreeOK, StartKernelOK
    <3>4. CASE VerifyImage /\ (VerifyBegin \/ G3Send \/ G3TimeOut)
      BY <3>4, VerifyImageOK
    <3> QED
      BY <2>1, <3>1, <3>2, <3>3, <3>4 DEF Aboot
  <2>2. CASE VerifyImage /\ G3Answer
    BY <2>2, VerifyImageOK
  <2>3. CASE FlashImage \/ FlashBootloader \/ Continue \/ BootFromHost
    BY <2>3, FlashImageOK, FlashBootloaderOK, ContinueOK, BootFromHostOK
  <2>4. CASE EraseMessage \/ KernelAsks
    BY <2>4, MessageOK DEF EraseMessage, KernelAsks, Served, Commands
  <2>5. CASE Reboot \/ Restart \/ PowerLoss
    BY <2>5, RebootOK, PowerLossOK
  <2>6. CASE UNCHANGED bootvars
    BY <2>6, StutterOK
  <2> QED
    BY <2>1, <2>2, <2>3, <2>4, <2>5, <2>6 DEF BootNext
<1> QED
  BY <1>1, <1>2, PTL DEF BootSpec

\* The type invariant of the boot, and of the session with the chip.
THEOREM BootTyped == BootSpec => []BootTypeOK
<1>1. BootInv => BootTypeOK
  BY DEF BootInv
<1> QED
  BY <1>1, BootInvariant, PTL

\* However often the power is lost, a half-written bootloader stays requested.
THEOREM UpdatesAreRepeated == BootSpec => []UpdateKept
<1>1. BootInv => UpdateKept
  BY DEF BootInv
<1> QED
  BY <1>1, BootInvariant, PTL

\* A request for recovery is on storage or in hand until recovery is started,
\* outside the one window that the code leaves.
THEOREM RequestsAreKept == BootSpec => []RequestKept
<1>1. BootInv => RequestKept
  BY DEF BootInv
<1> QED
  BY <1>1, BootInvariant, PTL

\* Only what storage holds for the flags is started, with all its parts.
THEOREM StartsStored == BootSpec => []StartsWhatIsStored
<1>1. BootInv => StartsWhatIsStored
  BY DEF BootInv, Loaded, StartsWhatIsStored
<1> QED
  BY <1>1, BootInvariant, PTL
=============================================================================

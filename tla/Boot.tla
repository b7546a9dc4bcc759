--------------------------------- MODULE Boot ---------------------------------
(***************************************************************************)
(* From reset to a running kernel (app/aboot/aboot.c, recovery.c, penta,   *)
(* platform/tcc893x/reboot.c): aboot_init chooses what to do, recovery_init*)
(* reads the message in the misc partition, updates the bootloader or      *)
(* takes a request for recovery, and boot_linux_from_storage loads and     *)
(* starts an image, or returns, and the device waits for fastboot.         *)
(*                                                                         *)
(* What the storage holds survives a reset, at any step, and what memory   *)
(* holds does not.  The message and its status fit in one sector, so misc  *)
(* is written whole or not at all; an image or the bootloader may be left  *)
(* half written.  The storage driver, the kernels and the host are not in  *)
(* the repository.                                                         *)
(***************************************************************************)
EXTENDS Verify

CONSTANTS
  MaxFaults,   \* bound on power losses and storage errors
  Flashable    \* the partitions the host writes to

Partitions == {"boot", "recovery", "KERN-A"}

ASSUME BootAssumption == MaxFaults \in Nat /\ Flashable \subseteq Partitions

VARIABLES
  disk,   \* storage: the command in misc, the bootloader, the boot images
  usts,   \* the PMU_USSTATUS register: the reason of the reset
  dev,    \* where aboot is, its boot_into_ flags, the USB of fastboot, what was started
  mem,    \* what has been loaded: kernel, ramdisk and device tree
  hist    \* history: faults so far; what was asked for and not done yet; whether
          \* an unfinished update was replaced, and a request lost in a reset

bootvars == <<disk, usts, dev, mem, hist, g3>>

\* "none" stands for every string that recovery_init does nothing about;
\* "boot-force_normal" is one of them, as quickboot is off.
Commands == {"none", "recovery", "update"}
Images == {"none", "old", "new", "mixed"}
Missing == <<"", "none">>

PowerOnDevice == [pc |-> "reset", rec |-> FALSE, chrome |-> FALSE,
                  usb |-> "off", os |-> "none"]
EmptyMemory == [kernel |-> Missing, ramdisk |-> Missing, tree |-> FALSE]

BootInit ==
  /\ disk = [cmd |-> "none", loader |-> "old", image |-> [p \in Partitions |-> "old"]]
  /\ usts = 0
  /\ dev = PowerOnDevice
  /\ mem = EmptyMemory
  /\ hist = [faults |-> 0, owed |-> "none", waived |-> FALSE, lost |-> FALSE]
  /\ VerifyInit

-----------------------------------------------------------------------------
(* Faults and resets.                                                      *)

\* One more storage error, if the bound allows it.
Fault == hist.faults < MaxFaults
Faulty(h) == [h EXCEPT !.faults = @ + 1]

\* The message in misc becomes c, for someone who wants that: what was asked
\* for before is off.
Asked(h, c) == [h EXCEPT !.owed = c, !.lost = FALSE,
                         !.waived = @ \/ (disk.loader = "mixed" /\ c # "update")]

Pending == disk.cmd \in {"recovery", "update"}

\* A reset: memory and flags are gone.
Reset(h) ==
  /\ dev' = PowerOnDevice
  /\ mem' = EmptyMemory
  /\ g3' = NoSession
  /\ hist' = [h EXCEPT !.lost = @ \/ (h.owed = "recovery" /\ ~Pending /\ dev.rec)]

\* The power fails between two steps.
PowerLoss ==
  /\ Fault
  /\ Reset(Faulty(hist))
  /\ usts' \in {usts, 0}
  /\ UNCHANGED disk

Goto(l) == dev' = [dev EXCEPT !.pc = l]

-----------------------------------------------------------------------------
(* aboot_init.                                                             *)

\* The character on the console: f is fastboot, r and q recovery, d a factory
\* reset; none at all resets the flag.
Console ==
  /\ dev.pc = "reset"
  /\ \/ dev' = [dev EXCEPT !.pc = "fastboot", !.usb = "on"]
     \/ \E r \in BOOLEAN : dev' = [dev EXCEPT !.pc = "keys", !.rec = r]
     \/ Goto("wipe")
  /\ UNCHANGED <<disk, usts, mem, hist, g3>>

\* aboot_factory_reset; the result of set_recovery_message is not looked at.
FactoryReset ==
  /\ dev.pc = "wipe"
  /\ Goto("keys")
  /\ \/ /\ disk' = [disk EXCEPT !.cmd = "recovery"]
        /\ hist' = Asked(hist, "recovery")
     \/ /\ Fault
        /\ hist' = Faulty(hist)
        /\ UNCHANGED disk
  /\ UNCHANGED <<usts, mem, g3>>

\* KEY_F1; HOME or VOLUMEUP; BACK or VOLUMEDOWN; then check_reboot_mode.
Keys ==
  /\ dev.pc = "keys"
  /\ \E chrome, up, down \in BOOLEAN :
       LET rec == dev.rec \/ up
       IN  dev' = IF (~rec /\ down) \/ usts = 1
                  THEN [dev EXCEPT !.pc = "fastboot", !.usb = "on",
                                   !.rec = rec, !.chrome = chrome]
                  ELSE [dev EXCEPT !.pc = "message",
                                   !.rec = rec \/ usts = 2, !.chrome = chrome]
  /\ UNCHANGED <<disk, usts, mem, hist, g3>>

-----------------------------------------------------------------------------
(* recovery_init.                                                          *)

\* get_recovery_message and the comparison of the command.
ReadMessage ==
  /\ dev.pc = "message"
  /\ \/ /\ Goto(CASE disk.cmd = "recovery" -> "clear"
                  [] disk.cmd = "update"   -> "update"
                  [] OTHER                 -> "header")
        /\ UNCHANGED hist
     \/ /\ Fault
        /\ hist' = Faulty(hist)
        /\ Goto("header")
  /\ UNCHANGED <<disk, usts, mem, g3>>

\* Mutant of ClearMessage: the flag is not set.
ClearMessageOnly ==
  /\ dev.pc = "clear"
  /\ Goto("header")
  /\ disk' = [disk EXCEPT !.cmd = "none"]
  /\ UNCHANGED <<usts, mem, hist, g3>>

\* boot-recovery: the command is cleared, if the write succeeds, before
\* recovery has run.
ClearMessage ==
  /\ dev.pc = "clear"
  /\ dev' = [dev EXCEPT !.pc = "header", !.rec = TRUE]
  /\ \/ disk' = [disk EXCEPT !.cmd = "none"] /\ UNCHANGED hist
     \/ Fault /\ hist' = Faulty(hist) /\ UNCHANGED disk
  /\ UNCHANGED <<usts, mem, g3>>

\* The update is given up: aboot boots, and the message stays.
UpdateFails ==
  /\ Fault
  /\ hist' = Faulty(hist)
  /\ Goto("header")

\* Mutant of UpdateBootloader: the message is replaced before the update.
UpdateAfterMessage ==
  /\ dev.pc = "update"
  /\ \/ /\ disk' = [disk EXCEPT !.loader = "new", !.cmd = "recovery"]
        /\ Goto("updated")
        /\ hist' = [hist EXCEPT !.owed = IF @ = "update" THEN "recovery" ELSE @]
        /\ UNCHANGED <<mem, g3>>
     \/ /\ Fault
        /\ disk' = [disk EXCEPT !.loader = "mixed", !.cmd = "recovery"]
        /\ Reset(Faulty(hist))
  /\ UNCHANGED usts

\* read_update_header_for_bootloader and update_firmware_image.  The header is
\* used even if it could not be read, and a write that fails with an error
\* other than -1 counts as done: then the bootloader may be anything.
UpdateBootloader ==
  /\ dev.pc = "update"
  /\ \/ /\ disk' = [disk EXCEPT !.loader = "new"]
        /\ Goto("updated")
        /\ hist' = [hist EXCEPT !.owed = IF @ = "update" THEN "recovery" ELSE @,
                                !.waived = FALSE]
        /\ UNCHANGED <<mem, g3>>
     \/ UpdateFails /\ disk' \in {disk, [disk EXCEPT !.loader = "mixed"]} /\ UNCHANGED <<mem, g3>>
     \/ /\ Fault
        /\ disk' = [disk EXCEPT !.loader = "mixed"]
        /\ Goto("updated")
        /\ hist' = [Faulty(hist) EXCEPT !.owed = "recovery", !.waived = TRUE]
        /\ UNCHANGED <<mem, g3>>
     \/ Fault /\ disk' = [disk EXCEPT !.loader = "mixed"] /\ Reset(Faulty(hist))
  /\ UNCHANGED usts

\* The rest of recovery_init: the update is followed by recovery.  The result
\* of the write is not looked at, and reboot_device(0) resets the device.
FinishUpdate ==
  /\ dev.pc = "updated"
  /\ usts' = 0
  /\ \/ disk' = [disk EXCEPT !.cmd = "recovery"] /\ Reset(hist)
     \/ Fault /\ Reset(Faulty(hist)) /\ UNCHANGED disk

-----------------------------------------------------------------------------
(* boot_linux_from_storage.                                                *)

\* The partition the flags select, and what it holds.
Selected == IF dev.rec THEN "recovery" ELSE IF dev.chrome THEN "KERN-A" ELSE "boot"
Stored == <<Selected, disk.image[Selected]>>

\* A return of -1: aboot_init goes on to fastboot, cmd_continue back to it,
\* where USB has been stopped.
BootFails ==
  dev' = [dev EXCEPT !.pc = "fastboot", !.usb = IF @ = "off" THEN "on" ELSE @]

\* A storage error ends the attempt.
ReadFails == Fault /\ hist' = Faulty(hist) /\ BootFails /\ UNCHANGED mem

\* The header: the partition is there and the magic is right, or not.
LoadHeader ==
  /\ dev.pc = "header"
  /\ \/ ReadFails
     \/ /\ IF disk.image[Selected] = "none" THEN BootFails ELSE Goto("kernel")
        /\ UNCHANGED <<mem, hist>>
  /\ UNCHANGED <<disk, usts, g3>>

LoadKernel ==
  /\ dev.pc = "kernel"
  /\ \/ ReadFails
     \/ Goto("ramdisk") /\ mem' = [mem EXCEPT !.kernel = Stored] /\ UNCHANGED hist
  /\ UNCHANGED <<disk, usts, g3>>

\* Mutant of LoadRamdisk: the result of tcc_read is not looked at.
LoadRamdiskUnchecked ==
  /\ dev.pc = "ramdisk"
  /\ Goto("verify")
  /\ \/ Fault /\ hist' = Faulty(hist) /\ UNCHANGED mem
     \/ mem' = [mem EXCEPT !.ramdisk = Stored] /\ UNCHANGED hist
  /\ UNCHANGED <<disk, usts, g3>>

\* With boot_into_chrome no ramdisk is read, whichever image is loaded.
LoadRamdisk ==
  /\ dev.pc = "ramdisk"
  /\ \/ dev.chrome /\ Goto("verify") /\ UNCHANGED <<mem, hist>>
     \/ ~dev.chrome /\ ReadFails
     \/ /\ ~dev.chrome
        /\ Goto("verify")
        /\ mem' = [mem EXCEPT !.ramdisk = Stored]
        /\ UNCHANGED hist
  /\ UNCHANGED <<disk, usts, g3>>

\* bootimg_secureboot runs; its result is not looked at.  The ASSERT of an
\* image with a second stage stops the device.
Verified ==
  /\ dev.pc = "verify"
  /\ g3.pc = "over"
  /\ g3' = NoSession
  /\ Goto("tree") \/ Goto("halted")
  /\ UNCHANGED <<disk, usts, mem, hist>>

\* load_device_tree: a tree that does not check out fails as an error does.
LoadTree ==
  /\ dev.pc = "tree"
  /\ \/ ReadFails
     \/ Goto("start") /\ mem' = [mem EXCEPT !.tree = TRUE] /\ UNCHANGED hist
  /\ UNCHANGED <<disk, usts, g3>>

\* boot_linux: the kernel is entered, or the ASSERT that the device tree could
\* be updated fails.  A request for recovery is honoured by recovery.
Started(os) ==
  /\ dev' = [dev EXCEPT !.pc = "running", !.os = os]
  /\ hist' = IF os = "recovery" /\ hist.owed = "recovery"
             THEN [hist EXCEPT !.owed = "none"] ELSE hist

StartKernel ==
  /\ dev.pc = "start"
  /\ \/ Started(Selected)
     \/ Goto("halted") /\ UNCHANGED hist
  /\ UNCHANGED <<disk, usts, mem, g3>>

-----------------------------------------------------------------------------
(* Fastboot, as far as storage and the boot are concerned, and the kernels. *)

\* A command comes; after continue there is no USB for one.
Served == dev.pc = "fastboot" /\ dev.usb = "on"

\* cmd_flash and cmd_erase of a boot image: done, failed, or cut short.
FlashImage ==
  /\ Served
  /\ \E p \in Flashable, i \in {"none", "new", "mixed"} :
       /\ disk' = [disk EXCEPT !.image[p] = i]
       /\ \/ i # "mixed" /\ UNCHANGED <<dev, mem, hist, g3>>
          \/ Fault /\ hist' = Faulty(hist) /\ UNCHANGED <<dev, mem, g3>>
          \/ Fault /\ Reset(Faulty(hist))
  /\ UNCHANGED usts

\* cmd_flash of the bootloader: a failure, or being cut short, shows on the host.
FlashBootloader ==
  /\ Served
  /\ \/ /\ disk' = [disk EXCEPT !.loader = "new"]
        /\ hist' = [hist EXCEPT !.waived = FALSE]
        /\ UNCHANGED <<dev, mem, g3>>
     \/ /\ Fault
        /\ disk' = [disk EXCEPT !.loader = "mixed"]
        /\ LET h == [Faulty(hist) EXCEPT !.waived = TRUE]
           IN  (hist' = h /\ UNCHANGED <<dev, mem, g3>>) \/ Reset(h)
  /\ UNCHANGED usts

\* cmd_erase of misc.
EraseMessage ==
  /\ Served
  /\ disk' = [disk EXCEPT !.cmd = "none"]
  /\ hist' = Asked(hist, "none")
  /\ UNCHANGED <<usts, dev, mem, g3>>

\* Mutant of Continue: recovery_init is run again.
ContinueFromMessage ==
  /\ Served
  /\ dev' = [dev EXCEPT !.pc = "message", !.usb = "stopped"]
  /\ UNCHANGED <<disk, usts, mem, hist, g3>>

\* cmd_continue: aboot_init and recovery_init are not run again, the flags stay.
Continue ==
  /\ Served
  /\ dev' = [dev EXCEPT !.pc = "header", !.usb = "stopped"]
  /\ UNCHANGED <<disk, usts, mem, hist, g3>>

\* cmd_boot with a complete image.
BootFromHost ==
  /\ Served
  /\ Started("host") \/ (Goto("halted") /\ UNCHANGED hist)
  /\ UNCHANGED <<disk, usts, mem, g3>>

\* cmd_reboot, cmd_reboot_bootloader.
Reboot ==
  /\ Served
  /\ usts' = 0
  /\ Reset(hist)
  /\ UNCHANGED disk

\* A kernel writes the message, for an update when it has left the image in
\* the cache partition.
KernelAsks ==
  /\ dev.pc = "running"
  /\ \E c \in Commands :
       /\ disk' = [disk EXCEPT !.cmd = c]
       /\ hist' = Asked(hist, c)
  /\ UNCHANGED <<usts, dev, mem, g3>>

\* A kernel restarts the device with a reason; or it is switched off and on.
Restart ==
  /\ dev.pc \in {"running", "fastboot", "halted"} \/ g3.pc = "overrun"
  /\ usts' \in IF dev.pc = "running" THEN 0..3 ELSE {usts, 0}
  /\ Reset(hist)
  /\ UNCHANGED disk

-----------------------------------------------------------------------------
VerifyImage == dev.pc = "verify" /\ UNCHANGED <<disk, usts, dev, mem, hist>>

\* What aboot does on its own.
Aboot ==
  \/ Console \/ FactoryReset \/ Keys
  \/ ReadMessage \/ ClearMessage \/ UpdateBootloader \/ FinishUpdate
  \/ LoadHeader \/ LoadKernel \/ LoadRamdisk \/ Verified \/ LoadTree \/ StartKernel
  \/ VerifyImage /\ (VerifyBegin \/ G3Send \/ G3TimeOut)

BootNext ==
  \/ Aboot
  \/ VerifyImage /\ G3Answer
  \/ FlashImage \/ FlashBootloader \/ EraseMessage \/ Continue \/ BootFromHost \/ Reboot
  \/ KernelAsks \/ Restart
  \/ PowerLoss

\* aboot runs on; the chip need not answer, nobody need send a command.
BootSpec == BootInit /\ [][BootNext]_bootvars /\ WF_bootvars(Aboot)

-----------------------------------------------------------------------------
(* Properties.                                                             *)

\* Type invariant of the boot: also, where USB is served, and when a kernel runs.
BootTypeOK ==
  /\ disk \in [cmd : Commands, loader : {"old", "new", "mixed"}, image : [Partitions -> Images]]
  /\ usts \in 0..3
  /\ dev \in [pc : {"reset", "wipe", "keys", "message", "clear", "update", "updated",
                   "header", "kernel", "ramdisk", "verify", "tree", "start",
                   "running", "fastboot", "halted"},
              rec : BOOLEAN, chrome : BOOLEAN, usb : {"off", "on", "stopped"},
              os : Partitions \cup {"none", "host"}]
  /\ mem \in [kernel : (Partitions \cup {""}) \X Images,
              ramdisk : (Partitions \cup {""}) \X Images, tree : BOOLEAN]
  /\ hist \in [faults : 0..MaxFaults, owed : Commands, waived : BOOLEAN, lost : BOOLEAN]
  /\ G3TypeOK
  /\ dev.os # "none" <=> dev.pc = "running"
  /\ g3.pc # "idle" => dev.pc = "verify"
  /\ dev.pc \in {"message", "clear", "update", "updated"} => dev.usb = "off"

\* An interrupted update is repeated: while the bootloader is half written the
\* message still says update-bootloader, whatever failed and wherever the power
\* was lost.  Waived: someone has since put another message in its place, the
\* host was told of the failure, or recovery_init took the update for done
\* (recovery.c:240-241: an unread header, an error other than -1).
UpdateKept == disk.loader = "mixed" => disk.cmd = "update" \/ hist.waived

\* A request for recovery, or what follows an update, is on storage or in hand,
\* until recovery has been started: nothing forgets it but a reset between the
\* clearing of the message and the start of recovery (hist.lost).
RequestKept ==
  /\ hist.owed = "recovery" => Pending \/ dev.rec \/ hist.lost
  /\ hist.owed = "update" => disk.cmd = "update"

\* A kernel from storage is started with its own ramdisk, both as storage has
\* them, and a device tree, also at a second attempt after something has failed
\* or the image has been flashed.  With boot_into_chrome there is no ramdisk.
StartsWhatIsStored ==
  dev.pc = "start" =>
    /\ mem.kernel = Stored
    /\ ~dev.chrome => mem.ramdisk = Stored
    /\ mem.tree

Ended == dev.pc \in {"running", "fastboot", "halted"}

\* Without further faults every boot ends, whatever the security chip does and
\* however many resets an update takes; with a request for recovery on storage
\* it ends in recovery, unless in fastboot or a failed ASSERT.  All this with a
\* certificate below 1200 bytes and a signature of at most 216: nothing is said
\* of a boot once a longer one has been copied over the stack.
BootCompletes ==
  \A n \in 0..MaxFaults :
    /\ dev.pc = "reset" /\ hist.faults = n ~> Ended \/ g3.pc = "overrun" \/ hist.faults > n
    /\ dev.pc = "reset" /\ disk.cmd = "recovery" /\ hist.faults = n ~>
         \/ dev.os = "recovery" \/ dev.pc \in {"fastboot", "halted"}
         \/ g3.pc = "overrun" \/ hist.faults > n
=============================================================================
